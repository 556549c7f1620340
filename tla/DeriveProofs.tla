---------------------------- MODULE DeriveProofs ----------------------------
(***************************************************************************)
(* What the loops of module Derive give is apart, for every list of        *)
(* policies and of forwards, and whatever is pinned.                       *)
(*                                                                         *)
(* NumbersApart is not inductive: that the next number is nobody's follows *)
(* from the allocators knowing everybody's (Held), and that a pin is given *)
(* to a policy without a number from the order of the first loop           *)
(* (PinsFirst).                                                            *)
(***************************************************************************)
EXTENDS Derive, TLAPS, FiniteSetTheorems

Shape ==
    /\ Position \subseteq Nat /\ pos \in Nat
    /\ routing = [k \in Position |-> Number(routing[k].table, routing[k].mark)]
    /\ returns = [r \in DOMAIN returns |-> Number(returns[r].table, returns[r].mark)]
    /\ tables = [next |-> tables.next, taken |-> tables.taken] /\ tables.next \in Nat
    /\ tables.next >= FirstTable
    /\ marks = [next |-> marks.next, taken |-> marks.taken] /\ marks.next \in Nat
    /\ marks.next >= FirstMark

PinsFirst == loop = "pin" => \A k \in Position : k >= pos => routing[k] = Number(None, None)

\* The allocators know every number that was given.
Held ==
    /\ \A x \in Given("table") : NumberOf("table", x) \in tables.taken \ ReservedTables
    /\ \A x \in Given("mark") : NumberOf("mark", x) \in marks.taken \ {0}

IInv == Shape /\ PinsFirst /\ Held /\ NumbersApart

\* A step gives one party a number of a kind, and leaves the others theirs.
Gives(field, x, n) ==
    /\ x \notin Given(field)
    /\ Given(field)' = Given(field) \cup {x}
    /\ NumberOf(field, x)' = n
    /\ \A y \in Given(field) : NumberOf(field, y)' = NumberOf(field, y)

\* A step gives nobody a number of a kind.
GivesNobody(field) ==
    /\ Given(field)' = Given(field)
    /\ \A y \in Given(field) : NumberOf(field, y)' = NumberOf(field, y)

\* What every step does to the numbers of one kind.
OneTable ==
    /\ tables.taken \subseteq tables'.taken
    /\ \/ GivesNobody("table")
       \/ \E x, n : /\ n \notin tables.taken \cup ReservedTables /\ n \in tables'.taken
                    /\ Gives("table", x, n)

OneMark ==
    /\ marks.taken \subseteq marks'.taken
    /\ \/ GivesNobody("mark")
       \/ \E x, n : /\ n \notin marks.taken \cup {0} /\ n \in marks'.taken
                    /\ Gives("mark", x, n)

\* allocator.next: a number that is tried and free is not spoken for, nor before the one the
\* allocator is at.
LEMMA NextFreeIsFree ==
    ASSUME NEW a, NEW unusable, NEW n \in NextFree(a, unusable), a.next \in Nat
    PROVE  n \in Nat /\ n >= a.next /\ n \notin a.taken \cup unusable
BY DEF NextFree

\* The loops begin with nobody given anything.
LEMMA BegunIInv == Begun => IInv
<1> SUFFICES ASSUME Begun PROVE IInv
  OBVIOUS
<1>1. Given("table") = {} /\ Given("mark") = {}
  BY DEF Begun, Given, Number
<1>2. Shape /\ PinsFirst
  BY DEF Begun, Shape, PinsFirst, Number, FirstTable, FirstMark
<1> QED
  BY <1>1, <1>2 DEF IInv, Held, NumbersApart

\* A number nobody had keeps the numbers apart, and known to the allocators.
LEMMA OneAtATime ==
    ASSUME Held, NumbersApart, OneTable, OneMark
    PROVE  Held' /\ NumbersApart'
<1>1. ASSUME NEW x \in Given("table")' PROVE NumberOf("table", x)' \in tables'.taken \ ReservedTables
  BY <1>1 DEF Held, OneTable, Gives, GivesNobody
<1>2. ASSUME NEW x \in Given("mark")' PROVE NumberOf("mark", x)' \in marks'.taken \ {0}
  BY <1>2 DEF Held, OneMark, Gives, GivesNobody
<1>3. ASSUME NEW x \in Given("table")', NEW y \in Given("table")', x # y
      PROVE  NumberOf("table", x)' # NumberOf("table", y)'
  BY <1>3 DEF Held, NumbersApart, OneTable, Gives, GivesNobody
<1>4. ASSUME NEW x \in Given("mark")', NEW y \in Given("mark")', x # y
      PROVE  NumberOf("mark", x)' # NumberOf("mark", y)'
  BY <1>4 DEF Held, NumbersApart, OneMark, Gives, GivesNobody
<1> QED
  BY <1>1, <1>2, <1>3, <1>4 DEF Held, NumbersApart

\* What a policy is given: a number it missed, or none.
LEMMA PolicyGiven ==
    ASSUME Shape, NEW k \in Position, NEW t, NEW m, UNCHANGED <<policies, returns>>,
           routing' = [routing EXCEPT ![k] = Number(t, m)]
    PROVE  /\ routing[k].table = None /\ t # None => Gives("table", <<"policy", k>>, t)
           /\ t = routing[k].table => GivesNobody("table")
           /\ routing[k].mark = None /\ m # None => Gives("mark", <<"policy", k>>, m)
           /\ m = routing[k].mark => GivesNobody("mark")
<1>1. /\ \A j \in Position : routing'[j] = IF j = k THEN Number(t, m) ELSE routing[j]
      /\ Number(t, m).table = t /\ Number(t, m).mark = m
      /\ Position' = Position /\ returns' = returns
  BY DEF Shape, Number, Position
<1>2. /\ routing[k].table = None /\ t # None => Gives("table", <<"policy", k>>, t)
      /\ t = routing[k].table => GivesNobody("table")
  BY <1>1 DEF Gives, GivesNobody, Given, NumberOf
<1>3. /\ routing[k].mark = None /\ m # None => Gives("mark", <<"policy", k>>, m)
      /\ m = routing[k].mark => GivesNobody("mark")
  BY <1>1 DEF Gives, GivesNobody, Given, NumberOf
<1> QED
  BY <1>2, <1>3

\* The first loop: a pin is taken when nobody else's, and given to a policy without a number.
LEMMA PinStep ==
    ASSUME IInv, NEW k \in Position, Pin(k)
    PROVE  Shape' /\ PinsFirst' /\ OneTable /\ OneMark
<1> DEFINE t == policies[k].table
           m == policies[k].mark
           T == IF Pinnable(t) THEN t ELSE None
           M == IF PinnableMark(m) THEN m ELSE None
<1>1. /\ routing[k] = Number(None, None) /\ UNCHANGED <<policies, returns>>
      /\ routing' = [routing EXCEPT ![k] = Number(T, M)]
  BY DEF IInv, Shape, PinsFirst, Pin, ToPin, inputs
<1>2. routing[k].table = None /\ routing[k].mark = None
  BY <1>1 DEF Number
<1> HIDE DEF T, M
<1>3. /\ T # None => Gives("table", <<"policy", k>>, T)
      /\ T = None => GivesNobody("table")
      /\ M # None => Gives("mark", <<"policy", k>>, M)
      /\ M = None => GivesNobody("mark")
  BY <1>1, <1>2, PolicyGiven DEF IInv
<1>4. OneTable
  <2>1. CASE Pinnable(t)
    <3>1. T = t /\ t \notin tables.taken \cup ReservedTables /\ T # None
      BY <2>1 DEF Pinnable, T
    <3>2. tables'.taken = tables.taken \cup {t}
      BY <2>1 DEF Pin, Reserve, IInv, Shape
    <3> QED
      BY <1>3, <3>1, <3>2, Zenon DEF OneTable
  <2>2. CASE ~Pinnable(t)
    <3>1. T = None /\ tables' = tables
      BY <2>2 DEF T, Pin
    <3> QED
      BY <1>3, <3>1 DEF OneTable
  <2> QED
    BY <2>1, <2>2
<1>5. OneMark
  <2>1. CASE PinnableMark(m)
    <3>1. M = m /\ m \notin marks.taken \cup {0} /\ M # None
      BY <2>1 DEF PinnableMark, M
    <3>2. marks'.taken = marks.taken \cup {m}
      BY <2>1 DEF Pin, Reserve, IInv, Shape
    <3> QED
      BY <1>3, <3>1, <3>2, Zenon DEF OneMark
  <2>2. CASE ~PinnableMark(m)
    <3>1. M = None /\ marks' = marks
      BY <2>2 DEF M, Pin
    <3> QED
      BY <1>3, <3>1 DEF OneMark
  <2> QED
    BY <2>1, <2>2
<1>6. Shape'
  <2>1. Position' = Position /\ pos' \in Nat /\ returns' = returns
    BY <1>1 DEF IInv, Shape, Pin, Position
  <2>2. routing' = [j \in Position |-> Number(routing'[j].table, routing'[j].mark)]
    BY <1>1 DEF IInv, Shape, Number
  <2>3. tables' = [next |-> tables.next, taken |-> tables'.taken] /\ tables'.next = tables.next
    BY DEF IInv, Shape, Pin, Reserve
  <2>4. marks' = [next |-> marks.next, taken |-> marks'.taken] /\ marks'.next = marks.next
    BY DEF IInv, Shape, Pin, Reserve
  <2> QED
    BY <2>1, <2>2, <2>3, <2>4 DEF IInv, Shape
<1>7. PinsFirst'
  <2>1. k >= pos /\ pos' = k + 1 /\ pos \in Nat /\ Position' = Position /\ Position \subseteq Nat /\ loop = "pin"
    BY <1>1 DEF IInv, Shape, Pin, ToPin, Position
  <2>2. \A j \in Position : j # k => routing'[j] = routing[j]
    BY <1>1 DEF IInv, Shape
  <2> QED
    BY <2>1, <2>2 DEF IInv, PinsFirst
<1> QED
  BY <1>4, <1>5, <1>6, <1>7

\* The second loop: a policy is handed what it misses.
LEMMA AllocateStep ==
    ASSUME IInv, NEW k \in Position, Allocate(k)
    PROVE  Shape' /\ PinsFirst' /\ OneTable /\ OneMark
<1> PICK t \in NextFree(tables, ReservedTables), m \in NextFree(marks, {}) : Allocate(k)!(t, m)
  BY DEF Allocate
<1> DEFINE T == IF routing[k].table = None THEN t ELSE routing[k].table
           M == IF routing[k].mark = None THEN m ELSE routing[k].mark
<1>1. /\ t \in Nat /\ t >= FirstTable /\ t \notin tables.taken \cup ReservedTables
      /\ m \in Nat /\ m >= FirstMark /\ m \notin marks.taken
  BY NextFreeIsFree DEF IInv, Shape, FirstMark, FirstTable
<1>2. m # 0
  BY <1>1 DEF FirstMark
<1>3. routing' = [routing EXCEPT ![k] = Number(T, M)] /\ UNCHANGED <<policies, returns, loop, pos>>
  BY DEF inputs
<1> HIDE DEF T, M
<1>4. /\ routing[k].table = None /\ T # None => Gives("table", <<"policy", k>>, T)
      /\ T = routing[k].table => GivesNobody("table")
      /\ routing[k].mark = None /\ M # None => Gives("mark", <<"policy", k>>, M)
      /\ M = routing[k].mark => GivesNobody("mark")
  BY <1>3, PolicyGiven DEF IInv
<1>5. OneTable
  <2>1. CASE routing[k].table = None
    <3>1. T = t /\ tables'.taken = tables.taken \cup {t}
      BY <2>1 DEF T, Hand
    <3> QED
      BY <1>1, <1>4, <2>1, <3>1, Zenon DEF OneTable
  <2>2. CASE routing[k].table # None
    BY <1>4, <2>2 DEF T, OneTable
  <2> QED
    BY <2>1, <2>2
<1>6. OneMark
  <2>1. CASE routing[k].mark = None
    <3>1. M = m /\ marks'.taken = marks.taken \cup {m}
      BY <2>1 DEF M, Hand
    <3> QED
      BY <1>1, <1>2, <1>4, <2>1, <3>1, Zenon DEF OneMark
  <2>2. CASE routing[k].mark # None
    BY <1>4, <2>2 DEF M, OneMark
  <2> QED
    BY <2>1, <2>2
<1>7. Shape'
  <2>1. Position' = Position /\ pos' = pos /\ returns' = returns
    BY <1>3 DEF Position
  <2>2. routing' = [j \in Position |-> Number(routing'[j].table, routing'[j].mark)]
    BY <1>3 DEF IInv, Shape, Number
  <2>3. tables' = [next |-> tables'.next, taken |-> tables'.taken] /\ tables'.next \in Nat /\ tables'.next >= FirstTable
    <3>1. CASE routing[k].table = None
      BY <1>1, <3>1 DEF Hand, FirstTable
    <3>2. CASE routing[k].table # None
      BY <3>2 DEF IInv, Shape
    <3> QED
      BY <3>1, <3>2
  <2>4. marks' = [next |-> marks'.next, taken |-> marks'.taken] /\ marks'.next \in Nat /\ marks'.next >= FirstMark
    <3>1. CASE routing[k].mark = None
      BY <1>1, <3>1 DEF Hand, FirstMark
    <3>2. CASE routing[k].mark # None
      BY <3>2 DEF IInv, Shape
    <3> QED
      BY <3>1, <3>2
  <2> QED
    BY <2>1, <2>2, <2>3, <2>4 DEF IInv, Shape
<1>8. PinsFirst'
  BY <1>3 DEF PinsFirst
<1> QED
  BY <1>5, <1>6, <1>7, <1>8

\* deriveForwardReturns: an uplink is handed a table and a mark of its own.
LEMMA ReturnStep ==
    ASSUME IInv, NEW r \in Pending, Return(r)
    PROVE  Shape' /\ PinsFirst' /\ OneTable /\ OneMark
<1> PICK t \in NextFree(tables, ReservedTables), m \in NextFree(marks, {}) : Return(r)!(t, m)
  BY DEF Return
<1>1. /\ t \in Nat /\ t >= FirstTable /\ t \notin tables.taken \cup ReservedTables
      /\ m \in Nat /\ m >= FirstMark /\ m \notin marks.taken /\ m # 0
  BY NextFreeIsFree DEF IInv, Shape, FirstMark, FirstTable
<1>2. /\ returns' = [s \in DOMAIN returns \cup {r} |-> IF s = r THEN Number(t, m) ELSE returns[s]]
      /\ r \notin DOMAIN returns /\ UNCHANGED <<policies, routing, loop, pos>> /\ Position' = Position
  BY DEF inputs, Pending, Position
<1>3. Number(t, m).table = t /\ Number(t, m).mark = m
  BY DEF Number
<1>4. Gives("table", <<"return", r>>, t)
  BY <1>2, <1>3 DEF Gives, Given, NumberOf
<1>5. Gives("mark", <<"return", r>>, m)
  BY <1>2, <1>3 DEF Gives, Given, NumberOf
<1>6. tables'.taken = tables.taken \cup {t} /\ marks'.taken = marks.taken \cup {m}
  BY DEF Hand
<1>7. OneTable
  BY <1>1, <1>4, <1>6, Zenon DEF OneTable
<1>8. OneMark
  BY <1>1, <1>5, <1>6, Zenon DEF OneMark
<1>9. Shape'
  <2>1. returns' = [s \in DOMAIN returns' |-> Number(returns'[s].table, returns'[s].mark)]
    BY <1>2 DEF IInv, Shape, Number
  <2>2. tables' = [next |-> tables'.next, taken |-> tables'.taken] /\ tables'.next \in Nat /\ tables'.next >= FirstTable
    BY <1>1 DEF IInv, Shape, Hand, FirstTable
  <2>3. marks' = [next |-> marks'.next, taken |-> marks'.taken] /\ marks'.next \in Nat /\ marks'.next >= FirstMark
    BY <1>1 DEF IInv, Shape, Hand, FirstMark
  <2> QED
    BY <1>2, <2>1, <2>2, <2>3 DEF IInv, Shape
<1>10. PinsFirst'
  BY <1>2 DEF PinsFirst, IInv
<1> QED
  BY <1>7, <1>8, <1>9, <1>10

\* Every step of the loops gives one number of a kind at most.
LEMMA DerivesStep ==
    ASSUME IInv, [Derives]_deriveVars
    PROVE  IInv' /\ OneTable /\ OneMark
<1>1. ASSUME UNCHANGED <<inputs, pos, tables, marks, routing, returns, clashes>>,
             loop' = "pin" => loop = "pin"
      PROVE  Shape' /\ PinsFirst' /\ OneTable /\ OneMark
  <2>1. Position' = Position /\ UNCHANGED <<pos, tables, marks, routing, returns>>
    BY <1>1 DEF inputs, Position
  <2> QED
    BY <1>1, <2>1 DEF IInv, Shape, PinsFirst, OneTable, OneMark, GivesNobody, Given, NumberOf
<1>2. Shape' /\ PinsFirst' /\ OneTable /\ OneMark
  <2>1. CASE \E k \in Position : Pin(k)
    BY <2>1, PinStep
  <2>2. CASE \E k \in Position : Allocate(k)
    BY <2>2, AllocateStep
  <2>3. CASE \E r \in Pending : Return(r)
    BY <2>3, ReturnStep
  <2>4. CASE Pinned \/ Allocated \/ Returned \/ UNCHANGED deriveVars
    BY <1>1, <2>4 DEF Pinned, Allocated, Returned, deriveVars, inputs
  <2> QED
    BY <2>1, <2>2, <2>3, <2>4 DEF Derives
<1> QED
  BY <1>2, OneAtATime DEF IInv

\* derive.go deriveRouting: what is known of the loops holds throughout.
LEMMA DerivesKnown == Spec => []IInv
<1>1. IInv /\ [Derives]_deriveVars => IInv'
  BY DerivesStep
<1> QED
  BY BegunIInv, <1>1, PTL DEF Spec

\* derive.go deriveRouting: whatever the document pins and publishes, no two policies or
\* uplinks are ever given one table or one mark, and never one the kernel keeps.
THEOREM AlwaysApart == Spec => []NumbersApart
<1>1. IInv => NumbersApart
  BY DEF IInv
<1> QED
  BY DerivesKnown, <1>1, PTL

\* derive.go allocator: the loops carry out an allocation of tables, in which a number once
\* given is kept and never given again.
LEMMA TablesAreAssigned == Spec => TableAssignment!Spec
<1>1. Begun => TableAssignment!Init
  BY DEF Begun, TableAssignment!Init, Numbered, Given, Number
<1>2. IInv /\ [Derives]_deriveVars => [TableAssignment!Give]_(Numbered("table"))
  <2> SUFFICES ASSUME IInv, [Derives]_deriveVars PROVE [TableAssignment!Give]_(Numbered("table"))
    OBVIOUS
  <2>1. OneTable
    BY DerivesStep
  <2>2. CASE GivesNobody("table")
    BY <2>2 DEF GivesNobody, Numbered
  <2>3. ASSUME NEW x, NEW n, n \notin tables.taken \cup ReservedTables, Gives("table", x, n)
        PROVE  TableAssignment!Give
    BY <2>3 DEF Gives, Numbered, TableAssignment!Give, IInv, Held
  <2> QED
    BY <2>1, <2>2, <2>3 DEF OneTable
<1>3. IInv /\ [Derives]_deriveVars => IInv'
  BY DerivesStep
<1> QED
  BY BegunIInv, <1>1, <1>2, <1>3, PTL DEF Spec, TableAssignment!Spec

\* derive.go allocator: and one of marks.
LEMMA MarksAreAssigned == Spec => MarkAssignment!Spec
<1>1. Begun => MarkAssignment!Init
  BY DEF Begun, MarkAssignment!Init, Numbered, Given, Number
<1>2. IInv /\ [Derives]_deriveVars => [MarkAssignment!Give]_(Numbered("mark"))
  <2> SUFFICES ASSUME IInv, [Derives]_deriveVars PROVE [MarkAssignment!Give]_(Numbered("mark"))
    OBVIOUS
  <2>1. OneMark
    BY DerivesStep
  <2>2. CASE GivesNobody("mark")
    BY <2>2 DEF GivesNobody, Numbered
  <2>3. ASSUME NEW x, NEW n, n \notin marks.taken \cup {0}, Gives("mark", x, n)
        PROVE  MarkAssignment!Give
    BY <2>3 DEF Gives, Numbered, MarkAssignment!Give, IInv, Held
  <2> QED
    BY <2>1, <2>2, <2>3 DEF OneMark
<1>3. IInv /\ [Derives]_deriveVars => IInv'
  BY DerivesStep
<1> QED
  BY BegunIInv, <1>1, <1>2, <1>3, PTL DEF Spec, MarkAssignment!Spec

\* derive.go allocator: the pins and the loops implement two allocations, of tables and of
\* marks, in which a number once given is kept and never given again.
THEOREM NumbersAreAssigned == Spec => NumbersAssigned
  BY TablesAreAssigned, MarksAreAssigned, PTL DEF NumbersAssigned
-----------------------------------------------------------------------------
(***************************************************************************)
(* The closed form.                                                        *)
(*                                                                         *)
(* The numbers of one kind are a column: what each policy asks for (ask),  *)
(* what policies and uplinks were given (num, ret), and what the allocator *)
(* knows (next, taken).  An allocator hands out every number from first on *)
(* that is neither pinned nor kept by the kernel, in the order of those    *)
(* it is handed to.  So whoever has a number has as many free ones below   *)
(* it as there are others before him.                                      *)
(***************************************************************************)
\* The policies and forwards can be put in order, and no two policies have one name.
Orderly ==
    /\ \A k \in Position : /\ policies[k].family \in DOMAIN FamilyRank /\ policies[k].priority \in Int
                           /\ policies[k].name \in DOMAIN Rank
    /\ \A k, l \in Position : policies[k].name = policies[l].name => k = l
    /\ \A r \in forwards : /\ r.uplink \in DOMAIN Rank /\ r.family \in DOMAIN FamilyRank
                           /\ r = [uplink |-> r.uplink, family |-> r.family]

Earlier(l, k) == Precedes(policies[l], policies[k])

Asking(ask) == {k \in DOMAIN ask : ask[k] = None}
Pins(ask) == {ask[k] : k \in DOMAIN ask} \ {None}
Handed(ask, num, ret) == ({num[k] : k \in Asking(ask)} \ {None}) \cup {ret[r] : r \in DOMAIN ret}

\* Pins are given as they are, and what was handed out is what was free below next.
Filled(ask, num, ret, next, taken, first, kept) ==
    /\ next \in Nat /\ first <= next
    /\ \A k \in DOMAIN ask \ Asking(ask) : num[k] = ask[k]
    /\ Pins(ask) \subseteq taken /\ taken \subseteq Pins(ask) \cup Handed(ask, num, ret)
    /\ Handed(ask, num, ret) \subseteq (first .. next - 1) \ (Pins(ask) \cup kept)
    /\ first .. next - 1 \subseteq Pins(ask) \cup kept \cup Handed(ask, num, ret)

\* It was handed out in order, the uplinks after the policies.
InOrder(pols, fwds, ask, num, ret) ==
    /\ \A k, l \in Asking(ask) : Precedes(pols[l], pols[k]) /\ num[k] # None => num[l] # None /\ num[l] < num[k]
    /\ \A r \in DOMAIN ret : \A k \in Asking(ask) : num[k] # None /\ num[k] < ret[r]
    /\ \A r \in DOMAIN ret : \A s \in fwds : ReturnPrecedes(s, r) => s \in DOMAIN ret /\ ret[s] < ret[r]

\* derive.go, the sort of the policies: of two policies one comes first.
LEMMA OneIsEarlier ==
    ASSUME Orderly, NEW k \in Position, NEW l \in Position
    PROVE  ~(Earlier(k, l) /\ Earlier(l, k)) /\ (k # l => Earlier(k, l) \/ Earlier(l, k))
<1> DEFINE p == policies[k]
           q == policies[l]
<1>1. /\ p.priority \in Int /\ q.priority \in Int /\ PriorityOf(p) = p.priority /\ PriorityOf(q) = q.priority
      /\ p.name \in DOMAIN Rank /\ q.name \in DOMAIN Rank /\ (k # l => p.name # q.name)
      /\ p.family \in {"ipv4", "ipv6"} /\ q.family \in {"ipv4", "ipv6"}
  BY NumberAssumption DEF Orderly, PriorityOf, FamilyRank
<1>2. /\ FamilyRank[p.family] \in Nat /\ FamilyRank[q.family] \in Nat
      /\ FamilyRank[p.family] = FamilyRank[q.family] => p.family = q.family
  BY <1>1 DEF FamilyRank
<1>3. /\ Rank[p.name] \in Nat /\ Rank[q.name] \in Nat
      /\ Rank[p.name] = Rank[q.name] => p.name = q.name
  BY <1>1, RankAssumption
<1> QED
  BY <1>1, <1>2, <1>3 DEF Earlier, Precedes

\* deriveForwardReturns, the sort of the keys: of two uplinks one comes first.
LEMMA OneReturnsEarlier ==
    ASSUME Orderly, NEW r \in forwards, NEW s \in forwards
    PROVE  ~(ReturnPrecedes(r, s) /\ ReturnPrecedes(s, r)) /\ (r # s => ReturnPrecedes(r, s) \/ ReturnPrecedes(s, r))
<1>1. /\ r.uplink \in DOMAIN Rank /\ s.uplink \in DOMAIN Rank
      /\ r.family \in {"ipv4", "ipv6"} /\ s.family \in {"ipv4", "ipv6"}
      /\ r # s => r.uplink # s.uplink \/ r.family # s.family
  BY DEF Orderly, FamilyRank
<1>2. /\ FamilyRank[r.family] \in Nat /\ FamilyRank[s.family] \in Nat
      /\ FamilyRank[r.family] = FamilyRank[s.family] => r.family = s.family
  BY <1>1 DEF FamilyRank
<1>3. /\ Rank[r.uplink] \in Nat /\ Rank[s.uplink] \in Nat
      /\ Rank[r.uplink] = Rank[s.uplink] => r.uplink = s.uplink
  BY <1>1, RankAssumption
<1> QED
  BY <1>1, <1>2, <1>3 DEF ReturnPrecedes

\* allocator.next: what an allocator has handed out and knows of, after one number more.
LEMMA OneMore ==
    ASSUME NEW handed, NEW pins, NEW kept, NEW taken, NEW first \in Nat, NEW next \in Nat, NEW n \in Nat,
           first <= next, pins \subseteq taken, taken \subseteq pins \cup handed,
           handed \subseteq (first .. next - 1) \ (pins \cup kept),
           first .. next - 1 \subseteq pins \cup kept \cup handed,
           n >= next, n \notin taken \cup kept, \A j \in next .. n - 1 : j \in taken \cup kept
    PROVE  /\ n + 1 \in Nat /\ first <= n + 1
           /\ pins \subseteq taken \cup {n} /\ taken \cup {n} \subseteq pins \cup (handed \cup {n})
           /\ handed \cup {n} \subseteq (first .. (n + 1) - 1) \ (pins \cup kept)
           /\ first .. (n + 1) - 1 \subseteq pins \cup kept \cup (handed \cup {n})
           /\ \A h \in handed : h \in Nat /\ h < n
<1>1. \A h \in handed : h \in Nat /\ first <= h /\ h < n
  BY Z3
<1>2. handed \cup {n} \subseteq (first .. (n + 1) - 1) \ (pins \cup kept)
  BY <1>1
<1>3. first .. (n + 1) - 1 \subseteq pins \cup kept \cup (handed \cup {n})
  <2> SUFFICES ASSUME NEW j \in first .. (n + 1) - 1, j \notin pins \cup kept, j # n PROVE j \in handed
    OBVIOUS
  <2>1. CASE j < next
    <3>1. j \in first .. next - 1
      BY <2>1
    <3> QED
      BY <3>1
  <2>2. CASE j >= next
    BY <2>2
  <2> QED
    BY <2>1, <2>2
<1> QED
  BY <1>1, <1>2, <1>3

\* allocator.next: a policy before which none is waiting is handed the next free number.
LEMMA HandPolicy ==
    ASSUME Orderly, NEW ask, DOMAIN ask = Position, NEW num, NEW ret, NEW next, NEW taken, NEW first \in Nat, NEW kept,
           Filled(ask, num, ret, next, taken, first, kept), InOrder(policies, forwards, ask, num, ret), DOMAIN ret = {},
           DOMAIN num = Position,
           NEW k \in Asking(ask), num[k] = None,
           \A l \in Position : Earlier(l, k) => num[l] # None,
           NEW n \in Nat, n >= next, n \notin taken \cup kept, \A j \in next .. n - 1 : j \in taken \cup kept
    PROVE  LET num2 == [num EXCEPT ![k] = n]
           IN Filled(ask, num2, ret, n + 1, taken \cup {n}, first, kept) /\ InOrder(policies, forwards, ask, num2, ret)
<1> DEFINE num2 == [num EXCEPT ![k] = n]
           handed == Handed(ask, num, ret)
           pins == Pins(ask)
<1>1. /\ \A l \in Position : l # k => num2[l] = num[l]
      /\ num2[k] = n /\ n # None /\ k \in Position
  BY NumberAssumption DEF Asking
<1> HIDE DEF num2
<1>2. Handed(ask, num2, ret) = handed \cup {n}
  BY <1>1 DEF Handed, Asking
<1>3. \A l \in Position \ Asking(ask) : num2[l] = ask[l]
  BY <1>1 DEF Filled
<1>4. /\ next \in Nat /\ first <= next /\ handed \subseteq (first .. next - 1) \ (pins \cup kept)
      /\ first .. next - 1 \subseteq pins \cup kept \cup handed
      /\ pins \subseteq taken /\ taken \subseteq pins \cup handed
  BY DEF Filled
<1>5. \A m \in Asking(ask) : num[m] # None => num[m] \in handed
  BY DEF Handed
<1> HIDE DEF handed, pins
<1>6. /\ n + 1 \in Nat /\ first <= n + 1
      /\ pins \subseteq taken \cup {n} /\ taken \cup {n} \subseteq pins \cup (handed \cup {n})
      /\ handed \cup {n} \subseteq (first .. (n + 1) - 1) \ (pins \cup kept)
      /\ first .. (n + 1) - 1 \subseteq pins \cup kept \cup (handed \cup {n})
      /\ \A h \in handed : h \in Nat /\ h < n
  BY <1>4, OneMore
<1>7. Filled(ask, num2, ret, n + 1, taken \cup {n}, first, kept)
  BY <1>2, <1>3, <1>6, Zenon DEF Filled, pins
<1>8. InOrder(policies, forwards, ask, num2, ret)
  <2> SUFFICES ASSUME NEW i \in Asking(ask), NEW l \in Asking(ask), Earlier(l, i), num2[i] # None
               PROVE  num2[l] # None /\ num2[l] < num2[i]
    BY DEF InOrder, Earlier
  <2>1. i \in Position /\ l \in Position /\ i # l
    BY OneIsEarlier DEF Asking
  <2>2. CASE i = k
    BY <1>1, <1>5, <1>6, <2>1, <2>2
  <2>3. CASE i # k
    BY <1>1, <2>1, <2>3 DEF InOrder, Earlier
  <2> QED
    BY <2>2, <2>3
<1> QED
  BY <1>7, <1>8 DEF num2

\* allocator.next: an uplink before which none is waiting is handed the next free number.
LEMMA HandReturn ==
    ASSUME Orderly, NEW ask, DOMAIN ask = Position, NEW num, NEW ret, NEW next, NEW taken, NEW first \in Nat, NEW kept,
           Filled(ask, num, ret, next, taken, first, kept), InOrder(policies, forwards, ask, num, ret),
           \A k \in Position : num[k] # None,
           NEW r \in forwards \ DOMAIN ret, DOMAIN ret \subseteq forwards,
           \A s \in forwards : ReturnPrecedes(s, r) => s \in DOMAIN ret,
           NEW n \in Nat, n >= next, n \notin taken \cup kept, \A j \in next .. n - 1 : j \in taken \cup kept,
           NEW ret2, DOMAIN ret2 = DOMAIN ret \cup {r}, ret2[r] = n, \A s \in DOMAIN ret : ret2[s] = ret[s]
    PROVE  Filled(ask, num, ret2, n + 1, taken \cup {n}, first, kept) /\ InOrder(policies, forwards, ask, num, ret2)
<1> DEFINE handed == Handed(ask, num, ret)
           pins == Pins(ask)
<1>1. /\ DOMAIN ret2 = DOMAIN ret \cup {r} /\ ret2[r] = n
      /\ \A s \in DOMAIN ret : ret2[s] = ret[s]
  OBVIOUS
<1>2. Handed(ask, num, ret2) = handed \cup {n}
  BY <1>1 DEF Handed
<1>3. \A l \in Position \ Asking(ask) : num[l] = ask[l]
  BY DEF Filled
<1>4. /\ next \in Nat /\ first <= next /\ handed \subseteq (first .. next - 1) \ (pins \cup kept)
      /\ first .. next - 1 \subseteq pins \cup kept \cup handed
      /\ pins \subseteq taken /\ taken \subseteq pins \cup handed
  BY DEF Filled
<1>5. /\ \A k \in Asking(ask) : num[k] # None /\ num[k] \in handed
      /\ \A s \in DOMAIN ret : ret[s] \in handed
  BY DEF Handed, Asking
<1> HIDE DEF handed, pins
<1>6. /\ n + 1 \in Nat /\ first <= n + 1
      /\ pins \subseteq taken \cup {n} /\ taken \cup {n} \subseteq pins \cup (handed \cup {n})
      /\ handed \cup {n} \subseteq (first .. (n + 1) - 1) \ (pins \cup kept)
      /\ first .. (n + 1) - 1 \subseteq pins \cup kept \cup (handed \cup {n})
      /\ \A h \in handed : h \in Nat /\ h < n
  BY <1>4, OneMore
<1>7. Filled(ask, num, ret2, n + 1, taken \cup {n}, first, kept)
  BY <1>2, <1>3, <1>6, Zenon DEF Filled, pins
<1>8. InOrder(policies, forwards, ask, num, ret2)
  <2>1. ASSUME NEW i \in DOMAIN ret2, NEW k \in Asking(ask)
        PROVE  num[k] # None /\ num[k] < ret2[i]
    <3>1. CASE i = r
      BY <1>1, <1>5, <1>6, <3>1
    <3>2. CASE i # r
      BY <1>1, <2>1, <3>2 DEF InOrder
    <3> QED
      BY <3>1, <3>2
  <2>2. ASSUME NEW i \in DOMAIN ret2, NEW s \in forwards, ReturnPrecedes(s, i)
        PROVE  s \in DOMAIN ret2 /\ ret2[s] < ret2[i]
    <3>1. CASE i = r
      <4>1. s \in DOMAIN ret /\ ret[s] \in handed /\ s # r
        BY <1>5, <2>2, <3>1
      <4> QED
        BY <1>1, <1>6, <3>1, <4>1
    <3>2. CASE i # r
      <4>1. i \in DOMAIN ret /\ s \in DOMAIN ret /\ ret[s] < ret[i]
        BY <1>1, <2>2, <3>2 DEF InOrder
      <4> QED
        BY <1>1, <4>1
    <3> QED
      BY <3>1, <3>2
  <2> QED
    BY <1>1, <2>1, <2>2 DEF InOrder
<1> QED
  BY <1>7, <1>8
-----------------------------------------------------------------------------
\* The columns of the two kinds.
Ask(field) == [k \in Position |-> policies[k][field]]
Num(field) == [k \in Position |-> routing[k][field]]
Ret(field) == [r \in DOMAIN returns |-> returns[r][field]]

TablesInOrder ==
    /\ Filled(Ask("table"), Num("table"), Ret("table"), tables.next, tables.taken, FirstTable, ReservedTables)
    /\ InOrder(policies, forwards, Ask("table"), Num("table"), Ret("table"))

MarksInOrder ==
    /\ Filled(Ask("mark"), Num("mark"), Ret("mark"), marks.next, marks.taken, FirstMark, {})
    /\ InOrder(policies, forwards, Ask("mark"), Num("mark"), Ret("mark"))

\* The pins of the policies the first loop has been at, when none was refused.
PinsTaken ==
    /\ \A k \in Position : k < pos =>
         /\ routing[k].table = policies[k].table /\ routing[k].mark = policies[k].mark
         /\ policies[k].table # None => policies[k].table \in tables.taken
         /\ policies[k].mark # None => policies[k].mark \in marks.taken
    /\ tables.taken \subseteq Pins(Ask("table")) /\ marks.taken \subseteq Pins(Ask("mark"))

Progress ==
    /\ loop = "pin" => tables.next = FirstTable /\ marks.next = FirstMark /\ (clashes = {} => PinsTaken)
    /\ loop \in {"pin", "allocate"} => DOMAIN returns = {}
    /\ loop \in {"returns", "done"} => Unpinned = {}
    /\ loop \in {"pin", "allocate", "returns", "done"}
    /\ DOMAIN returns \subseteq forwards
    /\ loop = "done" => Pending = {}
    /\ loop # "pin" /\ clashes = {} /\ Orderly => TablesInOrder /\ MarksInOrder

\* deriveRouting begins with nothing reserved.
LEMMA BegunProgress == Begun => Progress
<1> SUFFICES ASSUME Begun PROVE Progress
  OBVIOUS
<1>1. PinsTaken
  <2>1. \A k \in Position : ~(k < pos)
    BY DEF Begun
  <2>2. tables.taken = {} /\ marks.taken = {}
    BY DEF Begun
  <2> QED
    BY <2>1, <2>2 DEF PinsTaken
<1> QED
  BY <1>1 DEF Begun, Progress

\* What is known of the policies and forwards is what is known of the input.
LEMMA InputsKept ==
    ASSUME UNCHANGED inputs
    PROVE  /\ Position' = Position /\ policies' = policies /\ forwards' = forwards /\ (Orderly' <=> Orderly)
           /\ Ask("table")' = Ask("table") /\ Ask("mark")' = Ask("mark")
           /\ Pins(Ask("table"))' = Pins(Ask("table")) /\ Pins(Ask("mark"))' = Pins(Ask("mark"))
BY DEF inputs, Position, Orderly, Ask, Pins

\* The first loop reserves what is pinned and nothing else.
LEMMA PinProgress ==
    ASSUME IInv, Progress, NEW k \in Position, Pin(k)
    PROVE  Progress'
<1> DEFINE t == policies[k].table
           m == policies[k].mark
<1>1. /\ loop = "pin" /\ loop' = "pin" /\ k >= pos /\ (\A j \in Position : j >= pos => k <= j) /\ pos' = k + 1
      /\ UNCHANGED inputs /\ returns' = returns /\ Position \subseteq Nat /\ pos \in Nat
  BY DEF Pin, ToPin, IInv, Shape
<1>2. tables'.next = tables.next /\ marks'.next = marks.next
  BY DEF Pin, Reserve, IInv, Shape
<1>3. ASSUME clashes' = {} PROVE PinsTaken'
  <2>1. /\ clashes = {} /\ (t = None \/ Pinnable(t)) /\ (m = None \/ PinnableMark(m))
    BY <1>3 DEF Pin
  <2>2. PinsTaken
    BY <1>1, <2>1 DEF Progress
  <2>3. routing' = [routing EXCEPT ![k] = Number(t, m)]
    BY <2>1 DEF Pin, Pinnable, PinnableMark
  <2>4. /\ \A j \in Position : routing'[j] = IF j = k THEN Number(t, m) ELSE routing[j]
        /\ Number(t, m).table = t /\ Number(t, m).mark = m
    BY <2>3 DEF IInv, Shape, Number
  <2>5. /\ t # None => tables'.taken = tables.taken \cup {t}
        /\ t = None => tables' = tables
    BY <2>1 DEF Pin, Pinnable, Reserve, IInv, Shape
  <2>6. /\ m # None => marks'.taken = marks.taken \cup {m}
        /\ m = None => marks' = marks
    BY <2>1 DEF Pin, PinnableMark, Reserve, IInv, Shape
  <2>7. tables.taken \subseteq tables'.taken /\ marks.taken \subseteq marks'.taken
    BY <2>5, <2>6
  <2>8. ASSUME NEW j \in Position, j < pos'
        PROVE  /\ routing'[j].table = policies[j].table /\ routing'[j].mark = policies[j].mark
               /\ policies[j].table # None => policies[j].table \in tables'.taken
               /\ policies[j].mark # None => policies[j].mark \in marks'.taken
    <3>1. CASE j = k
      BY <2>4, <2>5, <2>6, <3>1
    <3>2. CASE j # k
      <4>1. j < pos
        BY <1>1, <2>8, <3>2
      <4> QED
        BY <2>2, <2>4, <2>7, <3>2, <4>1 DEF PinsTaken
    <3> QED
      BY <3>1, <3>2
  <2>9. /\ t # None => t \in Pins(Ask("table"))
        /\ m # None => m \in Pins(Ask("mark"))
    BY DEF Pins, Ask
  <2>10. tables'.taken \subseteq Pins(Ask("table")) /\ marks'.taken \subseteq Pins(Ask("mark"))
    BY <2>2, <2>5, <2>6, <2>9 DEF PinsTaken
  <2> QED
    BY <1>1, <2>8, <2>10, InputsKept DEF PinsTaken
<1>4. tables.next = FirstTable /\ marks.next = FirstMark /\ DOMAIN returns = {}
  BY <1>1 DEF Progress
<1> QED
  BY <1>1, <1>2, <1>3, <1>4 DEF Progress

\* The second loop begins with the pins in place.
LEMMA PinnedProgress ==
    ASSUME IInv, Progress, Pinned
    PROVE  Progress'
<1>1. /\ loop = "pin" /\ loop' = "allocate" /\ UNCHANGED <<inputs, pos, tables, marks, routing, returns, clashes>>
      /\ \A k \in Position : k < pos
  BY DEF Pinned, ToPin, IInv, Shape
<1>2. DOMAIN returns = {} /\ tables.next = FirstTable /\ marks.next = FirstMark
  BY <1>1 DEF Progress
<1>3. ASSUME clashes = {} PROVE TablesInOrder /\ MarksInOrder
  <2>1. PinsTaken
    BY <1>1, <1>3 DEF Progress
  <2>2. Num("table") = Ask("table") /\ Num("mark") = Ask("mark") /\ DOMAIN Ret("table") = {} /\ DOMAIN Ret("mark") = {}
    BY <1>1, <1>2, <2>1 DEF PinsTaken, Num, Ask, Ret
  <2>3. /\ Pins(Ask("table")) = tables.taken /\ Pins(Ask("mark")) = marks.taken
    BY <1>1, <2>1 DEF PinsTaken, Pins, Ask
  <2>4. /\ Handed(Ask("table"), Num("table"), Ret("table")) = {}
        /\ Handed(Ask("mark"), Num("mark"), Ret("mark")) = {}
    BY <2>2 DEF Handed, Asking
  <2>5. FirstTable .. tables.next - 1 = {} /\ FirstMark .. marks.next - 1 = {}
    BY <1>2 DEF FirstTable, FirstMark
  <2>6. TablesInOrder
    BY <1>2, <2>2, <2>3, <2>4, <2>5 DEF TablesInOrder, Filled, InOrder, Asking, FirstTable
  <2>7. MarksInOrder
    BY <1>2, <2>2, <2>3, <2>4, <2>5 DEF MarksInOrder, Filled, InOrder, Asking, FirstMark
  <2> QED
    BY <2>6, <2>7
<1>4. (TablesInOrder' <=> TablesInOrder) /\ (MarksInOrder' <=> MarksInOrder)
  BY <1>1 DEF inputs, TablesInOrder, MarksInOrder, Ask, Num, Ret, Position
<1> QED
  BY <1>1, <1>2, <1>3, <1>4 DEF Progress, inputs

\* The second loop hands the first policy that waits what it misses.
LEMMA AllocateProgress ==
    ASSUME IInv, Progress, NEW k \in Position, Allocate(k)
    PROVE  Progress'
<1> PICK t \in NextFree(tables, ReservedTables), m \in NextFree(marks, {}) : Allocate(k)!(t, m)
  BY DEF Allocate
<1>1. /\ loop = "allocate" /\ loop' = "allocate" /\ UNCHANGED <<inputs, returns, clashes>> /\ DOMAIN returns = {}
      /\ FirstUnpinned(k)
  BY DEF Progress
<1>2. /\ t \in Nat /\ t >= tables.next /\ t \notin tables.taken \cup ReservedTables
      /\ \A j \in tables.next .. t - 1 : j \in tables.taken \cup ReservedTables
      /\ m \in Nat /\ m >= marks.next /\ m \notin marks.taken \cup {}
      /\ \A j \in marks.next .. m - 1 : j \in marks.taken \cup {}
  BY NextFreeIsFree DEF NextFree, IInv, Shape
<1>3. /\ Ask("table")' = Ask("table") /\ Ask("mark")' = Ask("mark") /\ Position' = Position
      /\ Ret("table")' = Ret("table") /\ Ret("mark")' = Ret("mark")
      /\ DOMAIN Ret("table") = {} /\ DOMAIN Ret("mark") = {}
  BY <1>1, InputsKept DEF Ret
<1> DEFINE T == IF routing[k].table = None THEN t ELSE routing[k].table
           M == IF routing[k].mark = None THEN m ELSE routing[k].mark
<1>4. /\ \A j \in Position : routing'[j] = IF j = k THEN Number(T, M) ELSE routing[j]
      /\ Number(T, M).table = T /\ Number(T, M).mark = M
  BY DEF IInv, Shape, Number
<1>5. Num("table")' = [Num("table") EXCEPT ![k] = T] /\ Num("mark")' = [Num("mark") EXCEPT ![k] = M]
  <2> HIDE DEF T, M
  <2>1. /\ \A j \in Position : routing'[j].table = IF j = k THEN T ELSE routing[j].table
        /\ \A j \in Position : routing'[j].mark = IF j = k THEN M ELSE routing[j].mark
    BY <1>4
  <2> QED
    BY <1>3, <2>1 DEF Num
<1>6. Num("table")[k] = routing[k].table /\ Num("mark")[k] = routing[k].mark
      /\ DOMAIN Num("table") = Position /\ DOMAIN Num("mark") = Position
      /\ DOMAIN Ask("table") = Position /\ DOMAIN Ask("mark") = Position
  BY DEF Num, Ask
<1>7. ASSUME clashes = {}, Orderly PROVE TablesInOrder' /\ MarksInOrder'
  <2>1. TablesInOrder /\ MarksInOrder
    BY <1>1, <1>7 DEF Progress
  <2>2. \A l \in Position : Earlier(l, k) => Num("table")[l] # None /\ Num("mark")[l] # None
    <3> SUFFICES ASSUME NEW l \in Position, Earlier(l, k), l \in Unpinned PROVE FALSE
      BY DEF Unpinned, Num
    <3>1. ~Earlier(k, l) /\ l # k
      BY <1>7, OneIsEarlier
    <3>2. Before(k, l)
      BY <1>1, <3>1 DEF FirstUnpinned
    <3> QED
      BY <3>1, <3>2 DEF Before, Earlier
  <2>3. TablesInOrder'
    <3>1. CASE routing[k].table = None
      <4>1. k \in Asking(Ask("table"))
        <5>1. k \notin Asking(Ask("table")) => Num("table")[k] = Ask("table")[k]
          BY <1>6, <2>1 DEF TablesInOrder, Filled
        <5> QED
          BY <1>6, <3>1, <5>1 DEF Asking
      <4>2. tables'.next = t + 1 /\ tables'.taken = tables.taken \cup {t} /\ T = t
        BY <3>1 DEF Hand
      <4>3. LET num2 == [Num("table") EXCEPT ![k] = t]
            IN /\ Filled(Ask("table"), num2, Ret("table"), t + 1, tables.taken \cup {t}, FirstTable, ReservedTables)
               /\ InOrder(policies, forwards, Ask("table"), num2, Ret("table"))
        <5>1. FirstTable \in Nat
          BY DEF FirstTable
        <5> QED
          BY <1>2, <1>3, <1>6, <1>7, <2>1, <2>2, <3>1, <4>1, <5>1, HandPolicy DEF TablesInOrder
      <4> QED
        BY <1>1, <1>3, <1>5, <4>2, <4>3, Zenon DEF TablesInOrder, inputs
    <3>2. CASE routing[k].table # None
      <4>1. tables' = tables /\ Num("table")' = Num("table")
        BY <1>5, <1>6, <3>2 DEF Num
      <4> QED
        BY <1>1, <1>3, <2>1, <4>1, Zenon DEF TablesInOrder, inputs
    <3> QED
      BY <3>1, <3>2
  <2>4. MarksInOrder'
    <3>1. CASE routing[k].mark = None
      <4>1. k \in Asking(Ask("mark"))
        <5>1. k \notin Asking(Ask("mark")) => Num("mark")[k] = Ask("mark")[k]
          BY <1>6, <2>1 DEF MarksInOrder, Filled
        <5> QED
          BY <1>6, <3>1, <5>1 DEF Asking
      <4>2. marks'.next = m + 1 /\ marks'.taken = marks.taken \cup {m} /\ M = m
        BY <3>1 DEF Hand
      <4>3. LET num2 == [Num("mark") EXCEPT ![k] = m]
            IN /\ Filled(Ask("mark"), num2, Ret("mark"), m + 1, marks.taken \cup {m}, FirstMark, {})
               /\ InOrder(policies, forwards, Ask("mark"), num2, Ret("mark"))
        <5>1. FirstMark \in Nat
          BY DEF FirstMark
        <5> QED
          BY <1>2, <1>3, <1>6, <1>7, <2>1, <2>2, <3>1, <4>1, <5>1, HandPolicy DEF MarksInOrder
      <4> QED
        BY <1>1, <1>3, <1>5, <4>2, <4>3, Zenon DEF MarksInOrder, inputs
    <3>2. CASE routing[k].mark # None
      <4>1. marks' = marks /\ Num("mark")' = Num("mark")
        BY <1>5, <1>6, <3>2 DEF Num
      <4> QED
        BY <1>1, <1>3, <2>1, <4>1, Zenon DEF MarksInOrder, inputs
    <3> QED
      BY <3>1, <3>2
  <2> QED
    BY <2>3, <2>4
<1>8. forwards' = forwards /\ (Orderly' <=> Orderly)
  BY <1>1, InputsKept
<1> QED
  BY <1>1, <1>7, <1>8 DEF Progress

\* deriveForwardReturns hands the first uplink that waits a table and a mark.
LEMMA ReturnProgress ==
    ASSUME IInv, Progress, NEW r \in Pending, Return(r)
    PROVE  Progress'
<1>0. PICK t \in NextFree(tables, ReservedTables), m \in NextFree(marks, {}) : Return(r)!(t, m)
  BY DEF Return
<1>1. /\ loop = "returns" /\ loop' = "returns" /\ UNCHANGED <<inputs, routing, clashes>>
      /\ r \in forwards \ DOMAIN returns /\ Unpinned = {} /\ DOMAIN returns \subseteq forwards
      /\ \A s \in Pending \ {r} : ReturnPrecedes(r, s)
      /\ returns' = [s \in DOMAIN returns \cup {r} |-> IF s = r THEN Number(t, m) ELSE returns[s]]
      /\ tables' = Hand(tables, t) /\ marks' = Hand(marks, m)
  BY <1>0 DEF Progress, Pending
<1>2. /\ t \in Nat /\ t >= tables.next /\ t \notin tables.taken \cup ReservedTables
      /\ \A j \in tables.next .. t - 1 : j \in tables.taken \cup ReservedTables
      /\ m \in Nat /\ m >= marks.next /\ m \notin marks.taken \cup {}
      /\ \A j \in marks.next .. m - 1 : j \in marks.taken \cup {}
  BY <1>0, NextFreeIsFree DEF NextFree, IInv, Shape
<1>3. /\ Ask("table")' = Ask("table") /\ Ask("mark")' = Ask("mark") /\ Position' = Position
      /\ Num("table")' = Num("table") /\ Num("mark")' = Num("mark")
      /\ DOMAIN Ask("table") = Position /\ DOMAIN Ask("mark") = Position
      /\ DOMAIN Ret("table") = DOMAIN returns /\ DOMAIN Ret("mark") = DOMAIN returns
  BY <1>1, InputsKept DEF Num, Ask, Ret
<1>4. /\ DOMAIN Ret("table")' = DOMAIN Ret("table") \cup {r} /\ Ret("table")'[r] = t
      /\ \A s \in DOMAIN Ret("table") : Ret("table")'[s] = Ret("table")[s]
      /\ DOMAIN Ret("mark")' = DOMAIN Ret("mark") \cup {r} /\ Ret("mark")'[r] = m
      /\ \A s \in DOMAIN Ret("mark") : Ret("mark")'[s] = Ret("mark")[s]
  BY <1>1, <1>3 DEF Ret, Number
<1>5. /\ \A k \in Position : Num("table")[k] # None /\ Num("mark")[k] # None
  BY <1>1 DEF Num, Unpinned
<1>6. /\ tables'.next = t + 1 /\ tables'.taken = tables.taken \cup {t}
      /\ marks'.next = m + 1 /\ marks'.taken = marks.taken \cup {m}
  BY <1>1 DEF Hand
<1>7. ASSUME clashes = {}, Orderly PROVE TablesInOrder' /\ MarksInOrder'
  <2>1. TablesInOrder /\ MarksInOrder
    BY <1>1, <1>7 DEF Progress
  <2>2. \A s \in forwards : ReturnPrecedes(s, r) => s \in DOMAIN returns
    BY <1>1, <1>7, OneReturnsEarlier DEF Pending
  <2>3. FirstTable \in Nat /\ FirstMark \in Nat
    BY DEF FirstTable, FirstMark
  <2>4. /\ Filled(Ask("table"), Num("table"), Ret("table")', t + 1, tables.taken \cup {t}, FirstTable, ReservedTables)
        /\ InOrder(policies, forwards, Ask("table"), Num("table"), Ret("table")')
    <3> DEFINE ask == Ask("table")
               num == Num("table")
               ret == Ret("table")
               next == tables.next
               taken == tables.taken
               ret2 == Ret("table")'
    <3>1. /\ Filled(ask, num, ret, next, taken, FirstTable, ReservedTables)
          /\ InOrder(policies, forwards, ask, num, ret)
      BY <2>1 DEF TablesInOrder
    <3>2. /\ r \in forwards \ DOMAIN ret /\ DOMAIN ret \subseteq forwards /\ DOMAIN ask = Position
          /\ \A s \in forwards : ReturnPrecedes(s, r) => s \in DOMAIN ret
          /\ \A k \in Position : num[k] # None
      BY <1>1, <1>3, <1>5, <2>2
    <3>3. /\ t \in Nat /\ t >= next /\ t \notin taken \cup ReservedTables
          /\ \A j \in next .. t - 1 : j \in taken \cup ReservedTables
      BY <1>2
    <3>4. DOMAIN ret2 = DOMAIN ret \cup {r} /\ ret2[r] = t /\ \A s \in DOMAIN ret : ret2[s] = ret[s]
      BY <1>4
    <3> HIDE DEF ask, num, ret, next, taken, ret2
    <3>5. Filled(ask, num, ret2, t + 1, taken \cup {t}, FirstTable, ReservedTables) /\ InOrder(policies, forwards, ask, num, ret2)
      BY <1>7, <2>3, <3>1, <3>2, <3>3, <3>4, HandReturn
    <3> QED
      BY <3>5 DEF ask, num, ret, next, taken, ret2
  <2>5. /\ Filled(Ask("mark"), Num("mark"), Ret("mark")', m + 1, marks.taken \cup {m}, FirstMark, {})
        /\ InOrder(policies, forwards, Ask("mark"), Num("mark"), Ret("mark")')
    <3> DEFINE ask == Ask("mark")
               num == Num("mark")
               ret == Ret("mark")
               next == marks.next
               taken == marks.taken
               ret2 == Ret("mark")'
    <3>1. /\ Filled(ask, num, ret, next, taken, FirstMark, {})
          /\ InOrder(policies, forwards, ask, num, ret)
      BY <2>1 DEF MarksInOrder
    <3>2. /\ r \in forwards \ DOMAIN ret /\ DOMAIN ret \subseteq forwards /\ DOMAIN ask = Position
          /\ \A s \in forwards : ReturnPrecedes(s, r) => s \in DOMAIN ret
          /\ \A k \in Position : num[k] # None
      BY <1>1, <1>3, <1>5, <2>2
    <3>3. /\ m \in Nat /\ m >= next /\ m \notin taken \cup {}
          /\ \A j \in next .. m - 1 : j \in taken \cup {}
      BY <1>2
    <3>4. DOMAIN ret2 = DOMAIN ret \cup {r} /\ ret2[r] = m /\ \A s \in DOMAIN ret : ret2[s] = ret[s]
      BY <1>4
    <3> HIDE DEF ask, num, ret, next, taken, ret2
    <3>5. Filled(ask, num, ret2, m + 1, taken \cup {m}, FirstMark, {}) /\ InOrder(policies, forwards, ask, num, ret2)
      BY <1>7, <2>3, <3>1, <3>2, <3>3, <3>4, HandReturn
    <3> QED
      BY <3>5 DEF ask, num, ret, next, taken, ret2
  <2>6. TablesInOrder'
    BY <1>1, <1>3, <1>4, <1>6, <2>4, Zenon DEF TablesInOrder, inputs
  <2>7. MarksInOrder'
    BY <1>1, <1>3, <1>4, <1>6, <2>5, Zenon DEF MarksInOrder, inputs
  <2> QED
    BY <2>6, <2>7
<1>8. forwards' = forwards /\ (Orderly' <=> Orderly) /\ Unpinned' = Unpinned /\ DOMAIN returns' \subseteq forwards
  BY <1>1, InputsKept DEF Unpinned
<1> QED
  BY <1>1, <1>7, <1>8 DEF Progress

\* deriveRouting: every step of the loops keeps to the order.
LEMMA ProgressStep ==
    ASSUME IInv, Progress, [Derives]_deriveVars
    PROVE  Progress'
<1>1. ASSUME UNCHANGED <<inputs, pos, tables, marks, routing, returns, clashes>>
      PROVE  /\ UNCHANGED <<pos, tables, marks, routing, returns, clashes, forwards>>
             /\ (Orderly' <=> Orderly) /\ (TablesInOrder' <=> TablesInOrder) /\ (MarksInOrder' <=> MarksInOrder)
             /\ (PinsTaken' <=> PinsTaken) /\ Unpinned' = Unpinned /\ Pending' = Pending
  <2>1. UNCHANGED <<pos, tables, marks, routing, returns, clashes, forwards, policies>>
    BY <1>1 DEF inputs
  <2>2. (Orderly' <=> Orderly) /\ Unpinned' = Unpinned /\ Pending' = Pending /\ (PinsTaken' <=> PinsTaken)
    BY <2>1 DEF Orderly, Unpinned, Pending, PinsTaken, Pins, Ask, Position
  <2>3. (TablesInOrder' <=> TablesInOrder) /\ (MarksInOrder' <=> MarksInOrder)
    BY <2>1 DEF TablesInOrder, MarksInOrder, Ask, Num, Ret, Position
  <2> QED
    BY <2>1, <2>2, <2>3
<1>2. CASE \E k \in Position : Pin(k)
  BY <1>2, PinProgress
<1>3. CASE Pinned
  BY <1>3, PinnedProgress
<1>4. CASE \E k \in Position : Allocate(k)
  BY <1>4, AllocateProgress
<1>5. CASE \E r \in Pending : Return(r)
  BY <1>5, ReturnProgress
<1>6. CASE Allocated
  BY <1>1, <1>6 DEF Allocated, Progress
<1>7. CASE Returned
  BY <1>1, <1>7 DEF Returned, Progress
<1>8. CASE UNCHANGED deriveVars
  BY <1>1, <1>8 DEF deriveVars, inputs, Progress
<1> QED
  BY <1>2, <1>3, <1>4, <1>5, <1>6, <1>7, <1>8 DEF Derives

\* deriveRouting: the loops keep to the order throughout.
LEMMA ProgressKnown == Spec => [](IInv /\ Progress)
<1>1. IInv /\ [Derives]_deriveVars => IInv'
  BY DerivesStep
<1>2. IInv /\ Progress /\ [Derives]_deriveVars => Progress'
  BY ProgressStep
<1> QED
  BY BegunIInv, BegunProgress, <1>1, <1>2, PTL DEF Spec
-----------------------------------------------------------------------------
\* Counting: a number with k - 1 free ones below it is the k-th free one.
LEMMA NthFreeIs ==
    ASSUME NEW S, IsFiniteSet(S), NEW first \in Nat, NEW n \in Nat, n >= first, n \notin S
    PROVE  NthFree(S, first, 1 + Cardinality({m \in first .. n - 1 : m \notin S})) = n
<1> DEFINE B == {m \in first .. n - 1 : m \notin S}
           k == 1 + Cardinality(B)
           free == (first .. first + Cardinality(S) + k) \ S
           Below(x) == {m \in free : m < x}
<1>1. /\ IsFiniteSet(first .. n - 1) /\ Cardinality(first .. n - 1) = n - first
  <2>1. n - 1 \in Int /\ first \in Int
    OBVIOUS
  <2>2. IsFiniteSet(first .. n - 1) /\ Cardinality(first .. n - 1) = IF first > n - 1 THEN 0 ELSE (n - 1) - first + 1
    BY <2>1, FS_Interval
  <2> QED
    BY <2>2
<1>2. /\ IsFiniteSet(B) /\ Cardinality(B) \in Nat /\ Cardinality(S) \in Nat
  BY <1>1, FS_Subset, FS_CardinalityType
<1>3. n <= first + Cardinality(S) + k
  <2> DEFINE C == S \cap (first .. n - 1)
  <2>1. IsFiniteSet(C) /\ Cardinality(C) \in Nat /\ Cardinality(C) <= Cardinality(S)
    BY FS_Intersection, FS_CardinalityType
  <2>2. B \cup C = first .. n - 1 /\ B \cap C = {}
    OBVIOUS
  <2>3. Cardinality(B \cup C) = Cardinality(B) + Cardinality(C) - Cardinality(B \cap C)
    BY <1>2, <2>1, FS_Union
  <2>4. Cardinality(B \cap C) = 0
    BY <2>2, FS_EmptySet
  <2> HIDE DEF B, C
  <2>5. n - first = Cardinality(B) + Cardinality(C)
    <3>1. n - first = Cardinality(B) + Cardinality(C) - 0
      BY <1>1, <2>2, <2>3, <2>4, Zenon
    <3> QED
      BY <1>2, <2>1, <3>1
  <2> QED
    BY <1>2, <2>1, <2>5
<1>4. n \in free /\ Below(n) = B
  <2>1. k \in Nat
    BY <1>2
  <2> HIDE DEF k
  <2> QED
    BY <1>2, <1>3, <2>1
<1>5. ASSUME NEW x \in free, NEW y \in free, x < y
      PROVE  Cardinality(Below(x)) # Cardinality(Below(y))
  <2>1. IsFiniteSet(free)
    <3>1. IsFiniteSet(first .. first + Cardinality(S) + k)
      BY <1>2, FS_Interval
    <3> QED
      BY <3>1, FS_Subset
  <2>2. Below(x) \subseteq Below(y) /\ x \in Below(y) /\ x \notin Below(x)
    <3>1. free \subseteq Int
      OBVIOUS
    <3>2. x \in Int /\ y \in Int
      BY <3>1
    <3> HIDE DEF free
    <3>3. \A m \in free : m < x => m < y
      BY <1>5, <3>1, <3>2
    <3>4. Below(x) \subseteq Below(y)
      BY <3>3, Zenon
    <3>5. ~(x < x)
      BY <3>2
    <3> QED
      BY <1>5, <3>4, <3>5, Zenon
  <2>3. IsFiniteSet(Below(y))
    BY <2>1, FS_Subset
  <2> HIDE DEF Below
  <2> QED
    BY <2>2, <2>3, FS_Subset
<1>6. \A x \in free : Cardinality(Below(x)) = k - 1 => x = n
  <2>1. Cardinality(Below(n)) = k - 1
    BY <1>2, <1>4
  <2>2. \A x \in free : x \in Int
    OBVIOUS
  <2> SUFFICES ASSUME NEW x \in free, Cardinality(Below(x)) = k - 1, x # n PROVE FALSE
    OBVIOUS
  <2>3. x < n \/ n < x
    <3>1. x \in Int
      BY <2>2
    <3> QED
      BY <3>1
  <2> HIDE DEF Below, k, free
  <2> QED
    BY <1>4, <1>5, <2>1, <2>3
<1>7. Cardinality(Below(n)) = k - 1
  BY <1>2, <1>4
<1>8. NthFree(S, first, k) = CHOOSE x \in free : Cardinality(Below(x)) = k - 1
  BY DEF NthFree
<1> HIDE DEF Below, k, free
<1>9. NthFree(S, first, k) = n
  BY <1>4, <1>6, <1>7, <1>8
<1> QED
  BY <1>9 DEF k

\* Counting: a list of finitely many has as many entries as it has places, if no two are equal.
LEMMA Counted ==
    ASSUME NEW X, IsFiniteSet(X), NEW f
    PROVE  /\ IsFiniteSet({f[x] : x \in X})
           /\ (\A x, y \in X : f[x] = f[y] => x = y) => Cardinality({f[x] : x \in X}) = Cardinality(X)
<1> DEFINE T == {f[x] : x \in X}
           g == [x \in X |-> f[x]]
<1>1. g \in Surjection(X, T)
  BY DEF Surjection
<1>2. (\A x, y \in X : f[x] = f[y] => x = y) => g \in Injection(X, T)
  BY DEF Injection, IsInjective
<1> HIDE DEF g, T
<1>3. IsFiniteSet(T) /\ (g \in Injection(X, T) => Cardinality(T) = Cardinality(X))
  BY <1>1, FS_Surjection
<1> QED
  BY <1>2, <1>3 DEF T

\* derive.go: the k-th policy that was not pinned has the k-th number nobody pinned.
LEMMA PolicyInPlace ==
    ASSUME Orderly, IsFiniteSet(Position), NEW ask, DOMAIN ask = Position, NEW num, NEW ret, NEW next, NEW taken,
           NEW first \in Nat, NEW kept, IsFiniteSet(kept),
           Filled(ask, num, ret, next, taken, first, kept), InOrder(policies, forwards, ask, num, ret),
           \A j \in Position : num[j] # None,
           NEW k \in Asking(ask)
    PROVE  NthFree(Pins(ask) \cup kept, first,
                   1 + Cardinality({policies[j] : j \in {l \in Asking(ask) : Earlier(l, k)}})) = num[k]
<1> DEFINE n == num[k]
           S == Pins(ask) \cup kept
           J == {j \in Asking(ask) : Earlier(j, k)}
           B == {m \in first .. n - 1 : m \notin S}
<1>1. /\ next \in Nat /\ Handed(ask, num, ret) \subseteq (first .. next - 1) \ S
      /\ first .. next - 1 \subseteq S \cup Handed(ask, num, ret)
  BY DEF Filled
<1>2. \A j \in Asking(ask) : /\ j \in Position /\ num[j] \in Handed(ask, num, ret)
                              /\ num[j] \in Nat /\ first <= num[j] /\ num[j] < next /\ num[j] \notin S
  <2>1. \A j \in Asking(ask) : j \in Position /\ num[j] \in Handed(ask, num, ret)
    BY DEF Handed, Asking
  <2> HIDE DEF S
  <2> QED
    BY <1>1, <2>1
<1>3. IsFiniteSet(S) /\ IsFiniteSet(J)
  <2>1. IsFiniteSet({ask[j] : j \in Position})
    BY Counted
  <2>2. IsFiniteSet(Pins(ask))
    BY <2>1, FS_Subset DEF Pins
  <2>3. J \in SUBSET Position
    BY DEF Asking
  <2> QED
    BY <2>2, <2>3, FS_Subset, FS_Union
<1>4. ASSUME NEW i \in Asking(ask), NEW j \in Asking(ask), Earlier(i, j) PROVE num[i] < num[j]
  BY <1>2, <1>4 DEF InOrder, Earlier
<1>5. B = {num[j] : j \in J}
  <2>1. ASSUME NEW j \in J PROVE num[j] \in B
    BY <1>2, <1>4
  <2>2. ASSUME NEW m \in B PROVE \E j \in J : num[j] = m
    <3>1. m \in Int /\ first <= m /\ m < n /\ m \notin S /\ n < next
      BY <1>2
    <3>2. m \in Handed(ask, num, ret)
      BY <1>1, <1>2, <3>1
    <3>3. ASSUME NEW r \in DOMAIN ret PROVE n < ret[r] /\ ret[r] \in Int
      <4>1. ret[r] \in Handed(ask, num, ret)
        BY DEF Handed
      <4> QED
        BY <1>1, <4>1 DEF InOrder
    <3>4. PICK j \in Asking(ask) : num[j] = m
      BY <1>2, <3>1, <3>2, <3>3 DEF Handed
    <3>5. j # k /\ ~Earlier(k, j)
      BY <1>2, <1>4, <3>1, <3>4
    <3> QED
      BY <1>2, <3>4, <3>5, OneIsEarlier
  <2> HIDE DEF B, J
  <2> QED
    BY <2>1, <2>2
<1>6. \A i, j \in J : num[i] = num[j] => i = j
  <2> SUFFICES ASSUME NEW i \in J, NEW j \in J, num[i] = num[j], i # j PROVE FALSE
    OBVIOUS
  <2>1. Earlier(i, j) \/ Earlier(j, i)
    BY <1>2, OneIsEarlier
  <2> QED
    BY <1>2, <1>4, <2>1
<1>7. \A i, j \in J : policies[i] = policies[j] => i = j
  BY <1>2 DEF Orderly
<1> HIDE DEF J
<1>8. Cardinality({policies[j] : j \in J}) = Cardinality(J)
  BY <1>3, <1>7, Counted
<1>9. Cardinality({num[j] : j \in J}) = Cardinality(J)
  BY <1>3, <1>6, Counted
<1>10. NthFree(S, first, 1 + Cardinality(B)) = n
  <2>1. n \in Nat /\ n >= first /\ n \notin S
    BY <1>2
  <2> HIDE DEF S, n
  <2> QED
    BY <1>3, <2>1, NthFreeIs
<1>11. Cardinality(B) = Cardinality({policies[j] : j \in J})
  BY <1>5, <1>8, <1>9
<1> QED
  BY <1>10, <1>11 DEF J

\* derive.go: and the uplinks have the free numbers after those.
LEMMA ReturnInPlace ==
    ASSUME Orderly, IsFiniteSet(Position), IsFiniteSet(forwards), NEW ask, DOMAIN ask = Position,
           NEW num, NEW ret, DOMAIN ret = forwards, NEW next, NEW taken,
           NEW first \in Nat, NEW kept, IsFiniteSet(kept),
           Filled(ask, num, ret, next, taken, first, kept), InOrder(policies, forwards, ask, num, ret),
           \A j \in Position : num[j] # None,
           NEW r \in forwards
    PROVE  NthFree(Pins(ask) \cup kept, first,
                   Cardinality({policies[j] : j \in Asking(ask)})
                   + 1 + Cardinality({s \in forwards : ReturnPrecedes(s, r)})) = ret[r]
<1> DEFINE n == ret[r]
           S == Pins(ask) \cup kept
           J == Asking(ask)
           R == {s \in forwards : ReturnPrecedes(s, r)}
           B == {m \in first .. n - 1 : m \notin S}
           BJ == {num[j] : j \in J}
           BR == {ret[s] : s \in R}
<1>1. /\ next \in Nat /\ Handed(ask, num, ret) \subseteq (first .. next - 1) \ S
      /\ first .. next - 1 \subseteq S \cup Handed(ask, num, ret)
  BY DEF Filled
<1>2. \A j \in J : /\ j \in Position /\ num[j] \in Nat /\ first <= num[j] /\ num[j] \notin S
  <2>1. \A j \in Asking(ask) : j \in Position /\ num[j] \in Handed(ask, num, ret)
    BY DEF Handed, Asking
  <2> HIDE DEF S
  <2> QED
    BY <1>1, <2>1
<1>3. \A s \in forwards : ret[s] \in Nat /\ first <= ret[s] /\ ret[s] < next /\ ret[s] \notin S
  <2>1. \A s \in forwards : ret[s] \in Handed(ask, num, ret)
    BY DEF Handed
  <2> HIDE DEF S
  <2> QED
    BY <1>1, <2>1
<1>4. IsFiniteSet(S) /\ IsFiniteSet(J) /\ IsFiniteSet(R)
  <2>1. IsFiniteSet({ask[j] : j \in Position})
    BY Counted
  <2>2. IsFiniteSet(Pins(ask))
    BY <2>1, FS_Subset DEF Pins
  <2>3. J \in SUBSET Position /\ R \in SUBSET forwards
    BY DEF Asking
  <2> QED
    BY <2>2, <2>3, FS_Subset, FS_Union
<1>5. ASSUME NEW i \in J, NEW j \in J, Earlier(i, j) PROVE num[i] < num[j]
  BY <1>5 DEF InOrder, Earlier
<1>6. ASSUME NEW s \in forwards, NEW q \in forwards, ReturnPrecedes(s, q) PROVE ret[s] < ret[q]
  BY <1>6 DEF InOrder
<1>7. ASSUME NEW j \in J, NEW s \in forwards PROVE num[j] < ret[s]
  BY DEF InOrder
<1>8. B = BJ \cup BR
  <2>1. ASSUME NEW j \in J PROVE num[j] \in B
    BY <1>2, <1>3, <1>7
  <2>2. ASSUME NEW s \in R PROVE ret[s] \in B
    BY <1>3, <1>6
  <2>3. ASSUME NEW m \in B PROVE (\E j \in J : num[j] = m) \/ \E s \in R : ret[s] = m
    <3>1. m \in Int /\ first <= m /\ m < n /\ m \notin S /\ n < next
      BY <1>3
    <3>2. m \in Handed(ask, num, ret)
      BY <1>1, <1>3, <3>1
    <3>3. (\E j \in J : num[j] = m) \/ \E s \in forwards : ret[s] = m
      BY <3>2 DEF Handed
    <3>4. ASSUME NEW s \in forwards, ret[s] = m PROVE s \in R
      <4>1. s # r /\ ~ReturnPrecedes(r, s)
        BY <1>3, <1>6, <3>1, <3>4
      <4> QED
        BY <4>1, OneReturnsEarlier
    <3> QED
      BY <3>3, <3>4
  <2> HIDE DEF B, J, R
  <2> QED
    BY <2>1, <2>2, <2>3
<1>9. BJ \cap BR = {}
  <2> SUFFICES ASSUME NEW j \in J, NEW s \in R, num[j] = ret[s] PROVE FALSE
    OBVIOUS
  <2> QED
    BY <1>2, <1>3, <1>7
<1>10. \A i, j \in J : num[i] = num[j] => i = j
  <2> SUFFICES ASSUME NEW i \in J, NEW j \in J, num[i] = num[j], i # j PROVE FALSE
    OBVIOUS
  <2>1. Earlier(i, j) \/ Earlier(j, i)
    BY <1>2, OneIsEarlier
  <2> QED
    BY <1>2, <1>5, <2>1
<1>11. \A s, q \in R : ret[s] = ret[q] => s = q
  <2> SUFFICES ASSUME NEW s \in R, NEW q \in R, ret[s] = ret[q], s # q PROVE FALSE
    OBVIOUS
  <2>1. ReturnPrecedes(s, q) \/ ReturnPrecedes(q, s)
    BY OneReturnsEarlier
  <2> QED
    BY <1>3, <1>6, <2>1
<1>12. \A i, j \in J : policies[i] = policies[j] => i = j
  BY <1>2 DEF Orderly
<1>13. NthFree(S, first, 1 + Cardinality(B)) = n
  <2>1. n \in Nat /\ n >= first /\ n \notin S
    BY <1>3
  <2> HIDE DEF S, n
  <2> QED
    BY <1>4, <2>1, NthFreeIs
<1> HIDE DEF J, R
<1>14. /\ Cardinality({policies[j] : j \in J}) = Cardinality(J)
       /\ Cardinality(BJ) = Cardinality(J) /\ IsFiniteSet(BJ)
       /\ Cardinality(BR) = Cardinality(R) /\ IsFiniteSet(BR)
  BY <1>4, <1>10, <1>11, <1>12, Counted
<1>15. Cardinality(J) \in Nat /\ Cardinality(R) \in Nat
  BY <1>4, FS_CardinalityType
<1> HIDE DEF BJ, BR, B, S, n
<1>16. Cardinality(B) = Cardinality(BJ) + Cardinality(BR) - Cardinality({})
  BY <1>8, <1>9, <1>14, FS_Union
<1>17. 1 + Cardinality(B) = Cardinality({policies[j] : j \in J}) + 1 + Cardinality(R)
  BY <1>14, <1>15, <1>16, FS_EmptySet
<1> QED
  BY <1>13, <1>17 DEF J, R, S, n

\* What the numbers are read off: the policies and the forwards, each a set.
Declared == [egress |-> {policies[k] : k \in Position},
             forwards |-> {[egress |-> f.uplink, family |-> f.family] : f \in forwards}]

\* The policies that are sorted before one that was not pinned.
LEMMA SortedBefore ==
    ASSUME NEW field, NEW k \in Position
    PROVE  /\ {q \in Declared.egress : q[field] = None /\ Precedes(q, policies[k])}
                = {policies[j] : j \in {l \in Asking(Ask(field)) : Earlier(l, k)}}
           /\ {q \in Declared.egress : q[field] = None} = {policies[j] : j \in Asking(Ask(field))}
           /\ {q[field] : q \in Declared.egress} \ {None} = Pins(Ask(field))
<1>1. Asking(Ask(field)) = {l \in Position : policies[l][field] = None}
  BY DEF Asking, Ask
<1>2. Declared.egress = {policies[l] : l \in Position}
  BY DEF Declared
<1>3. Pins(Ask(field)) = {policies[l][field] : l \in Position} \ {None}
  BY DEF Pins, Ask
<1> QED
  BY <1>1, <1>2, <1>3 DEF Earlier

\* derive.go: when the loops are through and refused no pin, every number is the one that
\* stands at its place: the k-th that was not pinned has the k-th number nobody pinned.
LEMMA ClosedForm ==
    ASSUME Shape, Progress, loop = "done", clashes = {}, Orderly, IsFiniteSet(Position), IsFiniteSet(forwards)
    PROVE  /\ \A k \in Position : routing[k] = Number(PolicyTable(Declared, policies[k]), PolicyMark(Declared, policies[k]))
           /\ \A r \in Returns(Declared) : returns[r] = Number(ReturnTable(Declared, r), ReturnMark(Declared, r))
<1>1. TablesInOrder /\ MarksInOrder /\ DOMAIN returns = forwards /\ Unpinned = {}
  BY DEF Progress, Pending
<1>2. /\ \A j \in Position : Num("table")[j] # None /\ Num("mark")[j] # None
      /\ DOMAIN Ask("table") = Position /\ DOMAIN Ask("mark") = Position
      /\ DOMAIN Ret("table") = forwards /\ DOMAIN Ret("mark") = forwards
  BY <1>1 DEF Unpinned, Num, Ask, Ret
<1>3. IsFiniteSet(ReservedTables) /\ IsFiniteSet({}) /\ FirstTable \in Nat /\ FirstMark \in Nat
  <2>1. \A x \in ReservedTables : x \in 0 .. 255
    BY DEF ReservedTables
  <2>2. 0 \in Int /\ 255 \in Int
    OBVIOUS
  <2>3. IsFiniteSet(0 .. 255)
    BY <2>2, FS_Interval
  <2> HIDE DEF ReservedTables
  <2>4. IsFiniteSet(ReservedTables)
    <3>1. ReservedTables \in SUBSET (0 .. 255)
      BY <2>1
    <3> QED
      BY <2>3, <3>1, FS_Subset
  <2> QED
    BY <2>4, FS_EmptySet DEF FirstTable, FirstMark
<1>4. TablePins(Declared) = Pins(Ask("table")) /\ MarkPins(Declared) = Pins(Ask("mark")) \cup {}
  <2>1. CASE Position = {}
    BY <2>1 DEF TablePins, MarkPins, Declared, Pins, Ask
  <2>2. CASE Position # {}
    BY <2>2, SortedBefore DEF TablePins, MarkPins
  <2> QED
    BY <2>1, <2>2
<1>5. Returns(Declared) = forwards
  <2> DEFINE back(f) == [uplink |-> f.egress, family |-> f.family]
             there(f) == [egress |-> f.uplink, family |-> f.family]
  <2>1. Returns(Declared) = {back(f) : f \in {there(g) : g \in forwards}}
    BY DEF Declared, Returns
  <2>2. \A f \in forwards : back(there(f)) = f
    BY DEF Orderly
  <2> HIDE DEF back, there
  <2> QED
    BY <2>1, <2>2
<1>6. ASSUME NEW k \in Position PROVE routing[k].table = PolicyTable(Declared, policies[k])
  <2>1. CASE policies[k].table # None
    <3>1. k \in DOMAIN Ask("table") \ Asking(Ask("table"))
      BY <2>1 DEF Asking, Ask
    <3>2. Num("table")[k] = Ask("table")[k]
      BY <1>1, <3>1 DEF TablesInOrder, Filled
    <3> QED
      BY <2>1, <3>2 DEF PolicyTable, Num, Ask
  <2>2. CASE policies[k].table = None
    <3>1. k \in Asking(Ask("table"))
      BY <2>2 DEF Asking, Ask
    <3>2. NthFree(Pins(Ask("table")) \cup ReservedTables, FirstTable,
                  1 + Cardinality({policies[j] : j \in {l \in Asking(Ask("table")) : Earlier(l, k)}})) = Num("table")[k]
      BY <1>1, <1>2, <1>3, <3>1, PolicyInPlace DEF TablesInOrder
    <3>3. {q \in Declared.egress : q.table = None /\ Precedes(q, policies[k])}
            = {policies[j] : j \in {l \in Asking(Ask("table")) : Earlier(l, k)}}
      BY SortedBefore
    <3>4. PolicyTable(Declared, policies[k]) = Num("table")[k]
      BY <1>4, <2>2, <3>2, <3>3 DEF PolicyTable
    <3> QED
      BY <3>4 DEF Num
  <2> QED
    BY <2>1, <2>2
<1>7. ASSUME NEW k \in Position PROVE routing[k].mark = PolicyMark(Declared, policies[k])
  <2>1. CASE policies[k].mark # None
    <3>1. k \in DOMAIN Ask("mark") \ Asking(Ask("mark"))
      BY <2>1 DEF Asking, Ask
    <3>2. Num("mark")[k] = Ask("mark")[k]
      BY <1>1, <3>1 DEF MarksInOrder, Filled
    <3> QED
      BY <2>1, <3>2 DEF PolicyMark, Num, Ask
  <2>2. CASE policies[k].mark = None
    <3>1. k \in Asking(Ask("mark"))
      BY <2>2 DEF Asking, Ask
    <3>2. NthFree(Pins(Ask("mark")) \cup {}, FirstMark,
                  1 + Cardinality({policies[j] : j \in {l \in Asking(Ask("mark")) : Earlier(l, k)}})) = Num("mark")[k]
      BY <1>1, <1>2, <1>3, <3>1, PolicyInPlace DEF MarksInOrder
    <3>3. {q \in Declared.egress : q.mark = None /\ Precedes(q, policies[k])}
            = {policies[j] : j \in {l \in Asking(Ask("mark")) : Earlier(l, k)}}
      BY SortedBefore
    <3>4. PolicyMark(Declared, policies[k]) = Num("mark")[k]
      BY <1>4, <2>2, <3>2, <3>3 DEF PolicyMark
    <3> QED
      BY <3>4 DEF Num
  <2> QED
    BY <2>1, <2>2
<1>8. ASSUME NEW r \in forwards
      PROVE  returns[r].table = ReturnTable(Declared, r) /\ returns[r].mark = ReturnMark(Declared, r)
  <2>1. NthFree(Pins(Ask("table")) \cup ReservedTables, FirstTable,
                Cardinality({policies[j] : j \in Asking(Ask("table"))})
                + 1 + Cardinality({s \in forwards : ReturnPrecedes(s, r)})) = Ret("table")[r]
    <3>1. /\ Filled(Ask("table"), Num("table"), Ret("table"), tables.next, tables.taken, FirstTable, ReservedTables)
          /\ InOrder(policies, forwards, Ask("table"), Num("table"), Ret("table"))
      BY <1>1 DEF TablesInOrder
    <3> DEFINE ask == Ask("table")
               num == Num("table")
               ret == Ret("table")
    <3>2. DOMAIN ask = Position /\ DOMAIN ret = forwards /\ \A j \in Position : num[j] # None
      BY <1>2
    <3>3. Filled(ask, num, ret, tables.next, tables.taken, FirstTable, ReservedTables)
          /\ InOrder(policies, forwards, ask, num, ret)
      BY <3>1
    <3> HIDE DEF ask, num, ret
    <3>4. NthFree(Pins(ask) \cup ReservedTables, FirstTable,
                  Cardinality({policies[j] : j \in Asking(ask)})
                  + 1 + Cardinality({s \in forwards : ReturnPrecedes(s, r)})) = ret[r]
      BY <1>3, <3>2, <3>3, ReturnInPlace
    <3> QED
      BY <3>4 DEF ask, ret
  <2>2. NthFree(Pins(Ask("mark")) \cup {}, FirstMark,
                Cardinality({policies[j] : j \in Asking(Ask("mark"))})
                + 1 + Cardinality({s \in forwards : ReturnPrecedes(s, r)})) = Ret("mark")[r]
    BY <1>1, <1>2, <1>3, ReturnInPlace DEF MarksInOrder
  <2>3. /\ {q \in Declared.egress : q.table = None} = {policies[j] : j \in Asking(Ask("table"))}
        /\ {q \in Declared.egress : q.mark = None} = {policies[j] : j \in Asking(Ask("mark"))}
    BY DEF Declared, Asking, Ask
  <2>4. ReturnTable(Declared, r) = Ret("table")[r]
    BY <1>4, <1>5, <2>1, <2>3 DEF ReturnTable
  <2>5. ReturnMark(Declared, r) = Ret("mark")[r]
    BY <1>4, <1>5, <2>2, <2>3 DEF ReturnMark
  <2> QED
    BY <1>1, <2>4, <2>5 DEF Ret
<1>9. \A k \in Position : routing[k] = Number(routing[k].table, routing[k].mark)
  BY DEF Shape
<1>10. \A r \in forwards : returns[r] = Number(returns[r].table, returns[r].mark)
  BY <1>1 DEF Shape
<1> QED
  BY <1>5, <1>6, <1>7, <1>8, <1>9, <1>10
=============================================================================
