-------------------------------- MODULE Derive ------------------------------
(***************************************************************************)
(* internal/config/derive.go: the loops that give every EgressRoutePolicy, *)
(* and every uplink and family a PortForward is published on, a routing    *)
(* table and a firewall mark.  The pins come first, in the order of the    *)
(* document; then the policies that miss a number, in the order they are   *)
(* evaluated in; then the uplinks.                                         *)
(*                                                                         *)
(* A policy is its position in the document.  (The code keys what it       *)
(* derives by name; two policies of one name are refused elsewhere.)       *)
(***************************************************************************)
EXTENDS Numbers, Integers, Sequences

VARIABLES
    policies,   \* the policies, by their position in the document
    forwards,   \* the uplinks and families forwards are published on
    loop,       \* which loop is running
    pos,        \* how far in the document the first loop is
    tables,     \* the allocator of tables: the number it is at, and those spoken for
    marks,      \* the allocator of marks
    routing,    \* what each policy was given
    returns,    \* what each uplink and family was given
    clashes     \* the pins that were refused

inputs == <<policies, forwards>>
deriveVars == <<policies, forwards, loop, pos, tables, marks, routing, returns, clashes>>

Position == DOMAIN policies
Number(t, m) == [table |-> t, mark |-> m]

\* next: the numbers from the allocator's on are tried one by one, past those spoken for and
\* those that cannot be used.
NextFree(a, unusable) ==
    {n \in a.next .. a.next + Cardinality(a.taken \cup unusable) :
        /\ n \notin a.taken \cup unusable
        /\ \A k \in a.next .. n - 1 : k \in a.taken \cup unusable}

Hand(a, n) == [next |-> n + 1, taken |-> a.taken \cup {n}]
Reserve(a, n) == [a EXCEPT !.taken = @ \cup {n}]

\* A slip: a table the kernel keeps is taken for a pin like any other.
PinnableUnreserved(t) == t # None /\ t \notin tables.taken

\* A table that may be pinned: not the kernel's, and nobody else's.
Pinnable(t) == t # None /\ t \notin ReservedTables /\ t \notin tables.taken

PinnableMark(m) == m # None /\ m # 0 /\ m \notin marks.taken

\* The policies the first loop has not come to.
ToPin == {k \in Position : k >= pos}

\* The first loop, for one policy.
Pin(k) ==
    /\ loop = "pin" /\ k \in ToPin /\ \A j \in ToPin : k <= j
    /\ LET t == policies[k].table
           m == policies[k].mark
       IN /\ tables' = IF Pinnable(t) THEN Reserve(tables, t) ELSE tables
          /\ marks' = IF PinnableMark(m) THEN Reserve(marks, m) ELSE marks
          /\ routing' = [routing EXCEPT ![k] = Number(IF Pinnable(t) THEN t ELSE None,
                                                     IF PinnableMark(m) THEN m ELSE None)]
          /\ clashes' = clashes \cup {x \in {"table"} : t # None /\ ~Pinnable(t)}
                                \cup {x \in {"mark"} : m # None /\ ~PinnableMark(m)}
    /\ pos' = k + 1
    /\ UNCHANGED <<inputs, loop, returns>>

Pinned ==
    /\ loop = "pin" /\ ToPin = {}
    /\ loop' = "allocate"
    /\ UNCHANGED <<inputs, pos, tables, marks, routing, returns, clashes>>

Unpinned == {k \in Position : routing[k].table = None \/ routing[k].mark = None}

\* The sort is stable.
Before(k, l) ==
    \/ Precedes(policies[k], policies[l])
    \/ ~Precedes(policies[l], policies[k]) /\ k < l

\* A slip: the numbers are given in the order of the document.
FirstInDocument(k) == k \in Unpinned /\ \A l \in Unpinned \ {k} : k < l

FirstUnpinned(k) == k \in Unpinned /\ \A l \in Unpinned \ {k} : Before(k, l)

\* A slip: a policy that misses one of its numbers is given both.
AllocateBoth(k) ==
    \E t \in NextFree(tables, ReservedTables), m \in NextFree(marks, {}) :
        /\ loop = "allocate" /\ FirstUnpinned(k)
        /\ tables' = Hand(tables, t) /\ marks' = Hand(marks, m)
        /\ routing' = [routing EXCEPT ![k] = Number(t, m)]
        /\ UNCHANGED <<inputs, loop, pos, returns, clashes>>

\* The second loop, for one policy: what was not pinned is allocated.
Allocate(k) ==
    \E t \in NextFree(tables, ReservedTables), m \in NextFree(marks, {}) :
        /\ loop = "allocate" /\ FirstUnpinned(k)
        /\ tables' = IF routing[k].table = None THEN Hand(tables, t) ELSE tables
        /\ marks' = IF routing[k].mark = None THEN Hand(marks, m) ELSE marks
        /\ routing' = [routing EXCEPT ![k] = Number(IF @.table = None THEN t ELSE @.table,
                                                    IF @.mark = None THEN m ELSE @.mark)]
        /\ UNCHANGED <<inputs, loop, pos, returns, clashes>>

Allocated ==
    /\ loop = "allocate" /\ Unpinned = {}
    /\ loop' = "returns"
    /\ UNCHANGED <<inputs, pos, tables, marks, routing, returns, clashes>>

\* deriveForwardReturns, for one uplink and family.
Pending == forwards \ DOMAIN returns

Return(r) ==
    \E t \in NextFree(tables, ReservedTables), m \in NextFree(marks, {}) :
        /\ loop = "returns" /\ r \in Pending /\ \A s \in Pending \ {r} : ReturnPrecedes(r, s)
        /\ tables' = Hand(tables, t) /\ marks' = Hand(marks, m)
        /\ returns' = [s \in DOMAIN returns \cup {r} |-> IF s = r THEN Number(t, m) ELSE returns[s]]
        /\ UNCHANGED <<inputs, loop, pos, routing, clashes>>

Returned ==
    /\ loop = "returns" /\ Pending = {}
    /\ loop' = "done"
    /\ UNCHANGED <<inputs, pos, tables, marks, routing, returns, clashes>>

\* The loops as they begin.
Begun ==
    /\ Position \subseteq Nat \ {0}
    /\ loop = "pin" /\ pos = 1
    /\ tables = [next |-> FirstTable, taken |-> {}] /\ marks = [next |-> FirstMark, taken |-> {}]
    /\ routing = [k \in Position |-> Number(None, None)]
    /\ returns = [r \in {} |-> Number(None, None)]
    /\ clashes = {}

Derives ==
    \/ Pinned \/ Allocated \/ Returned
    \/ \E k \in Position : Pin(k) \/ Allocate(k)
    \/ \E r \in Pending : Return(r)

Spec == Begun /\ [][Derives]_deriveVars
-----------------------------------------------------------------------------
(***************************************************************************)
(* Properties.                                                             *)
(***************************************************************************)
\* The policies and the uplinks whose number of a kind is known, and the number.
Given(field) ==
    {<<"policy", k>> : k \in {j \in Position : routing[j][field] # None}}
    \cup {<<"return", r>> : r \in DOMAIN returns}

NumberOf(field, x) == IF x[1] = "policy" THEN routing[x[2]][field] ELSE returns[x[2]][field]

Numbered(field) == [x \in Given(field) |-> NumberOf(field, x)]

\* derive.go deriveRouting: no two policies or uplinks share a table or a mark, whatever is
\* pinned to what; no table is one the kernel keeps, and no mark is the one an unmarked packet
\* carries.
NumbersApart ==
    /\ \A field \in {"table", "mark"} :
         \A x, y \in Given(field) : x # y => NumberOf(field, x) # NumberOf(field, y)
    /\ \A x \in Given("table") : NumberOf("table", x) \notin ReservedTables
    /\ \A x \in Given("mark") : NumberOf("mark", x) # 0

TableAssignment == INSTANCE Assignment WITH given <- Numbered("table"), Reserved <- ReservedTables
MarkAssignment == INSTANCE Assignment WITH given <- Numbered("mark"), Reserved <- {0}

\* derive.go allocator: the pins and the loops after them are one allocation of tables and one
\* of marks.  What was pinned or handed out is kept, and nobody is given it again.
NumbersAssigned == TableAssignment!Spec /\ MarkAssignment!Spec
=============================================================================
