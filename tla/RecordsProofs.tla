---------------------------- MODULE RecordsProofs ---------------------------
(***************************************************************************)
(* What the writer leaves at the provider and what it remembers of it, for *)
(* any records, situations, declarations and number of changes.            *)
(*                                                                         *)
(* That no record is there twice rests on nobody having made one since the *)
(* lookup that found none (AboutToCreate); that the memory is true rests   *)
(* on no record being there twice.  What a record should hold lies inside  *)
(* a delegation by the arithmetic of prefixes, which starts from powers of *)
(* two being what their recursive definition says.                         *)
(***************************************************************************)
EXTENDS Records, TLAPS, FiniteSetTheorems, NaturalsInduction

Shape ==
    /\ held = [k \in Key |-> held[k]] /\ written = [k \in Key |-> written[k]]
    /\ records = [k \in Key |-> records[k]]
    /\ \A st \in todo : st.key \in Key

AboutToCreate == call = "create" => \A st \in todo : Current(st) => held[st.key] = {}

IInv == Shape /\ AboutToCreate /\ OneRecord /\ MemoryIsTrue

\* The steps a turn begins with are about declared records.
LEMMA ChangesShape == ASSUME NEW answering PROVE \A st \in Changes(answering) : st.key \in Key
BY DEF Changes, Step

\* Only one step at a time is the current one.
LEMMA OneCurrent ==
    ASSUME Shape, NEW st \in todo, NEW other \in todo, Current(st), Current(other)
    PROVE  st.key = other.key
BY OrderAssumption DEF Shape, Current

\* Writing to the one record there is, or where there is none, leaves one with that value.
LEMMA PutOne ==
    ASSUME Shape, OneRecord, NEW k \in Key, NEW id, NEW value, Put(k, id, value),
           held[k] = {} \/ \E r \in held[k] : r.id = id
    PROVE  /\ held' = [j \in Key |-> IF j = k THEN {[id |-> id, value |-> value]} ELSE held[j]]
           /\ OneRecord'
           /\ {r.value : r \in held'[k]} = {value}
<1>1. {r \in held[k] : r.id # id} = {}
  BY DEF OneRecord
<1>2. held' = [j \in Key |-> IF j = k THEN {[id |-> id, value |-> value]} ELSE held[j]]
  BY <1>1 DEF Put, Shape
<1>3. OneRecord'
  BY <1>2 DEF OneRecord
<1> QED
  BY <1>2, <1>3

\* Nothing has been written when the process starts.
LEMMA InitIInv == Init => IInv
BY DEF Init, IInv, Shape, AboutToCreate, OneRecord, MemoryIsTrue

\* A step of a turn that leaves the provider alone, and remembers nothing new.
LEMMA Untouched ==
    ASSUME IInv, UNCHANGED <<provider, written>>, records' = [k \in Key |-> records'[k]],
           \A st \in todo' : st.key \in Key, AboutToCreate'
    PROVE  IInv'
BY DEF IInv, Shape, OneRecord, MemoryIsTrue, provider

\* The current record was written and is remembered.
LEMMA Wrote ==
    ASSUME IInv, NEW st \in todo, NEW id, Put(st.key, id, st.value), Done(st),
           held[st.key] = {} \/ \E r \in held[st.key] : r.id = id,
           written' = [written EXCEPT ![st.key] = st.value], doubt' = doubt \ {st.key},
           records' = [k \in Key |-> records'[k]]
    PROVE  IInv'
<1>1. st.key \in Key
  BY DEF IInv, Shape
<1>2. /\ held' = [j \in Key |-> IF j = st.key THEN {[id |-> id, value |-> st.value]} ELSE held[j]]
      /\ OneRecord' /\ {r.value : r \in held'[st.key]} = {st.value}
  BY <1>1, PutOne DEF IInv
<1>3. MemoryIsTrue'
  <2> SUFFICES ASSUME NEW k \in Key \ doubt', written'[k] # None
               PROVE  {r.value : r \in held'[k]} = {written'[k]}
    BY DEF MemoryIsTrue
  <2>1. CASE k = st.key
    BY <1>2, <2>1 DEF IInv, Shape
  <2>2. CASE k # st.key
    BY <1>2, <2>2 DEF IInv, Shape, MemoryIsTrue
  <2> QED
    BY <2>1, <2>2
<1>4. Shape' /\ AboutToCreate'
  BY <1>1, <1>2 DEF IInv, Shape, AboutToCreate, Done
<1> QED
  BY <1>2, <1>3, <1>4 DEF IInv

\* A record that was written by somebody else, or without an answer, is in doubt.
LEMMA Doubted ==
    ASSUME IInv, NEW k \in Key, NEW id, NEW value, Put(k, id, value),
           held[k] = {} \/ \E r \in held[k] : r.id = id,
           written' = written, doubt' = doubt \cup {k}, records' = [j \in Key |-> records'[j]],
           \A st \in todo' : st.key \in Key, AboutToCreate'
    PROVE  IInv'
<1>1. /\ held' = [j \in Key |-> IF j = k THEN {[id |-> id, value |-> value]} ELSE held[j]]
      /\ OneRecord'
  BY PutOne DEF IInv
<1>2. MemoryIsTrue'
  BY <1>1 DEF IInv, MemoryIsTrue
<1> QED
  BY <1>1, <1>2 DEF IInv, Shape

\* A turn that begins, and the lookups, write nothing.
LEMMA TurnStep ==
    ASSUME IInv,
           \/ \E answering \in SUBSET Source : Submitted(answering) \/ Unattended(answering)
           \/ \E st \in todo : ReadToken(st) \/ FindZone(st) \/ FindRecord(st) \/ Rejected(st) \/ Refused(st)
           \/ \E st \in backoff : Elapse(st)
    PROVE  IInv'
<1> USE DEF writer, provider, turn
<1>1. ASSUME NEW answering \in SUBSET Source, Submitted(answering) \/ Unattended(answering) PROVE IInv'
  <2>1. \A st \in todo' : st.key \in Key
    BY <1>1, ChangesShape DEF Submitted, Unattended
  <2> QED
    BY <1>1, <2>1, Untouched DEF Submitted, Unattended, AboutToCreate, IInv, Shape
<1>2. ASSUME NEW st \in todo, ReadToken(st) \/ FindZone(st) PROVE IInv'
  <2>1. call' # "create" /\ todo' = todo /\ UNCHANGED <<provider, written, records>>
    BY <1>2 DEF ReadToken, FindZone, Then, Lookup
  <2> QED
    BY <2>1, Untouched DEF AboutToCreate, IInv, Shape
<1>3. ASSUME NEW st \in todo, FindRecord(st) PROVE IInv'
  <2>1. todo' = todo /\ UNCHANGED <<provider, written>> /\ records' = [k \in Key |-> records'[k]]
    BY <1>3 DEF FindRecord, Then, IInv, Shape
  <2>2. AboutToCreate'
    <3> SUFFICES ASSUME call' = "create", NEW other \in todo, Current(other)' PROVE held[other.key] = {}
      BY <2>1 DEF AboutToCreate
    <3>1. held[st.key] = {} /\ Current(st) /\ Current(other)
      BY <1>3, <2>1 DEF FindRecord, Then, Current
    <3> QED
      BY <3>1, OneCurrent DEF IInv
  <2> QED
    BY <2>1, <2>2, Untouched DEF IInv, Shape
<1>4. ASSUME NEW st \in todo, Rejected(st) \/ Refused(st) PROVE IInv'
  <2>1. /\ UNCHANGED <<provider, written>> /\ records' = [k \in Key |-> records'[k]]
        /\ call' = "token" /\ todo' \subseteq todo
    BY <1>4 DEF Rejected, Refused, Forget, Done, IInv, Shape
  <2> QED
    BY <2>1, Untouched DEF AboutToCreate, IInv, Shape
<1>5. ASSUME NEW st \in backoff, Elapse(st) PROVE IInv'
  <2>1. UNCHANGED <<provider, written, records, todo, call>>
    BY <1>5 DEF Elapse
  <2>2. AboutToCreate'
    BY <2>1 DEF AboutToCreate, Current, IInv
  <2> QED
    BY <2>1, <2>2, Untouched DEF IInv, Shape
<1> QED
  BY <1>1, <1>2, <1>3, <1>4, <1>5

\* A request that writes finds no record, or the one it was told of.
LEMMA WriteStep ==
    ASSUME IInv, NEW st \in todo, Create(st) \/ Update(st) \/ Unanswered(st)
    PROVE  IInv'
<1>1. st.key \in Key
  BY DEF IInv, Shape
<1>2. Creates(st) => held[st.key] = {}
  BY DEF Creates, IInv, AboutToCreate
<1>3. CASE Create(st)
  <2>1. records' = [k \in Key |-> records'[k]]
    BY <1>3 DEF Create, IInv, Shape
  <2> QED
    BY <1>2, <1>3, <2>1, Wrote DEF Create, Creates
<1>4. CASE Update(st)
  <2>1. records' = [k \in Key |-> records'[k]]
    BY <1>4 DEF Update, IInv, Shape
  <2> QED
    BY <1>4, <2>1, Wrote DEF Update, Updates
<1>5. CASE Unanswered(st)
  <2>1. /\ records' = [k \in Key |-> records'[k]] /\ written' = written
        /\ doubt' = doubt \cup {st.key} /\ \A other \in todo' : other.key \in Key
    BY <1>5 DEF Unanswered, Forget, Done, IInv, Shape, AboutToCreate
  <2>2. AboutToCreate'
    BY <1>5 DEF Unanswered, Done, AboutToCreate
  <2>3. \E id : Put(st.key, id, st.value) /\ (held[st.key] = {} \/ \E r \in held[st.key] : r.id = id)
    BY <1>2, <1>5 DEF Unanswered, Creates, Updates
  <2> QED
    BY <1>1, <2>1, <2>2, <2>3, Doubted
<1> QED
  BY <1>3, <1>4, <1>5

\* What somebody else does to the zone is not what the writer remembers, and adds no record.
LEMMA OtherStep ==
    ASSUME IInv,
           \/ \E n \in DOMAIN Situation : Move(n)
           \/ \E d \in DOMAIN Declaration : Redeclare(d)
           \/ \E k \in Key : Delete(k) \/ Edit(k)
           \/ ZoneMoves \/ Restart \/ UNCHANGED vars
    PROVE  IInv'
<1> USE DEF writer, provider, turn, hostVars
<1>1. ASSUME UNCHANGED <<provider, written, records, todo, call>> PROVE IInv'
  <2>1. AboutToCreate'
    BY <1>1 DEF AboutToCreate, Current, IInv
  <2> QED
    BY <1>1, <2>1, Untouched DEF IInv, Shape
<1>2. ASSUME NEW k \in Key, Delete(k) PROVE IInv'
  BY <1>2 DEF Delete, IInv, Shape, AboutToCreate, Current, OneRecord, MemoryIsTrue
<1>3. ASSUME NEW k \in Key, Edit(k) PROVE IInv'
  <2> PICK r \in held[k] : Put(k, r.id, Foreign)
    BY <1>3 DEF Edit
  <2>1. UNCHANGED <<written, records, todo, call>> /\ doubt' = doubt \cup {k}
    BY <1>3 DEF Edit
  <2>2. held' = [j \in Key |-> IF j = k THEN {[id |-> r.id, value |-> Foreign]} ELSE held[j]]
    BY PutOne DEF IInv
  <2>3. AboutToCreate'
    BY <2>1, <2>2 DEF AboutToCreate, Current, IInv, Shape
  <2> QED
    BY <2>1, <2>3, Doubted DEF IInv, Shape
<1>4. CASE ZoneMoves
  BY <1>4 DEF ZoneMoves, IInv, Shape, AboutToCreate, Current, OneRecord, MemoryIsTrue
<1>5. CASE Restart
  BY <1>5 DEF Restart, IInv, Shape, AboutToCreate, OneRecord, MemoryIsTrue
<1>6. CASE (\E n \in DOMAIN Situation : Move(n)) \/ (\E d \in DOMAIN Declaration : Redeclare(d)) \/ UNCHANGED vars
  BY <1>1, <1>6 DEF Move, Redeclare, vars
<1> QED
  BY <1>2, <1>3, <1>4, <1>5, <1>6

\* Every step keeps the invariant.
LEMMA StepIInv == IInv /\ [Next]_vars => IInv'
<1> SUFFICES ASSUME IInv, [Next]_vars PROVE IInv'
  OBVIOUS
<1>1. CASE Progress
  <2>1. Source \in SUBSET Source
    OBVIOUS
  <2>2. CASE Unattended(Source)
    BY <2>1, <2>2, TurnStep
  <2>3. CASE \E st \in todo : Answered(st)
    BY <2>3, TurnStep, WriteStep DEF Answered
  <2>4. CASE \E st \in backoff : Elapse(st)
    BY <2>4, TurnStep
  <2> QED
    BY <1>1, <2>2, <2>3, <2>4 DEF Progress
<1>2. CASE \E answering \in SUBSET Source : Submitted(answering) \/ Unattended(answering)
  BY <1>2, TurnStep
<1>3. CASE \E st \in todo : Refused(st) \/ Unanswered(st)
  BY <1>3, TurnStep, WriteStep
<1>4. CASE (\E n \in DOMAIN Situation : Move(n)) \/ (\E d \in DOMAIN Declaration : Redeclare(d))
           \/ (\E k \in Key : Delete(k) \/ Edit(k)) \/ ZoneMoves \/ Restart \/ UNCHANGED vars
  BY <1>4, OtherStep
<1> QED
  BY <1>1, <1>2, <1>3, <1>4 DEF Next

\* writer.go Write: whatever is refused, lost, deleted or begun again, the writer never makes
\* a second record of one name and type.
THEOREM NeverTwice == Spec => []OneRecord
BY InitIInv, StepIInv, PTL DEF Spec, IInv

\* writer.go Holds: what the writer takes for written is at the provider, unless somebody else
\* changed it or a request was carried out and not answered.
THEOREM MemoryHolds == Spec => []MemoryIsTrue
BY InitIInv, StepIInv, PTL DEF Spec, IInv
-----------------------------------------------------------------------------
(***************************************************************************)
(* What the writer knows at each request.                                  *)
(***************************************************************************)
\* A request follows the lookups it needs, and the provider has identifiers for what it keeps.
TInv == TypeOK /\ \A k \in Key : \A r \in held[k] : r.id \in Id

\* A turn writes a record once.
LEMMA ChangesOnce ==
    ASSUME NEW answering, NEW st \in Changes(answering), NEW other \in Changes(answering), st.key = other.key
    PROVE  st = other
BY DEF Changes, Step

\* The provider has an identifier left for a record nobody has.
LEMMA FreshIdIs ==
    ASSUME NEW k, held[k] = {}
    PROVE  FreshId(k) \in Id
<1>1. \E id \in Id : id # records[k] /\ \A r \in held[k] : r.id # id
  <2>1. 1 \in Id /\ 2 \in Id
    BY DEF Id
  <2> QED
    BY <2>1
<1> QED
  BY <1>1 DEF FreshId

\* A zone that is taken away and added again has an identifier of its own.
LEMMA FreshZoneIs == (CHOOSE id \in Id : id \notin {zone, zones}) \in Id
<1>1. \E id \in Id : id \notin {zone, zones}
  <2>1. 1 \in Id /\ 2 \in Id /\ 3 \in Id
    BY DEF Id
  <2> QED
    BY <2>1
<1> QED
  BY <1>1

\* Nothing was looked up when the process starts.
LEMMA InitTInv == Init => TInv
BY NoneAssumption DEF Init, TInv, TypeOK, Id

\* What changes nothing a request rests on.
LEMMA SameTurn ==
    ASSUME TInv, UNCHANGED <<zones, records, todo, call>>, zone' \in Id,
           \A k \in Key : \A r \in held'[k] : r.id \in Id
    PROVE  TInv'
BY DEF TInv, TypeOK, Current

\* The step is over, one way or another: the next begins with its token.
LEMMA NextStep ==
    ASSUME TInv, NEW st \in todo, Done(st), UNCHANGED <<zones, zone>>,
           records' \in [Key -> Id \cup {None}],
           \A k \in Key : records'[k] # None => zones # None,
           \A k \in Key : \A r \in held'[k] : r.id \in Id
    PROVE  TInv'
BY DEF TInv, TypeOK, Done

\* The lookups: a request is only made when what it names was found.
LEMMA LookupTyped ==
    ASSUME TInv, Shape, NEW st \in todo, ReadToken(st) \/ FindZone(st) \/ FindRecord(st)
    PROVE  TInv'
<1>1. st \in todo /\ Current(st) /\ Current(st)' /\ st.key \in Key /\ UNCHANGED <<todo, provider>>
  BY DEF ReadToken, FindZone, FindRecord, Then, Shape, Current
<1>2. CASE ReadToken(st)
  <2>1. UNCHANGED <<zones, records>> /\ (call' # "zone" => zones # None)
        /\ call' \in {"zone", "record", "update"} /\ (call' = "update" => records[st.key] # None)
    BY <1>2 DEF ReadToken, Then, Lookup, writer
  <2> QED
    BY <1>1, <2>1 DEF TInv, TypeOK, provider
<1>3. CASE FindZone(st)
  <2>1. zones' \in Id /\ records' = records
        /\ call' \in {"record", "update"} /\ (call' = "update" => records[st.key] # None)
    BY <1>3 DEF FindZone, Then, Lookup, TInv, TypeOK
  <2>2. zones' # None
    BY <2>1, NoneAssumption
  <2> QED
    BY <1>1, <2>1, <2>2 DEF TInv, TypeOK, provider
<1>4. CASE FindRecord(st)
  <2>1. zones # None /\ zones' = zones
    BY <1>4 DEF FindRecord, TInv, TypeOK
  <2>2. CASE call' = "create" /\ records' = records
    BY <1>1, <2>1, <2>2 DEF TInv, TypeOK, provider
  <2>3. ASSUME NEW r \in held[st.key], records' = [records EXCEPT ![st.key] = r.id], call' = "update" PROVE TInv'
    <3>1. r.id \in Id /\ r.id # None
      BY <1>1, NoneAssumption DEF TInv
    <3>2. records' \in [Key -> Id \cup {None}] /\ records'[st.key] # None
      BY <1>1, <2>3, <3>1 DEF TInv, TypeOK
    <3> QED
      BY <1>1, <2>1, <2>3, <3>1, <3>2 DEF TInv, TypeOK, provider
  <2> QED
    BY <1>4, <2>2, <2>3 DEF FindRecord, Then
<1> QED
  BY <1>2, <1>3, <1>4

\* The requests that write.
LEMMA WriteTyped ==
    ASSUME TInv, IInv, NEW st \in todo,
           Create(st) \/ Update(st) \/ Rejected(st) \/ Refused(st) \/ Unanswered(st)
    PROVE  TInv'
<1>1. st.key \in Key /\ records \in [Key -> Id \cup {None}] /\ held = [k \in Key |-> held[k]]
      /\ \A k \in Key : records[k] # None => zones # None
  BY DEF TInv, TypeOK, IInv, Shape
<1>2. Creates(st) => held[st.key] = {} /\ FreshId(st.key) \in Id /\ zones # None
  BY FreshIdIs DEF Creates, IInv, AboutToCreate, TInv, TypeOK
<1>3. ASSUME NEW id \in Id, NEW value, Put(st.key, id, value)
      PROVE  \A k \in Key : \A r \in held'[k] : r.id \in Id
  BY <1>1, <1>3 DEF Put, TInv
<1>4. CASE Create(st)
  <2>1. records' = [records EXCEPT ![st.key] = FreshId(st.key)] /\ Done(st) /\ UNCHANGED <<zones, zone>>
    BY <1>4 DEF Create
  <2>2. \A k \in Key : \A r \in held'[k] : r.id \in Id
    BY <1>2, <1>3, <1>4 DEF Create, Creates
  <2> QED
    BY <1>1, <1>2, <1>4, <2>1, <2>2, NextStep DEF Create
<1>5. Updates(st) => \A k \in Key : \A r \in held'[k] : r.id \in Id
  BY <1>1, <1>3 DEF Updates, TInv
<1>6. CASE Update(st)
  BY <1>1, <1>5, <1>6, NextStep DEF Update
<1>7. Forget(st.key) => /\ records' \in [Key -> Id \cup {None}]
                        /\ \A k \in Key : records'[k] # None => zones # None
  BY <1>1 DEF Forget
<1>8. CASE Rejected(st) \/ Refused(st)
  <2>1. Forget(st.key) /\ Done(st) /\ UNCHANGED <<zones, zone, held>>
    BY <1>8 DEF Rejected, Refused, provider
  <2> QED
    BY <1>7, <2>1, NextStep DEF TInv
<1>9. CASE Unanswered(st)
  <2>1. \A k \in Key : \A r \in held'[k] : r.id \in Id
    BY <1>2, <1>3, <1>5, <1>9 DEF Unanswered, Creates
  <2> QED
    BY <1>7, <1>9, <2>1, NextStep DEF Unanswered
<1> QED
  BY <1>4, <1>6, <1>8, <1>9

\* Every step keeps it.
LEMMA StepTInv == IInv /\ TInv /\ [Next]_vars => TInv'
<1> SUFFICES ASSUME IInv, TInv, [Next]_vars PROVE TInv'
  OBVIOUS
<1> USE DEF writer, provider, turn, hostVars
<1>1. ASSUME UNCHANGED <<zones, records, todo, call, zone, held>> PROVE TInv'
  BY <1>1, SameTurn DEF TInv, TypeOK
<1>2. ASSUME NEW answering, Submitted(answering) \/ Unattended(answering) PROVE TInv'
  <2>1. todo' \subseteq Changes(answering) /\ call' = "token" /\ UNCHANGED <<zones, records, zone, held>>
    BY <1>2 DEF Submitted, Unattended
  <2>2. \A st, other \in todo' : st.key = other.key => st = other
    BY <2>1, ChangesOnce
  <2> QED
    BY <2>1, <2>2 DEF TInv, TypeOK
<1>3. ASSUME NEW st \in todo, Answered(st) \/ Refused(st) \/ Unanswered(st) PROVE TInv'
  BY <1>3, LookupTyped, WriteTyped DEF Answered, IInv
<1>4. ASSUME NEW st, Elapse(st) PROVE TInv'
  BY <1>1, <1>4 DEF Elapse
<1>5. CASE (\E n \in DOMAIN Situation : Move(n)) \/ (\E d \in DOMAIN Declaration : Redeclare(d)) \/ UNCHANGED vars
  BY <1>1, <1>5 DEF Move, Redeclare, vars
<1>6. ASSUME NEW k \in Key, Delete(k) \/ Edit(k) PROVE TInv'
  <2>1. UNCHANGED <<zones, records, todo, call, zone>>
    BY <1>6 DEF Delete, Edit
  <2>2. \A j \in Key : \A r \in held'[j] : r.id \in Id
    BY <1>6 DEF Delete, Edit, Put, TInv, IInv, Shape
  <2> QED
    BY <2>1, <2>2, SameTurn DEF TInv, TypeOK
<1>7. CASE ZoneMoves
  <2>1. UNCHANGED <<zones, records, todo, call>> /\ zone' \in Id
    BY <1>7, FreshZoneIs DEF ZoneMoves
  <2>2. \A j \in Key : \A r \in held'[j] : r.id \in Id
    BY <1>7 DEF ZoneMoves
  <2> QED
    BY <2>1, <2>2, SameTurn
<1>8. CASE Restart
  BY <1>8 DEF Restart, TInv, TypeOK
<1> QED
  BY <1>2, <1>3, <1>4, <1>5, <1>6, <1>7, <1>8 DEF Next, Progress

\* writer.go Write: a record is asked for only in a zone that was found, and updated only by
\* an identifier that was looked up.
THEOREM RecordsTyped == Spec => []TypeOK
BY InitIInv, StepIInv, InitTInv, StepTInv, PTL DEF Spec, TInv
-----------------------------------------------------------------------------
(***************************************************************************)
(* The arithmetic of prefixes.                                             *)
(***************************************************************************)
\* A set of natural numbers has a least one.
LEMMA Least ==
    ASSUME NEW S \in SUBSET Nat, S # {}
    PROVE  \E n \in S : \A m \in S : n <= m
<1>1. PICK n \in S : \A m \in S : ~(<<m, n>> \in OpToRel(<, Nat))
  BY NatLessThanWellFounded, WFMin
<1>2. \A m \in S : ~(m < n)
  BY <1>1 DEF OpToRel
<1> QED
  BY <1>2

\* The first powers of two, up to that of n.
PowersTo(f, n) ==
    /\ f \in [0 .. n -> Nat \ {0}]
    /\ \A i \in 0 .. n : f[i] = IF i = 0 THEN 1 ELSE 2 * f[i - 1]

\* They exist, however far.
LEMMA PowersExist == \A n \in Nat : \E f : PowersTo(f, n)
<1> DEFINE Bad == {n \in Nat : ~\E f : PowersTo(f, n)}
<1>1. SUFFICES Bad = {}
  OBVIOUS
<1> SUFFICES ASSUME Bad # {} PROVE FALSE
  OBVIOUS
<1>2. PICK n \in Bad : \A m \in Bad : n <= m
  <2>1. Bad \in SUBSET Nat
    OBVIOUS
  <2> HIDE DEF Bad
  <2> QED
    BY <2>1, Least
<1>3. CASE n = 0
  <2>1. PowersTo([i \in 0 .. 0 |-> 1], 0)
    BY DEF PowersTo
  <2> QED
    BY <1>3, <2>1
<1>4. CASE n # 0
  <2>1. n - 1 \in Nat /\ n - 1 \notin Bad
    BY <1>2, <1>4
  <2>2. PICK f : PowersTo(f, n - 1)
    BY <2>1
  <2> DEFINE g == [i \in 0 .. n |-> IF i = n THEN 2 * f[n - 1] ELSE f[i]]
  <2>3. n - 1 \in 0 .. n - 1 /\ f[n - 1] \in Nat \ {0}
    BY <2>1, <2>2 DEF PowersTo
  <2>4. g \in [0 .. n -> Nat \ {0}]
    BY <2>1, <2>2, <2>3 DEF PowersTo
  <2>5. \A i \in 0 .. n : g[i] = IF i = 0 THEN 1 ELSE 2 * g[i - 1]
    BY <1>4, <2>1, <2>2 DEF PowersTo
  <2> QED
    BY <2>4, <2>5 DEF PowersTo
<1> QED
  BY <1>3, <1>4

\* And there is one of each.
LEMMA PowersAgree ==
    ASSUME NEW n \in Nat, NEW m \in Nat, NEW f, NEW g, PowersTo(f, n), PowersTo(g, m)
    PROVE  \A i \in Nat : i <= n /\ i <= m => f[i] = g[i]
<1> DEFINE Bad == {i \in Nat : i <= n /\ i <= m /\ f[i] # g[i]}
<1> SUFFICES ASSUME Bad # {} PROVE FALSE
  OBVIOUS
<1>1. PICK i \in Bad : \A j \in Bad : i <= j
  <2>1. Bad \in SUBSET Nat
    OBVIOUS
  <2> HIDE DEF Bad
  <2> QED
    BY <2>1, Least
<1>2. i # 0
  BY <1>1 DEF PowersTo
<1>3. f[i - 1] = g[i - 1]
  BY <1>1, <1>2
<1> QED
  BY <1>1, <1>2, <1>3 DEF PowersTo

\* So Power is what its definition says.
LEMMA PowerIs == Power = [n \in Nat |-> IF n = 0 THEN 1 ELSE 2 * Power[n - 1]]
<1> DEFINE Value(n) == (CHOOSE e : PowersTo(e, n))[n]
           g == [n \in Nat |-> Value(n)]
<1>1. \A n \in Nat : PowersTo(CHOOSE e : PowersTo(e, n), n)
  BY PowersExist
<1>2. \A n \in Nat : Value(n) = IF n = 0 THEN 1 ELSE 2 * Value(n - 1)
  <2> SUFFICES ASSUME NEW n \in Nat PROVE Value(n) = IF n = 0 THEN 1 ELSE 2 * Value(n - 1)
    OBVIOUS
  <2> DEFINE f == CHOOSE e : PowersTo(e, n)
             h == CHOOSE e : PowersTo(e, n - 1)
  <2>1. PowersTo(f, n) /\ Value(n) = f[n]
    BY <1>1
  <2>2. CASE n = 0
    BY <2>1, <2>2 DEF PowersTo
  <2>3. CASE n # 0
    <3>1. n - 1 \in Nat /\ PowersTo(h, n - 1) /\ Value(n - 1) = h[n - 1]
      BY <1>1, <2>3
    <3> HIDE DEF f, h, Value
    <3>2. f[n - 1] = h[n - 1]
      BY <2>1, <3>1, PowersAgree
    <3>3. n \in 0 .. n /\ f[n] = 2 * f[n - 1]
      BY <2>1, <2>3 DEF PowersTo
    <3> QED
      BY <2>1, <2>3, <3>1, <3>2, <3>3
  <2> QED
    BY <2>2, <2>3
<1> HIDE DEF Value
<1>3. g = [n \in Nat |-> IF n = 0 THEN 1 ELSE 2 * g[n - 1]]
  BY <1>2
<1> HIDE DEF g
<1> QED
  BY <1>3 DEF Power

\* And none is zero.
LEMMA PowerPositive == \A n \in Nat : Power[n] \in Nat \ {0}
<1> DEFINE Bad == {n \in Nat : Power[n] \notin Nat \ {0}}
<1> SUFFICES ASSUME Bad # {} PROVE FALSE
  OBVIOUS
<1>5. PICK n \in Bad : \A m \in Bad : n <= m
  <2>1. Bad \in SUBSET Nat
    OBVIOUS
  <2> HIDE DEF Bad
  <2> QED
    BY <2>1, Least
<1>6. n = 0 => Power[n] = 1
  BY <1>5, PowerIs
<1>7. n # 0 => Power[n] = 2 * Power[n - 1] /\ Power[n - 1] \in Nat \ {0}
  <2> SUFFICES ASSUME n # 0 PROVE Power[n] = 2 * Power[n - 1] /\ Power[n - 1] \in Nat \ {0}
    OBVIOUS
  <2>1. n \in Nat /\ n - 1 \in Nat /\ n - 1 \notin Bad
    BY <1>5
  <2>2. Power[n] = 2 * Power[n - 1]
    BY <2>1, PowerIs
  <2> QED
    BY <2>1, <2>2
<1> QED
  BY <1>5, <1>6, <1>7

\* A prefix has at least one upper half.
LEMMA SizePositive == ASSUME NEW bits \in Nat, bits <= Half PROVE Size(bits) \in Nat \ {0}
BY PowerPositive, HalfAssumption DEF Size

\* A number is some steps of s and what is left.
LEMMA Steps ==
    ASSUME NEW m \in Nat, NEW s \in Nat \ {0}
    PROVE  m % s \in 0 .. s - 1 /\ m - (m % s) \in Nat /\ \E q \in Nat : m - (m % s) = s * q
<1>1. m % s \in 0 .. s - 1
  OBVIOUS
<1>2. m = s * (m \div s) + (m % s) /\ m \div s \in Nat
  OBVIOUS
<1> DEFINE q == m \div s
           r == m % s
           x == s * q
<1>3. q \in Nat /\ r \in Nat /\ x \in Nat /\ m = x + r
  BY <1>1, <1>2
<1>4. m - r = x
  <2> HIDE DEF q, r, x
  <2> QED
    BY <1>3
<1>5. m - r \in Nat
  BY <1>3, <1>4
<1> QED
  BY <1>1, <1>3, <1>4, <1>5

\* What is left of some steps and less than one more.
LEMMA Left ==
    ASSUME NEW q \in Nat, NEW s \in Nat \ {0}, NEW i \in 0 .. s - 1
    PROVE  (s * q + i) % s = i
OBVIOUS

\* netip.Prefix.Masked: what lies in the subnets of a prefix has the prefix's own bits.
LEMMA MaskedInside ==
    ASSUME NEW bits \in Nat, NEW upper \in Nat, bits <= Half, NEW id \in 0 .. Size(bits) - 1
    PROVE  LET base == Masked([bits |-> bits, upper |-> upper]).upper
           IN base \in Nat /\ Masked([bits |-> bits, upper |-> base + id]).upper = base
<1>1. Size(bits) \in Nat \ {0} /\ Half \in Nat
  BY SizePositive, HalfAssumption
<1>2. CASE bits = Half
  <2>1. Size(bits) = 1
    <3>1. Power[0] = 1
      BY PowerIs
    <3> QED
      BY <1>1, <1>2, <3>1 DEF Size
  <2> QED
    BY <1>2, <2>1 DEF Masked
<1>3. CASE bits < Half
  <2> DEFINE s == Size(bits)
             base == upper - (upper % s)
  <2>1. PICK q \in Nat : base = s * q
    BY <1>1, Steps
  <2>2. base \in Nat
    BY <1>1, Steps
  <2>3. (base + id) % s = id
    BY <1>1, <2>1, Left
  <2>4. /\ Masked([bits |-> bits, upper |-> upper]).upper = base
        /\ Masked([bits |-> bits, upper |-> base + id]).upper = (base + id) - ((base + id) % s)
    BY <1>1, <1>3 DEF Masked
  <2> QED
    BY <2>2, <2>3, <2>4
<1> QED
  BY <1>1, <1>2, <1>3
-----------------------------------------------------------------------------
(***************************************************************************)
(* What is cut from a delegation.                                          *)
(***************************************************************************)
\* Masking a prefix a second time changes nothing.
LEMMA MaskedPrefix ==
    ASSUME NEW bits \in Nat, NEW upper \in Nat
    PROVE  LET m == Masked([bits |-> bits, upper |-> upper])
           IN m = [bits |-> bits, upper |-> m.upper] /\ m.upper \in Nat /\ Masked(m) = m
<1> DEFINE p == [bits |-> bits, upper |-> upper]
           m == Masked(p)
<1>1. m = [bits |-> bits, upper |-> m.upper]
  BY DEF Masked
<1>2. CASE bits >= Half
  BY <1>2 DEF Masked
<1>3. CASE bits < Half
  <2>1. Size(bits) \in Nat \ {0} /\ bits <= Half
    BY <1>3, SizePositive, HalfAssumption
  <2>2. 0 \in 0 .. Size(bits) - 1
    BY <2>1
  <2>3. m.upper \in Nat /\ Masked([bits |-> bits, upper |-> m.upper + 0]).upper = m.upper
    BY <2>1, <2>2, MaskedInside
  <2>4. Masked(m).upper = m.upper
    <3>1. m.upper + 0 = m.upper
      BY <2>3
    <3> HIDE DEF m
    <3> QED
      BY <1>1, <2>3, <3>1
  <2>5. Masked(m) = [bits |-> bits, upper |-> Masked(m).upper]
    <3> HIDE DEF m
    <3> QED
      BY <1>1 DEF Masked
  <2> QED
    BY <1>1, <2>3, <2>4, <2>5
<1> QED
  BY <1>2, <1>3, HalfAssumption

\* Cut: an address is cut from the one prefix that is held, in the subnet that was asked for.
LEMMA AddressInside ==
    ASSUME NEW prefixes, NEW derived, Address(prefixes, derived) # None,
           \A x \in prefixes : \E bits \in Nat, upper \in Nat : x = [bits |-> bits, upper |-> upper]
    PROVE  \E x \in prefixes :
              LET address == Address(prefixes, derived)
                  base == Masked(x).upper
              IN /\ Cardinality(prefixes) = 1
                 /\ Masked([bits |-> x.bits, upper |-> address.upper]).upper = base
                 /\ address.upper - base = IF derived.subnet = None THEN 0 ELSE derived.subnet
                 /\ address.host = derived.token
<1> DEFINE x == CHOOSE p \in prefixes : TRUE
           id == IF derived.subnet = None THEN 0 ELSE derived.subnet
           d == Masked(x)
<1>1. Subnet(prefixes, derived) # None /\ Address(prefixes, derived) = [upper |-> Subnet(prefixes, derived), host |-> derived.token]
  BY DEF Address
<1>2. Delegation(prefixes) # None
  BY <1>1 DEF Subnet
<1>3. Cardinality(prefixes) = 1 /\ Delegation(prefixes) = d
  BY <1>2 DEF Delegation
<1>4. x \in prefixes
  <2>1. prefixes # {}
    BY <1>3, FS_EmptySet
  <2> QED
    BY <2>1
<1>5. PICK bits \in Nat : \E upper \in Nat : x = [bits |-> bits, upper |-> upper]
  BY <1>4
<1>6. PICK upper \in Nat : x = [bits |-> bits, upper |-> upper]
  BY <1>5
<1> HIDE DEF x
<1>7. d = [bits |-> bits, upper |-> d.upper] /\ d.upper \in Nat
  BY <1>6, MaskedPrefix
<1>8. bits <= Half /\ id \in 0 .. Size(bits) - 1 /\ Subnet(prefixes, derived) = d.upper + id
  <2> HIDE DEF d
  <2>1. d.bits = bits
    BY <1>7
  <2> QED
    BY <1>1, <1>2, <1>3, <1>5, <2>1, HalfAssumption DEF Subnet
<1>9. Masked([bits |-> bits, upper |-> d.upper + id]).upper = d.upper
  BY <1>6, <1>8, MaskedInside
<1>10. id \in Nat /\ (d.upper + id) - d.upper = id
  <2>1. Size(bits) \in Nat
    BY <1>8, SizePositive
  <2> HIDE DEF d, id
  <2> QED
    BY <1>7, <1>8, <2>1
<1>11. x.bits = bits
  BY <1>6
<1> HIDE DEF d
<1> QED
  BY <1>1, <1>3, <1>4, <1>8, <1>9, <1>10, <1>11 DEF d

\* As many are named as there are candidates at most.
LEMMA WhatsFinite == ASSUME NEW S, IsFiniteSet(S) PROVE IsFiniteSet({c.what : c \in S})
<1> DEFINE W == {c.what : c \in S}
           f == [c \in S |-> c.what]
<1>1. f \in Surjection(S, W)
  BY DEF Surjection
<1> QED
  BY <1>1, FS_Surjection

\* preferredLongest: where one is held it is one of the candidates, and all that are not it are
\* preferred less long.
LEMMA HeldLongest ==
    ASSUME NEW candidates, IsFiniteSet(candidates), \A c \in candidates : c.until \in Int,
           NEW x \in PreferredLongest(candidates), Cardinality(PreferredLongest(candidates)) = 1
    PROVE  /\ \E c \in candidates : c.what = x
           /\ \A b \in candidates : b.what # x => \E c \in candidates : c.what = x /\ b.until < c.until
<1> DEFINE most == {c \in candidates : \A other \in candidates : other.until <= c.until}
           top == {c.what : c \in most}
           all == {c.what : c \in candidates}
<1>1. IsFiniteSet(top) /\ IsFiniteSet(all)
  <2>1. IsFiniteSet(most)
    BY FS_Subset
  <2> HIDE DEF most
  <2> QED
    BY <2>1, WhatsFinite
<1>2. PreferredLongest(candidates) = IF Cardinality(top) = 1 THEN top ELSE all
  BY DEF PreferredLongest
<1>3. CASE Cardinality(top) = 1
  <2>1. PICK y : top = {y}
    <3> HIDE DEF top
    <3> QED
      BY <1>1, <1>3, FS_Singleton
  <2>2. y = x
    <3> HIDE DEF top
    <3> QED
      BY <1>2, <1>3, <2>1
  <2>3. PICK c \in most : c.what = x
    BY <2>1, <2>2
  <2>4. ASSUME NEW b \in candidates, b.what # x PROVE b.until < c.until
    <3>1. b \notin most
      BY <2>1, <2>2, <2>4
    <3>2. PICK other \in candidates : ~(other.until <= b.until)
      BY <3>1
    <3> QED
      BY <2>3, <3>2
  <2> QED
    BY <2>3, <2>4
<1>4. CASE Cardinality(top) # 1
  <2>1. PICK y : all = {y}
    <3> HIDE DEF all
    <3> QED
      BY <1>1, <1>2, <1>4, FS_Singleton
  <2>2. x \in all /\ x = y
    <3> HIDE DEF all
    <3> QED
      BY <1>2, <1>4, <2>1
  <2> QED
    BY <2>1, <2>2
<1> QED
  BY <1>3, <1>4

\* readAdvertisedDelegations: where an address can be cut from what is advertised, the delegation
\* is that of some address with the token, and what tells of any other is preferred less long.
LEMMA DelegationToldOf ==
    ASSUME NEW advertised, IsFiniteSet(advertised), \A a \in advertised : a.upper \in Nat /\ a.until \in Int,
           NEW x \in DelegationFromAdvertisement(advertised, Token, Length),
           Cardinality(DelegationFromAdvertisement(advertised, Token, Length)) = 1
    PROVE  LET known == WithToken(advertised, Token)
               of(a) == Masked([bits |-> Length, upper |-> a.upper])
           IN /\ \E a \in known : x = of(a)
              /\ \A b \in known : of(b) # x => \E a \in known : of(a) = x /\ b.until < a.until
<1> DEFINE known == WithToken(advertised, Token)
           of(a) == Masked([bits |-> Length, upper |-> a.upper])
           candidates == {[what |-> of(a), until |-> a.until] : a \in known}
<1>1. IsFiniteSet(known) /\ known \subseteq advertised
  BY FS_Subset DEF WithToken
<1> HIDE DEF known, of
<1>2. IsFiniteSet(candidates)
  <2> DEFINE f == [a \in known |-> [what |-> of(a), until |-> a.until]]
  <2>1. f \in Surjection(known, candidates)
    BY DEF Surjection
  <2> QED
    BY <1>1, <2>1, FS_Surjection
<1>3. \A c \in candidates : c.until \in Int
  BY <1>1
<1>4. DelegationFromAdvertisement(advertised, Token, Length) = PreferredLongest(candidates)
  BY DEF DelegationFromAdvertisement, known, of
<1>5. /\ \E c \in candidates : c.what = x
      /\ \A b \in candidates : b.what # x => \E c \in candidates : c.what = x /\ b.until < c.until
  <2> HIDE DEF candidates
  <2> QED
    BY <1>2, <1>3, <1>4, HeldLongest
<1>6. /\ \E a \in known : x = of(a)
      /\ \A b \in known : of(b) # x => \E a \in known : of(a) = x /\ b.until < a.until
  <2>1. \E a \in known : x = of(a)
    BY <1>5
  <2>2. ASSUME NEW b \in known, of(b) # x PROVE \E a \in known : of(a) = x /\ b.until < a.until
    <3>1. PICK c \in candidates : c.what = x /\ [what |-> of(b), until |-> b.until].until < c.until
      BY <1>5, <2>2
    <3> QED
      BY <3>1
  <2> QED
    BY <2>1, <2>2
<1> QED
  BY <1>6 DEF known, of

\* What a turn wants of a key, when it is to be cut from a delegation.
LEMMA WantsCut ==
    ASSUME NEW n, NEW d, NEW k \in Key, want = Desired(n, d), want[k] # None,
           Declaration[d][k].from.as = "delegated"
    PROVE  LET from == Declaration[d][k].from
               address == Address(Delegations(Situation[n], from.interface), from)
           IN address # None /\ want[k].content = address
BY DEF Desired, RecordAddress

\* What the records should hold is what the situation and the declaration make of it.
WantedIs == net \in DOMAIN Situation /\ decl \in DOMAIN Declaration /\ want = Desired(net, decl)

LEMMA StepWanted == WantedIs /\ [Next]_vars => WantedIs'
<1> SUFFICES ASSUME WantedIs, [Next]_vars PROVE WantedIs'
  OBVIOUS
<1>1. CASE UNCHANGED hostVars
  BY <1>1 DEF hostVars, WantedIs
<1>2. ASSUME NEW n \in DOMAIN Situation, Move(n) PROVE WantedIs'
  BY <1>2 DEF Move, WantedIs
<1>3. ASSUME NEW d \in DOMAIN Declaration, Redeclare(d) PROVE WantedIs'
  BY <1>3 DEF Redeclare, WantedIs
<1>4. ASSUME NEW answering, Submitted(answering) \/ Unattended(answering) PROVE UNCHANGED hostVars
  BY <1>4 DEF Submitted, Unattended
<1>5. ASSUME NEW st, Answered(st) \/ Refused(st) \/ Unanswered(st) \/ Elapse(st) PROVE UNCHANGED hostVars
  BY <1>5 DEF Answered, ReadToken, FindZone, FindRecord, Create, Update, Rejected, Refused, Unanswered, Elapse
<1>6. ASSUME NEW k, Delete(k) \/ Edit(k) PROVE UNCHANGED hostVars
  BY <1>6 DEF Delete, Edit
<1>7. ZoneMoves \/ Restart \/ UNCHANGED vars => UNCHANGED hostVars
  BY DEF ZoneMoves, Restart, vars
<1> QED
  BY <1>1, <1>2, <1>3, <1>4, <1>5, <1>6, <1>7 DEF Next, Progress

\* An address that is wanted was cut from a delegation of the site.
LEMMA WantedInside == WantedIs => CutInside
<1> SUFFICES ASSUME WantedIs, NEW k \in Key, Declaration[decl][k].from.as = "delegated", want[k] # None
             PROVE  LET from == Declaration[decl][k].from
                        s == Situation[net]
                        address == want[k].content
                    IN \E p \in s.delegations :
                          /\ Masked([bits |-> p.bits, upper |-> address.upper]).upper = p.upper
                          /\ address.upper - p.upper = IF from.subnet = None THEN 0 ELSE from.subnet
                          /\ address.host = from.token
                          /\ from.interface # "wan" =>
                               \A b \in WithToken(s.advertised, Token) \ Telling(s, p) :
                                  \E a \in Telling(s, p) : b.until < a.until
  BY DEF CutInside
<1> DEFINE from == Declaration[decl][k].from
           s == Situation[net]
           address == want[k].content
           prefixes == Delegations(s, from.interface)
           known == WithToken(s.advertised, Token)
           of(a) == Masked([bits |-> Length, upper |-> a.upper])
<1>1. Address(prefixes, from) # None /\ address = Address(prefixes, from)
  BY WantsCut DEF WantedIs
<1>2. /\ IsFiniteSet(s.leases) /\ s.leases \subseteq [bits : Nat, upper : Nat]
      /\ \A l \in s.leases : \E p \in s.delegations :
            p.bits = l.bits /\ p.upper = Masked([bits |-> l.bits, upper |-> l.upper]).upper
      /\ IsFiniteSet(s.advertised) /\ \A a \in s.advertised : a.upper \in Nat /\ a.until \in Int
      /\ \A a \in known : \E p \in s.delegations :
            p.bits = Length /\ p.upper = of(a).upper
  BY SituationAssumption DEF WantedIs
<1>3. known \subseteq s.advertised /\ Telling(s, [bits |-> Length, upper |-> 0]) \subseteq known
  BY DEF WithToken, Telling
<1> HIDE DEF from, s, address, prefixes, known
<1>4. CASE from.interface = "wan"
  <2>1. prefixes = s.leases
    BY <1>4 DEF prefixes, Delegations
  <2>2. \A x \in prefixes : \E bits \in Nat, upper \in Nat : x = [bits |-> bits, upper |-> upper]
    BY <1>2, <2>1
  <2>3. PICK x \in prefixes :
              /\ Masked([bits |-> x.bits, upper |-> address.upper]).upper = Masked(x).upper
              /\ address.upper - Masked(x).upper = IF from.subnet = None THEN 0 ELSE from.subnet
              /\ address.host = from.token
    BY <1>1, <2>2, AddressInside
  <2>4. x = [bits |-> x.bits, upper |-> x.upper]
    BY <2>2
  <2>5. PICK p \in s.delegations : p.bits = x.bits /\ p.upper = Masked(x).upper
    BY <1>2, <2>1, <2>4
  <2> QED
    BY <1>4, <2>3, <2>5 DEF from, s, address
<1>5. CASE from.interface # "wan"
  <2>1. prefixes = DelegationFromAdvertisement(s.advertised, Token, Length)
    BY <1>5 DEF prefixes, Delegations
  <2>2. \A x \in prefixes : \E a \in known : x = of(a)
    BY <2>1 DEF DelegationFromAdvertisement, PreferredLongest, known
  <2>3. \A a \in known : /\ of(a) = [bits |-> Length, upper |-> of(a).upper]
                         /\ of(a).upper \in Nat /\ Masked(of(a)) = of(a)
    BY <1>2, <1>3, MaskedPrefix, LengthAssumption
  <2> HIDE DEF of
  <2>4. \A x \in prefixes : \E bits \in Nat, upper \in Nat : x = [bits |-> bits, upper |-> upper]
    BY <2>2, <2>3, LengthAssumption
  <2>5. PICK x \in prefixes :
              /\ Cardinality(prefixes) = 1
              /\ Masked([bits |-> x.bits, upper |-> address.upper]).upper = Masked(x).upper
              /\ address.upper - Masked(x).upper = IF from.subnet = None THEN 0 ELSE from.subnet
              /\ address.host = from.token
    BY <1>1, <2>4, AddressInside
  <2>6. /\ \E a \in known : x = of(a)
        /\ \A b \in known : of(b) # x => \E a \in known : of(a) = x /\ b.until < a.until
    BY <1>2, <2>1, <2>5, DelegationToldOf DEF known, of
  <2>7. x.bits = Length /\ Masked(x) = x
    <3>1. PICK a \in known : x = of(a)
      BY <2>6
    <3>2. of(a).bits = Length
      BY <2>3
    <3> QED
      BY <2>3, <3>1, <3>2
  <2>8. PICK p \in s.delegations : p.bits = Length /\ p.upper = x.upper
    BY <1>2, <2>6
  <2>9. Telling(s, p) = {a \in known : of(a) = x}
    <3>1. Telling(s, p) = {a \in known : of(a).upper = p.upper}
      BY DEF Telling, known, of
    <3>2. \A a \in known : of(a).upper = x.upper <=> of(a) = x
      BY <2>2, <2>3
    <3> QED
      BY <2>8, <3>1, <3>2
  <2>10. \A b \in known \ Telling(s, p) : \E a \in Telling(s, p) : b.until < a.until
    BY <2>6, <2>9
  <2> QED
    BY <2>5, <2>7, <2>8, <2>10 DEF from, s, address, known
<1> QED
  BY <1>4, <1>5

\* delegation.go: every address a record should hold that is cut from a delegation lies inside a
\* delegation of the site, in the subnet that was asked for, and where only advertisements tell of
\* them, inside the one that is preferred longest; for prefixes, halves and subnets of any size.
THEOREM CutsInside == Spec => []CutInside
<1>1. Init => WantedIs
  BY DEF Init, WantedIs
<1> QED
  BY <1>1, StepWanted, WantedInside, PTL DEF Spec
=============================================================================
