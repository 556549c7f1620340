------------------------------- MODULE Records ------------------------------
(***************************************************************************)
(* The DNS records that follow this host's addresses: what                 *)
(* internal/apply/runtime.go reads, what internal/apply/dns.go wants       *)
(* written, the writer of internal/ddns/writer.go with what it remembers,  *)
(* and the provider behind internal/ddns/cloudflare.go.                    *)
(*                                                                         *)
(* A turn reads the host, decides what to write and writes one record      *)
(* after another, in up to three requests each.  Between any two of them   *)
(* the line moves, somebody edits the zone, an answer is lost or the       *)
(* process dies.  All records are in one zone.                             *)
(***************************************************************************)
EXTENDS Delegated

CONSTANTS
    Key,            \* the name and type of each record
    Order,          \* the order records are written in
    Situation,      \* by name, what is delegated to the site and what the host then holds: the
                    \* addresses of its uplink, its leases, those taken from the advertisement
    Declaration,    \* by name, where the address of each key comes from, and its properties
    Token, Length,  \* of the interface that takes its address from the advertisement
    Foreign,        \* what somebody else writes into a record
    MaxChanges      \* how often something moves or goes wrong

ASSUME OrderAssumption ==
    Order \in [Key -> Nat] /\ \A k, other \in Key : Order[k] = Order[other] => k = other

VARIABLES
    net, decl,
    want,           \* what the records should hold, given the two
    changes,        \* how much of MaxChanges was used
    zones,          \* the writer: the zone's identifier, once it was looked up
    records,        \* the writer: the identifier of each record, once it was looked up
    written,        \* the writer: what it last put at the provider
    backoff,        \* the steps an unattended turn leaves for later
    todo,           \* the steps of the turn under way
    call,           \* what the first of them does next
    zone,           \* the provider: the zone's identifier
    held,           \* the provider: the records of each key, by identifier
    doubt           \* the records that may not hold what the writer put there

hostVars == <<net, decl, want>>
writer == <<zones, records, written>>
turn == <<todo, call>>
provider == <<zone, held, doubt>>
vars == <<hostVars, changes, writer, backoff, turn, provider>>

Id == 1 .. 3

ASSUME NoneAssumption == None \notin Id

\* A lease is of a delegation, and so is what is advertised of an address's network.  A prefix
\* of any length may be leased, written with any of its addresses.
ASSUME SituationAssumption ==
    \A n \in DOMAIN Situation :
        LET s == Situation[n]
            Of(p, bits, upper) == p.bits = bits /\ p.upper = Masked([bits |-> bits, upper |-> upper]).upper
        IN /\ IsFiniteSet(s.leases) /\ s.leases \subseteq [bits : Nat, upper : Nat]
           /\ \A l \in s.leases : \E p \in s.delegations : Of(p, l.bits, l.upper)
           /\ IsFiniteSet(s.advertised) /\ \A a \in s.advertised : a.upper \in Nat /\ a.until \in Int
           /\ \A a \in WithToken(s.advertised, Token) : \E p \in s.delegations : Of(p, Length, a.upper)

ASSUME LengthAssumption == Length \in Nat
-----------------------------------------------------------------------------
(***************************************************************************)
(* What is read of the host, and what the records should hold.             *)
(***************************************************************************)
\* readUplinkAddresses: what can be reached from outside, in order.
UplinkAddresses(s) == {a \in s.uplink : a.reachable}

\* readDelegations and readAdvertisedDelegations, per interface.
Delegations(s, interface) ==
    IF interface = "wan" THEN s.leases ELSE DelegationFromAdvertisement(s.advertised, Token, Length)

\* recordAddress: the uplink's first IPv4 address, the address cut from a delegation, or the
\* one taken from the advertisement.
RecordAddress(s, from) ==
    CASE from.as = "uplink" ->
            LET v4 == {a \in UplinkAddresses(s) : a.family = "ipv4"}
            IN IF v4 = {} THEN None ELSE CHOOSE a \in v4 : \A b \in v4 : a.number <= b.number
      [] from.as = "delegated" -> Address(Delegations(s, from.interface), from)
      [] from.as = "advertised" -> AdvertisedAddress(AddressFromAdvertisement(s.advertised, Token))

\* The source a record's address is read from.
SourceOf(from) ==
    CASE from.as = "uplink" -> "uplink"
      [] from.as = "delegated" /\ from.interface = "wan" -> "leases"
      [] OTHER -> "advertised"

Source == {"uplink", "leases", "advertised"}

\* desiredRecord, of each key.
Desired(n, d) ==
    [k \in Key |->
        LET address == RecordAddress(Situation[n], Declaration[d][k].from)
        IN IF address = None THEN None ELSE [content |-> address, proxied |-> Declaration[d][k].proxied]]

Step(k, value) == [key |-> k, value |-> value]

\* records: what a turn would write, where it has an address to write.  A source that does not
\* answer leaves a gap.
Changes(answering) ==
    {st \in {Step(k, want[k]) : k \in {j \in Key : SourceOf(Declaration[decl][j].from) \in answering}} :
        st.value \notin {None, written[st.key]}}
-----------------------------------------------------------------------------
(***************************************************************************)
(* A turn.                                                                 *)
(***************************************************************************)
Idle == todo = {}

\* A submitted turn tries everything.
Submitted(answering) ==
    /\ Idle
    /\ todo' = Changes(answering) /\ call' = "token"
    /\ UNCHANGED <<hostVars, changes, writer, backoff, provider>>

\* An unattended turn tries what is not inside its backoff, starts the backoff of what it
\* tries, and forgets that of what is no longer to be done.
Unattended(answering) ==
    /\ Idle
    /\ todo' = Changes(answering) \ backoff /\ call' = "token"
    /\ backoff' = Changes(answering)
    /\ UNCHANGED <<hostVars, changes, writer, provider>>

Elapse(st) ==
    /\ st \in backoff
    /\ backoff' = backoff \ {st}
    /\ UNCHANGED <<hostVars, changes, writer, turn, provider>>

\* The step being run: the first that is left.
Current(st) == st \in todo /\ \A other \in todo : Order[st.key] <= Order[other.key]

Done(st) == todo' = todo \ {st} /\ call' = "token"
Then(next) == call' = next /\ UNCHANGED todo

Lookup(k, recordID) == IF recordID = None THEN "record" ELSE "update"

\* A slip: the record is looked up in a zone nobody has found.
ReadTokenOnly(st) ==
    /\ Current(st) /\ call = "token"
    /\ Then(Lookup(st.key, records[st.key]))
    /\ UNCHANGED <<hostVars, changes, writer, backoff, provider>>

\* writeRecord: the token is read.
ReadToken(st) ==
    /\ Current(st) /\ call = "token"
    /\ Then(IF zones = None THEN "zone" ELSE Lookup(st.key, records[st.key]))
    /\ UNCHANGED <<hostVars, changes, writer, backoff, provider>>

\* Write: the zone's identifier is asked for once.
FindZone(st) ==
    /\ Current(st) /\ call = "zone"
    /\ zones' = zone
    /\ Then(Lookup(st.key, records[st.key]))
    /\ UNCHANGED <<hostVars, changes, records, written, backoff, provider>>

\* And the record's, once for as long as updating it works.
FindRecord(st) ==
    /\ Current(st) /\ call = "record" /\ zones = zone
    /\ \/ /\ held[st.key] = {}
          /\ Then("create") /\ UNCHANGED records
       \/ \E r \in held[st.key] :
          /\ records' = [records EXCEPT ![st.key] = r.id]
          /\ Then("update")
    /\ UNCHANGED <<hostVars, changes, zones, written, backoff, provider>>

Put(k, id, value) == held' = [held EXCEPT ![k] = {r \in @ : r.id # id} \cup {[id |-> id, value |-> value]}]

\* The identifier the provider gives a new record.
FreshId(k) == CHOOSE id \in Id : id # records[k] /\ \A r \in held[k] : r.id # id

Creates(st) ==
    /\ Current(st) /\ call = "create" /\ zones = zone
    /\ Put(st.key, FreshId(st.key), st.value)

Create(st) ==
    /\ Creates(st)
    /\ records' = [records EXCEPT ![st.key] = FreshId(st.key)]
    /\ written' = [written EXCEPT ![st.key] = st.value]
    /\ doubt' = doubt \ {st.key}
    /\ Done(st)
    /\ UNCHANGED <<hostVars, changes, zones, backoff, zone>>

Updates(st) ==
    /\ Current(st) /\ call = "update" /\ zones = zone
    /\ \E r \in held[st.key] : r.id = records[st.key]
    /\ Put(st.key, records[st.key], st.value)

Update(st) ==
    /\ Updates(st)
    /\ written' = [written EXCEPT ![st.key] = st.value]
    /\ doubt' = doubt \ {st.key}
    /\ Done(st)
    /\ UNCHANGED <<hostVars, changes, zones, records, backoff, zone>>

\* Slips: the identifier is kept whatever became of the record; the write is remembered
\* before it is answered.
ForgetNothing(k) == UNCHANGED <<records, written>>
ForgetAndRemember(k) ==
    /\ records' = [records EXCEPT ![k] = IF call = "update" THEN None ELSE @]
    /\ \E st \in todo : st.key = k /\ written' = [written EXCEPT ![k] = st.value]

\* What a request that failed leaves of the memory.
Forget(k) ==
    /\ records' = [records EXCEPT ![k] = IF call = "update" THEN None ELSE @]
    /\ UNCHANGED written

\* What the provider cannot do: the zone or the record is not the one it was.
Unknown(st) ==
    \/ call \in {"record", "create", "update"} /\ zones # zone
    \/ call = "update" /\ \A r \in held[st.key] : r.id # records[st.key]

Rejected(st) ==
    /\ Current(st) /\ Unknown(st)
    /\ Done(st) /\ Forget(st.key)
    /\ UNCHANGED <<hostVars, changes, zones, backoff, provider>>
-----------------------------------------------------------------------------
(***************************************************************************)
(* Everything else.                                                        *)
(***************************************************************************)
Counted == changes < MaxChanges /\ changes' = changes + 1

\* A slip: not being answered is taken for the record not being there.
RefusedIsAbsent(st) ==
    /\ Counted /\ Current(st)
    /\ IF call = "record" THEN Then("create") ELSE Done(st)
    /\ Forget(st.key)
    /\ UNCHANGED <<hostVars, zones, backoff, provider>>

\* A request that is refused or never arrives, or a token that cannot be read.
Refused(st) ==
    /\ Counted /\ Current(st)
    /\ Done(st) /\ Forget(st.key)
    /\ UNCHANGED <<hostVars, zones, backoff, provider>>

\* A request that is carried out and whose answer is lost.
Unanswered(st) ==
    /\ Counted
    /\ Creates(st) \/ Updates(st)
    /\ doubt' = doubt \cup {st.key}
    /\ Done(st) /\ Forget(st.key)
    /\ UNCHANGED <<hostVars, zones, backoff, zone>>

\* The line, the delegation or the advertisement changes.
Move(n) ==
    /\ Counted /\ n # net
    /\ net' = n /\ want' = Desired(n, decl)
    /\ UNCHANGED <<decl, writer, backoff, turn, provider>>

\* Another declaration is accepted; the backoff is of the one before.
Redeclare(d) ==
    /\ Counted /\ Idle /\ d # decl
    /\ decl' = d /\ want' = Desired(net, d) /\ backoff' = {}
    /\ UNCHANGED <<net, writer, turn, provider>>

\* Somebody deletes or edits a record, or takes the zone away and adds it again.
Delete(k) ==
    /\ Counted /\ held[k] # {}
    /\ held' = [held EXCEPT ![k] = {}] /\ doubt' = doubt \cup {k}
    /\ UNCHANGED <<hostVars, writer, backoff, turn, zone>>

Edit(k) ==
    /\ Counted /\ \E r \in held[k] : Put(k, r.id, Foreign)
    /\ doubt' = doubt \cup {k}
    /\ UNCHANGED <<hostVars, writer, backoff, turn, zone>>

ZoneMoves ==
    /\ Counted
    /\ zone' = CHOOSE id \in Id : id \notin {zone, zones}
    /\ held' = [k \in Key |-> {}] /\ doubt' = Key
    /\ UNCHANGED <<hostVars, writer, backoff, turn>>

\* The process dies, or is stopped, and is started again.
Restart ==
    /\ Counted
    /\ zones' = None /\ records' = [k \in Key |-> None] /\ written' = [k \in Key |-> None]
    /\ backoff' = {} /\ todo' = {} /\ call' = "token"
    /\ UNCHANGED <<hostVars, provider>>
-----------------------------------------------------------------------------
Init ==
    /\ net \in DOMAIN Situation /\ decl \in DOMAIN Declaration /\ want = Desired(net, decl) /\ changes = 0
    /\ zones = None /\ records = [k \in Key |-> None] /\ written = [k \in Key |-> None]
    /\ backoff = {} /\ todo = {} /\ call = "token"
    /\ zone = 1 /\ held = [k \in Key |-> {}] /\ doubt = {}

\* A request that is answered.
Answered(st) == ReadToken(st) \/ FindZone(st) \/ FindRecord(st) \/ Create(st) \/ Update(st) \/ Rejected(st)

\* The turns of the loop, with the host's answers, and what they do when nothing goes wrong.
Progress ==
    \/ Unattended(Source)
    \/ \E st \in todo : Answered(st)
    \/ \E st \in backoff : Elapse(st)

Next ==
    \/ Progress
    \/ \E answering \in SUBSET Source : Submitted(answering) \/ Unattended(answering)
    \/ \E st \in todo : Refused(st) \/ Unanswered(st)
    \/ \E n \in DOMAIN Situation : Move(n)
    \/ \E d \in DOMAIN Declaration : Redeclare(d)
    \/ \E k \in Key : Delete(k) \/ Edit(k)
    \/ ZoneMoves \/ Restart

\* The loop runs a turn at every tick, a turn is bounded and a backoff ends.
Spec == Init /\ [][Next]_vars /\ WF_vars(Progress)
-----------------------------------------------------------------------------
(***************************************************************************)
(* Properties.                                                             *)
(***************************************************************************)
\* The state is what the code can have it be.
TypeOK ==
    /\ zones \in Id \cup {None} /\ zone \in Id /\ records \in [Key -> Id \cup {None}]
    /\ call \in {"token", "zone", "record", "create", "update"}
    /\ call \in {"record", "create", "update"} => zones # None
    /\ call = "update" => \E st \in todo : Current(st) /\ records[st.key] # None
    /\ \A st, other \in todo : st.key = other.key => st = other
    /\ \A k \in Key : records[k] # None => zones # None

\* writer.go Write: absent and not answered are told apart, so whatever fails, is lost or is
\* begun again, no record is ever there twice.
OneRecord == \A k \in Key : \A r, other \in held[k] : r = other

\* writer.go Holds: what the writer remembers putting at the provider is there, but for what
\* somebody else did and what was done without an answer.
MemoryIsTrue ==
    \A k \in Key \ doubt : written[k] # None => {r.value : r \in held[k]} = {written[k]}

Right(k) == {r.value : r \in held[k]} = {want[k]}

\* The address is again the one the writer put there before, and it does not look.
Fooled(k) == k \in doubt /\ written[k] = want[k]

\* ADR 0019: once nothing moves and nothing goes wrong, every record that has an address ends
\* up holding it, whatever failed, was deleted or was answered by nobody before: but in a zone
\* that is not the one this process found, and where it believes it has nothing to write.
RecordFollows ==
    <>[]\A k \in Key : want[k] = None \/ Right(k) \/ Fooled(k) \/ zones \notin {None, zone}

\* The addresses that tell of the delegation, as long as it is the one they were cut from.
Telling(s, p) ==
    {a \in WithToken(s.advertised, Token) : Masked([bits |-> Length, upper |-> a.upper]).upper = p.upper}

\* delegation.go: what is cut anew lies inside a delegation of the site, in the subnet that was
\* asked for; and on a host that is only advertised some of them, in the one that is preferred
\* longest: what tells of any other is preferred less long.
CutInside ==
    \A k \in Key :
        LET from == Declaration[decl][k].from
            s == Situation[net]
            address == want[k].content
        IN from.as = "delegated" /\ want[k] # None =>
             \E p \in s.delegations :
                /\ Masked([bits |-> p.bits, upper |-> address.upper]).upper = p.upper
                /\ address.upper - p.upper = IF from.subnet = None THEN 0 ELSE from.subnet
                /\ address.host = from.token
                /\ from.interface # "wan" =>
                     \A b \in WithToken(s.advertised, Token) \ Telling(s, p) :
                        \E a \in Telling(s, p) : b.until < a.until
=============================================================================
