------------------------------- MODULE Ruleset ------------------------------
(***************************************************************************)
(* The nftables table of a declaration, as internal/render/nftables builds *)
(* it: its chains, and the sets they match on.                             *)
(*                                                                         *)
(* A rule is what it matches and what it does.  Every part of a match is   *)
(* the set of values it lets through, so a part nobody wrote is all of     *)
(* them; a set is named, since only the kernel knows its elements.         *)
(* A list of prefixes is the set of the addresses inside them.             *)
(*                                                                         *)
(* A chain is the set of its rules, each at its place: which loop appended *)
(* it, and the key by which that loop's resources were sorted.  The rules  *)
(* of one resource (of a policy's chain: of one rule) that share a place   *)
(* do the same, and which of them is tried first makes no difference.      *)
(***************************************************************************)
EXTENDS Numbers

CONSTANTS
    Addr, FamilyOf,     \* addresses, and the family of each
    Link,               \* kernel names of links
    Port, Proto

Family == {"ipv4", "ipv6"}
Transport == {"tcp", "udp"}

OfFamily(family, addrs) == {a \in addrs : FamilyOf[a] = family}

\* What a rule that says nothing matches.  A packet of a protocol without ports has port None.
Everything ==
    [at |-> <<0, 0, 0, 0>>, iif |-> Link, oif |-> Link, family |-> Family, proto |-> Proto,
     src |-> Addr, dst |-> Addr, srcSets |-> {}, dstSets |-> {},
     sport |-> Port \cup {None}, dport |-> Port \cup {None}, ct |-> {}, do |-> <<"continue">>]

\* Whether a rule matches packet p while the sets hold what they hold.
Matches(rule, p, held) ==
    /\ p.iif \in rule.iif /\ p.oif \in rule.oif
    /\ FamilyOf[p.dst] \in rule.family /\ p.proto \in rule.proto
    /\ p.src \in rule.src /\ \A s \in rule.srcSets : p.src \in held[s]
    /\ p.dst \in rule.dst /\ \A s \in rule.dstSets : p.dst \in held[s]
    /\ p.sport \in rule.sport /\ p.dport \in rule.dport
    /\ rule.ct \subseteq p.ct

\* The rules of a chain that match.
Hits(chain, p, held) == {rule \in chain : Matches(rule, p, held)}

\* A place, and which of two comes first.
Ahead(a, b) ==
    \/ a[1] < b[1]
    \/ a[1] = b[1] /\ a[2] < b[2]
    \/ a[1] = b[1] /\ a[2] = b[2] /\ a[3] < b[3]
    \/ a[1] = b[1] /\ a[2] = b[2] /\ a[3] = b[3] /\ a[4] < b[4]

First(hits) == CHOOSE h \in hits : \A g \in hits : ~Ahead(g.at, h.at)
Last(hits) == CHOOSE h \in hits : \A g \in hits : ~Ahead(h.at, g.at)
-----------------------------------------------------------------------------
(***************************************************************************)
(* Names and sets.                                                         *)
(***************************************************************************)
\* The kernel name of a link resource: an Interface says which one, an uplink is named after
\* its resource.  The kinds are tried in this order.
LinkName(d, ref) ==
    IF ref \in DOMAIN d.interfaces THEN d.interfaces[ref]
    ELSE IF ref \in d.uplinks THEN ref ELSE None

ZoneLinks(d, z) == {LinkName(d, ref) : ref \in d.zones[z]}

AddressSet(s) == <<"addrset", s>>
UplinkSet(link, family) == <<"uplink", family, link>>

\* The sets of addresses the table declares, with the elements the ruleset itself gives them:
\* those of an address set without an entry cut from the delegated prefix.  Every other set
\* is declared empty, and is filled by what the host comes to know.
Sets(d) ==
    [s \in {AddressSet(n) : n \in DOMAIN d.sets} \cup {UplinkSet(u, f) : u \in d.uplinks, f \in Family} |->
        IF s[1] = "addrset" /\ ~d.sets[s[2]].derived THEN d.sets[s[2]].elements ELSE {}]
-----------------------------------------------------------------------------
(***************************************************************************)
(* Firewall policies.                                                      *)
(***************************************************************************)
\* The ways a rule's source or destination was written: its prefixes, one family at a time,
\* and each of its address sets.
AddressAlternatives(d, addrs, refs) ==
    LET written == {[families |-> {f}, addrs |-> OfFamily(f, addrs), sets |-> {}] :
                      f \in {g \in Family : OfFamily(g, addrs) # {}}}
        named == {[families |-> {d.sets[ref].family}, addrs |-> Addr, sets |-> {AddressSet(ref)}] : ref \in refs}
    IN IF written \cup named = {} THEN {[families |-> Family, addrs |-> Addr, sets |-> {}]}
       ELSE written \cup named

\* Ports without a protocol are the ports of either transport that has them.
ProtocolMatch(r) ==
    IF r.proto # {} THEN r.proto ELSE IF r.sport \cup r.dport # {} THEN Transport ELSE Proto

PortMatch(ports) == IF ports = {} THEN Port \cup {None} ELSE ports

\* The i-th rule of a policy, for one way its source and one way its destination was written.
RuleOf(r, i, s, t) ==
    [Everything EXCEPT
        !.at = <<1, i, 0, 0>>,
        !.family = (IF r.family = None THEN Family ELSE {r.family}) \cap s.families \cap t.families,
        !.proto = ProtocolMatch(r),
        !.src = s.addrs, !.srcSets = s.sets, !.dst = t.addrs, !.dstSets = t.sets,
        !.sport = PortMatch(r.sport), !.dport = PortMatch(r.dport), !.do = <<r.action>>]

\* A slip: a rule's prefixes are for prefixes only, and its sets for sets.
FirewallRulePaired(d, r, i) ==
    {rule \in {RuleOf(r, i, s, t) : s \in AddressAlternatives(d, r.src, r.srcRefs),
                                    t \in AddressAlternatives(d, r.dst, r.dstRefs)} :
        rule.family # {} /\ (rule.srcSets = {}) = (rule.dstSets = {})}

\* One rule of a policy, as the rules it takes: every way its source was written with every
\* way its destination was, where the families agree.
FirewallRule(d, r, i) ==
    {rule \in {RuleOf(r, i, s, t) : s \in AddressAlternatives(d, r.src, r.srcRefs),
                                    t \in AddressAlternatives(d, r.dst, r.dstRefs)} :
        rule.family # {}}

\* A policy's chain: what keeps state first, its rules, and what nothing matched.
PolicyChain(d, p) ==
    (IF p.stateful THEN {[Everything EXCEPT !.ct = {"established"}, !.do = <<"accept">>],
                         [Everything EXCEPT !.at = <<0, 1, 0, 0>>, !.ct = {"invalid"}, !.do = <<"drop">>]}
     ELSE {})
    \cup (UNION {FirewallRule(d, p.rules[i], i) : i \in DOMAIN p.rules})
    \cup {[Everything EXCEPT !.at = <<2, 0, 0, 0>>, !.do = <<p.default>>]}
-----------------------------------------------------------------------------
(***************************************************************************)
(* Which uplink a packet leaves by.                                        *)
(***************************************************************************)
\* A slip: the mark of a connection is put back on the packets of both directions.
RestoreBothWays ==
    [Everything EXCEPT !.ct = {"marked"}, !.do = <<"restore">>]

\* The mark of a connection is put back on its replies, ahead of every policy.
RestoreRule ==
    [Everything EXCEPT !.ct = {"reply", "marked"}, !.do = <<"restore">>]

\* A connection a forward readdressed as it arrived on an uplink is given the uplink's mark.
SaveRule(d, r) ==
    [Everything EXCEPT !.at = <<1, FamilyRank[r.family], Rank[r.uplink], 0>>,
                       !.iif = {LinkName(d, r.uplink)}, !.family = {r.family},
                       !.ct = {"new", "dnat"}, !.do = <<"save", ReturnMark(d, r)>>]

ForwardReturnRules(d) ==
    IF Returns(d) = {} THEN {} ELSE {RestoreRule} \cup {SaveRule(d, r) : r \in Returns(d)}

\* The source of a policy: its ranges of its own family, and each of its address sets.
SourceAlternatives(p) ==
    (IF OfFamily(p.family, p.sources) = {} THEN {} ELSE {[addrs |-> OfFamily(p.family, p.sources), sets |-> {}]})
    \cup {[addrs |-> Addr, sets |-> {AddressSet(ref)}] : ref \in p.refs}

\* A slip: the policies are listed in the order of their names.
PlaceByName(p) == <<2, Rank[p.name], 0, 0>>

\* The policies come in the order they are evaluated in.
PolicyPlace(p) == <<2, FamilyRank[p.family], PriorityOf(p), Rank[p.name]>>

MarkRule(d, p, way) ==
    [Everything EXCEPT !.at = PolicyPlace(p),
                       !.family = {p.family}, !.src = way.addrs, !.srcSets = way.sets,
                       !.dst = Addr \ OfFamily(p.family, p.exclude),
                       !.do = <<"mark", PolicyMark(d, p)>>]

MarkRules(d, p) == {MarkRule(d, p, way) : way \in SourceAlternatives(p)}

\* A slip: the replies of forwards come after the policies.
MarkChainReturnsLast(d) ==
    {[rule EXCEPT !.at = <<3, @[1], @[2], @[3]>>] : rule \in ForwardReturnRules(d)}
    \cup UNION {MarkRules(d, p) : p \in d.egress}

\* The replies of forwards first, and then the policies.
MarkChain(d) == ForwardReturnRules(d) \cup UNION {MarkRules(d, p) : p \in d.egress}
-----------------------------------------------------------------------------
(***************************************************************************)
(* Translation.                                                            *)
(***************************************************************************)
\* What arrives on the uplink.
Arriving(d, f) ==
    [Everything EXCEPT !.at = <<0, Rank[f.name], 0, 0>>,
                       !.iif = {LinkName(d, f.egress)}, !.family = {f.family}, !.proto = {f.proto},
                       !.dport = f.ports, !.do = <<"dnat", f.target, f.tports>>]

\* What comes from anywhere else for the address the uplink holds.
Returning(d, f) ==
    [Arriving(d, f) EXCEPT !.iif = Link \ {LinkName(d, f.egress)},
                           !.dstSets = {UplinkSet(LinkName(d, f.egress), f.family)}]

ForwardDNAT(d, f) == {Arriving(d, f)} \cup IF f.hairpin THEN {Returning(d, f)} ELSE {}

\* A client inside is answered through the router, and one outside keeps its address.
ForwardHairpinSNAT(d, f) ==
    IF f.hairpin
    THEN {[Everything EXCEPT !.at = <<0, Rank[f.name], 0, 0>>,
                             !.iif = Link \ {LinkName(d, f.egress)}, !.ct = {"dnat"},
                             !.family = {f.family}, !.proto = {f.proto},
                             !.dst = {f.target}, !.dport = f.tports, !.do = <<"masquerade">>]}
    ELSE {}

\* A slip: everything that leaves by the uplink is translated.
SourceNATAll(d, n) ==
    {[Everything EXCEPT !.at = <<1, Rank[n.name], 0, 0>>, !.oif = {LinkName(d, n.egress)}, !.do = <<"masquerade">>]}

\* The families a SourceNAT named, or one rule for everything when it named none.
SourceNAT(d, n) ==
    LET out == [Everything EXCEPT !.at = <<1, Rank[n.name], 0, 0>>,
                                  !.oif = {LinkName(d, n.egress)}, !.do = <<"masquerade">>]
        families == {f \in Family : OfFamily(f, n.src) \cup OfFamily(f, n.exclude) # {}}
        narrowed(f) ==
            [out EXCEPT
                !.family = {f},
                !.src = IF OfFamily(f, n.src) = {} THEN Addr ELSE OfFamily(f, n.src),
                !.dst = Addr \ OfFamily(f, n.exclude)]
    IN IF families = {} THEN {out} ELSE {narrowed(f) : f \in families}

DNATChain(d) == UNION {ForwardDNAT(d, f) : f \in d.forwards}

SNATChain(d) == (UNION {ForwardHairpinSNAT(d, f) : f \in d.forwards}) \cup UNION {SourceNAT(d, n) : n \in d.nats}
-----------------------------------------------------------------------------
(***************************************************************************)
(* The hook chains.                                                        *)
(***************************************************************************)
\* A slip: only what goes to the target is let through.
ForwardOpeningOneWay(f) ==
    IF ~f.open THEN {}
    ELSE {[Everything EXCEPT !.at = <<0, Rank[f.name], 0, 0>>, !.ct = {"dnat"}, !.family = {f.family},
                             !.proto = {f.proto}, !.dst = {f.target}, !.dport = f.tports, !.do = <<"accept">>]}

\* What a forward lets through, towards its target and back.
ForwardOpening(f) ==
    LET both == [Everything EXCEPT !.at = <<0, Rank[f.name], 0, 0>>, !.ct = {"dnat"}, !.family = {f.family},
                                   !.proto = {f.proto}, !.do = <<"accept">>]
    IN IF f.open THEN {[both EXCEPT !.dst = {f.target}, !.dport = f.tports],
                       [both EXCEPT !.src = {f.target}, !.sport = f.tports]}
       ELSE {}

\* The policies come by the pair they are written between.
Jump(d, p) ==
    [Everything EXCEPT !.at = <<1, Rank[p.from], Rank[p.to], Rank[p.name]>>, !.iif = ZoneLinks(d, p.from),
                       !.oif = IF p.to = "self" THEN Link ELSE ZoneLinks(d, p.to),
                       !.do = <<"jump", PolicyChain(d, p)>>]

\* A host that declared no policy has no filter chains, and everything passes.
InputChain(d) == {Jump(d, p) : p \in {q \in d.policies : q.to = "self"}}

ForwardChain(d) ==
    (UNION {ForwardOpening(f) : f \in d.forwards}) \cup {Jump(d, p) : p \in {q \in d.policies : q.to # "self"}}
=============================================================================
