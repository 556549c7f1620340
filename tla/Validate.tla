------------------------------- MODULE Validate -----------------------------
(***************************************************************************)
(* internal/config/validate.go: what a document is refused for.            *)
(*                                                                         *)
(* A document is its resources in the order they are written.  A resource  *)
(* is referred to by its position, so that two of one name stay apart.     *)
(* A field nobody wrote is None; a list is a sequence.  A token is its two *)
(* halves, or << >> when it is no address; a domain name is its labels     *)
(* (case and the last dot are nothing).  Fields of list entries that only  *)
(* have to be there are left out.                                          *)
(* The checks are the sets of the fields they complain about.              *)
(***************************************************************************)
EXTENDS Numbers, Sequences, SequencesExt

CONSTANTS
    Unreadable,     \* the files CheckSecretFile refuses
    Long            \* the names the kernel does not take for a link

Refuse(cond, field) == IF cond THEN {field} ELSE {}
Required(value, field) == Refuse(value = None, field)
Each(seq, Check(_)) == UNION {Check(seq[i]) : i \in DOMAIN seq}

OfKind(doc, kind) == {i \in DOMAIN doc.resources : doc.resources[i].kind = kind}
At(doc, i) == doc.resources[i].spec

\* buildIndex: the first of a kind keeps its name.
Lookup(doc, kind, name) ==
    LET found == {i \in OfKind(doc, kind) : doc.resources[i].name = name}
    IN IF found = {} \/ name = None THEN None ELSE CHOOSE i \in found : \A j \in found : i <= j

\* resolve: the kinds are tried in their order.
Resolve(doc, kinds, name) ==
    LET found == {n \in DOMAIN kinds : Lookup(doc, kinds[n], name) # None}
    IN IF found = {} THEN None ELSE Lookup(doc, kinds[CHOOSE n \in found : \A m \in found : n <= m], name)

Uplinks == <<"PPPoESession", "DSLiteTunnel">>
Links == <<"Interface">> \o Uplinks

\* A reference that is required and has to resolve.
Refers(doc, kinds, name, field) == Refuse(Resolve(doc, kinds, name) = None, field)

\* resolveAddressSet: a set of the family of the rule that names it.
RefersToSet(doc, name, family, field) ==
    LET i == Lookup(doc, "IPAddressSet", name)
    IN Refuse(i = None, field)
       \cup Refuse(i # None /\ family # None /\ At(doc, i).family \notin {None, family}, field)

CheckFile(path, field) == Required(path, field) \cup Refuse(path \in Unreadable, field)

ExactlyOne(a, b, field) == Refuse((a = None) = (b = None), field)
-----------------------------------------------------------------------------
(***************************************************************************)
(* Names.                                                                  *)
(***************************************************************************)
CheckNames(doc) ==
    UNION {Refuse(doc.resources[i].name = None \/ Lookup(doc, doc.resources[i].kind, doc.resources[i].name) # i,
                  "metadata.name") : i \in DOMAIN doc.resources}

\* Policy routing and strict reverse path filtering exclude each other.
CheckDocument(doc) ==
    Required(doc.name, "metadata.name")
    \cup Refuse(doc.sourceValidation /\ OfKind(doc, "EgressRoutePolicy") # {}, "sourceValidation")

CheckSingletons(doc) == Refuse(Cardinality(OfKind(doc, "DNSForwarder")) > 1, "DNSForwarder")

\* The names that become links: of the uplinks, of the interfaces and of what they enslave.
CheckLinkNames(doc) ==
    (UNION {Refuse(doc.resources[i].name \in Long, "linkname") :
              i \in OfKind(doc, "PPPoESession") \cup OfKind(doc, "DSLiteTunnel")})
    \cup (UNION {Refuse(({At(doc, i).ifname} \cup
                          IF At(doc, i).bridge = None THEN {} ELSE ToSet(At(doc, i).bridge)) \cap Long # {}, "linkname") :
                  i \in OfKind(doc, "Interface")})

\* A port of a bridge carries no address of its own.
CheckBridgeMembers(doc) ==
    LET members == UNION {ToSet(At(doc, i).bridge) : i \in {j \in OfKind(doc, "Interface") : At(doc, j).bridge # None}}
    IN UNION {Refuse(At(doc, i).ifname \in members /\ At(doc, i).addrs # << >>, "bridge") : i \in OfKind(doc, "Interface")}
-----------------------------------------------------------------------------
(***************************************************************************)
(* Values cut from a delegated prefix.                                     *)
(***************************************************************************)
\* isInterfaceIdentifier: nothing where the prefix goes, and something in the host part.
IsInterfaceIdentifier(token) == token # << >> /\ token[1] = 0 /\ token[2] # 0

\* Which interface knows a delegation: it asks for one, or is advertised a subnet of one.
HasDelegation(spec) == spec.pd # None \/ spec.adv # None

CheckDelegationSource(doc, d) ==
    LET i == Lookup(doc, "Interface", d.ref)
    IN Refuse(i = None, "interfaceRef")
       \cup (IF d.ref = None THEN {} ELSE Required(d.subnet, "subnetID"))
       \cup Refuse(i # None /\ ~HasDelegation(At(doc, i)), "interfaceRef")

CheckDerivedAddress(doc, d) ==
    Refuse(d.token = None \/ ~IsInterfaceIdentifier(d.token), "token") \cup CheckDelegationSource(doc, d)

CheckDerivedSubnet(doc, d) == Refuse(d.token # None, "token") \cup CheckDelegationSource(doc, d)

\* Only an Interface's routes may be cut from the delegated prefix.
CheckRoutes(doc, routes, derivable) ==
    Each(routes, LAMBDA r :
        Required(r.dest, "destination")
        \cup (IF r.dest = None \/ r.dest.as # "delegated" THEN {}
              ELSE IF derivable THEN CheckDerivedSubnet(doc, r.dest.of) ELSE {"destination"})
        \cup (IF r.via = None \/ r.via.as # "delegated" THEN {}
              ELSE IF derivable THEN CheckDerivedAddress(doc, r.via.of) ELSE {"via"}))
-----------------------------------------------------------------------------
(***************************************************************************)
(* Links.                                                                  *)
(***************************************************************************)
CheckAdvertisedDelegation(spec) ==
    IF spec.adv = None THEN {}
    ELSE Refuse(spec.adv.length = None \/ spec.adv.length \notin 1 .. 64, "prefixLength")
         \cup Refuse(\A i \in DOMAIN spec.addrs : spec.addrs[i].as # "advertised", "advertisedDelegation")
         \cup Refuse(spec.pd # None, "advertisedDelegation")

CheckWakeOnLan(spec) ==
    IF spec.wol = None THEN {}
    ELSE Refuse(spec.wol = << >> \/ (spec.bridge # None) \/ ~IsInjective(spec.wol), "wakeOnLan")
         \cup Refuse("off" \in ToSet(spec.wol) /\ Cardinality(ToSet(spec.wol)) > 1, "wakeOnLan")

\* An address of an interface.  One cut from an advertised delegation needs a host part,
\* which nobody else makes up.
CheckAddress(doc, a) ==
    CASE a.as = "advertised" -> Refuse(a.token = None \/ ~IsInterfaceIdentifier(a.token), "token")
      [] a.as = "delegated"  ->
            LET i == Lookup(doc, "Interface", a.of.ref)
            IN CheckDelegationSource(doc, a.of)
               \cup Refuse(i # None /\ At(doc, i).adv # None /\ a.of.token = None, "token")
      [] OTHER -> {}

CheckInterface(doc, spec) ==
    Required(spec.ifname, "ifname")
    \cup Each(spec.addrs, LAMBDA a : CheckAddress(doc, a))
    \cup Refuse(Cardinality({i \in DOMAIN spec.addrs : spec.addrs[i].as = "advertised"}) > 1, "addresses")
    \cup CheckAdvertisedDelegation(spec)
    \cup CheckRoutes(doc, spec.routes, TRUE)
    \cup (IF spec.pd = None THEN {}
          ELSE Required(spec.pd.length, "prefixLength") \cup Refuse(spec.pd.duid \in Unreadable, "duidFile"))
    \cup (IF spec.advertise = None THEN {} ELSE Required(spec.advertise.mode, "mode"))
    \cup CheckWakeOnLan(spec)

CheckPPPoESession(doc, spec) ==
    Refers(doc, <<"Interface">>, spec.interface, "interfaceRef")
    \cup CheckFile(spec.user, "userIDFile") \cup CheckFile(spec.password, "passwordFile")
    \cup CheckRoutes(doc, spec.routes, FALSE)

\* The one IPv6 address an interface states, which can be written into the tunnel.
CheckTunnelLocalAddress(named) ==
    LET ipv6 == {j \in DOMAIN named.addrs : named.addrs[j].as # "ipv4"}
    IN Refuse(Cardinality(ipv6) # 1, "localAddressFrom")
       \cup (UNION {Refuse(\/ named.addrs[j].as = "advertised"
                           \/ named.addrs[j].as = "delegated" /\ named.addrs[j].of.token = None,
                           "localAddressFrom") : j \in ipv6})

CheckDSLiteTunnel(doc, spec) ==
    LET i == Lookup(doc, "Interface", spec.localFrom)
    IN Refers(doc, <<"Interface">>, spec.underlay, "underlayRef")
       \cup ExactlyOne(spec.localFrom, spec.local, "localAddress")
       \cup (IF spec.localFrom = None \/ spec.local # None THEN {}
             ELSE Refuse(i = None, "localAddressFrom")
                  \cup IF i = None \/ spec.localFrom = spec.underlay THEN {} ELSE CheckTunnelLocalAddress(At(doc, i)))
       \cup ExactlyOne(spec.aftrHost, spec.aftr, "aftr")
       \cup CheckRoutes(doc, spec.routes, FALSE)
-----------------------------------------------------------------------------
(***************************************************************************)
(* Traffic.                                                                *)
(***************************************************************************)
\* The policies of a family have priorities of their own.
CheckEgressRoutePolicy(doc, i) ==
    LET spec == At(doc, i)
    IN Required(spec.priority, "priority")
       \cup Refers(doc, Uplinks, spec.egress, "egressRef")
       \cup Refuse(spec.sources = {} /\ spec.refs = << >>, "spec")
       \cup Each(spec.refs, LAMBDA ref : RefersToSet(doc, ref, spec.family, "sourceAddressSetRefs"))
       \cup Refuse(/\ spec.priority # None
                   /\ \E j \in OfKind(doc, "EgressRoutePolicy") :
                         /\ j < i /\ At(doc, j).family = spec.family
                         /\ At(doc, j).priority = spec.priority, "priority")

\* A delegated prefix is IPv6, whatever the set says.
CheckIPAddressSet(doc, spec) ==
    LET entry(e, Derived(_, _)) ==
            IF e.as # "delegated" THEN Refuse(e.as # spec.family, "entry")
            ELSE Refuse(spec.family # "ipv6", "entry") \cup Derived(doc, e.of)
    IN Required(spec.family, "family")
       \cup Refuse(spec.addresses = << >> /\ spec.networks = << >>, "spec")
       \cup (IF spec.family = None THEN {}
             ELSE Each(spec.addresses, LAMBDA e : entry(e, CheckDerivedAddress))
                  \cup Each(spec.networks, LAMBDA e : entry(e, CheckDerivedSubnet)))

CheckFirewallZone(doc, i) ==
    Refuse(doc.resources[i].name = "self", "metadata.name")
    \cup Refuse(At(doc, i).links = << >>, "linkRefs")
    \cup Each(At(doc, i).links, LAMBDA ref : Refers(doc, Links, ref, "linkRefs"))

\* A slip: a policy may be written between zones nobody declared.
CheckFirewallPolicyAnyZone(doc, i) ==
    LET spec == At(doc, i)
    IN Required(spec.from, "from") \cup Required(spec.to, "to") \cup Required(spec.default, "defaultAction")

\* Nothing filters what the host itself sends, and one policy covers a pair.
CheckFirewallPolicy(doc, i) ==
    LET spec == At(doc, i)
    IN Refuse(spec.from = "self" \/ Lookup(doc, "FirewallZone", spec.from) = None, "from")
       \cup Refuse(spec.to # "self" /\ Lookup(doc, "FirewallZone", spec.to) = None, "to")
       \cup Required(spec.default, "defaultAction")
       \cup Each(spec.rules, LAMBDA r :
                Required(r.name, "rules") \cup Required(r.action, "rules")
                \cup Each(r.srcRefs \o r.dstRefs, LAMBDA ref : RefersToSet(doc, ref, r.family, "rules")))
       \cup Refuse(\E j \in OfKind(doc, "FirewallPolicy") :
                       j < i /\ At(doc, j).from = spec.from /\ At(doc, j).to = spec.to, "spec")

\* A tunnel is translated at its far end: nothing is published or translated through it here.
CheckThroughUplink(doc, egress) ==
    LET i == Resolve(doc, Uplinks, egress)
    IN Refuse(i = None, "egressRef")
       \cup Refuse(i # None /\ doc.resources[i].kind = "DSLiteTunnel", "egressRef")

\* The ports a forward listens on, and those of its target: the same ones when left out.
Ports(port, range) == IF port # None THEN <<port, port>> ELSE range
TargetPorts(spec) ==
    IF spec.target.port = None /\ spec.target.range = None THEN Ports(spec.port, spec.range)
    ELSE Ports(spec.target.port, spec.target.range)
Width(ports) == ports[2] + 1 - ports[1]

Listens(spec) == (spec.port = None) # (spec.range = None)

CheckPortForward(doc, spec) ==
    CheckThroughUplink(doc, spec.egress)
    \cup Refuse(spec.proto \notin {"tcp", "udp"}, "protocol")
    \cup Refuse(~Listens(spec), "port")
    \cup (IF spec.target = None THEN {"target"}
          ELSE Refuse(spec.target.port # None /\ spec.target.range # None, "target")
               \cup Refuse(Listens(spec) /\ Width(Ports(spec.port, spec.range)) # Width(TargetPorts(spec)), "target"))

\* A slip: only forwards of the same first port are compared.
CheckPortForwardSamePort(doc) ==
    LET forwards == {i \in OfKind(doc, "PortForward") :
                        LET s == At(doc, i) IN s.egress # None /\ s.proto # None /\ Listens(s) /\ s.target # None}
    IN Refuse(\E i, j \in forwards :
                LET s == At(doc, i)
                    t == At(doc, j)
                IN /\ i < j /\ s.egress = t.egress /\ s.proto = t.proto /\ s.target.family = t.target.family
                   /\ Ports(s.port, s.range)[1] = Ports(t.port, t.range)[1], "port")

\* Two forwards never listen on one port of one uplink, for one protocol and family.
CheckPortForwardOverlaps(doc) ==
    LET forwards == {i \in OfKind(doc, "PortForward") :
                        LET s == At(doc, i) IN s.egress # None /\ s.proto # None /\ Listens(s) /\ s.target # None}
    IN Refuse(\E i, j \in forwards :
                LET s == At(doc, i)
                    t == At(doc, j)
                    a == Ports(s.port, s.range)
                    b == Ports(t.port, t.range)
                IN /\ i < j /\ s.egress = t.egress /\ s.proto = t.proto /\ s.target.family = t.target.family
                   /\ a[1] <= b[2] /\ b[1] <= a[2], "port")
-----------------------------------------------------------------------------
(***************************************************************************)
(* Services and records.                                                   *)
(***************************************************************************)
\* A static mapping is inside the subnet and outside the pool.
CheckDHCPServer(doc, spec) ==
    Refers(doc, <<"Interface">>, spec.interface, "interfaceRef")
    \cup Required(spec.subnet, "subnet") \cup Required(spec.pool, "pool")
    \cup Refuse(spec.pool # None /\ spec.pool[2] < spec.pool[1], "pool")
    \cup Each(spec.mappings, LAMBDA a :
            Refuse(spec.subnet # None /\ a \notin spec.subnet[1] .. spec.subnet[2], "staticMappings")
            \cup Refuse(spec.pool # None /\ a \in spec.pool[1] .. spec.pool[2], "staticMappings"))

CheckDNSForwarder(doc, spec) ==
    Refuse(spec.listenOn = << >>, "listenOn") \cup Refuse(spec.upstreams = << >>, "upstreams")
    \cup Each(spec.listenOn, LAMBDA ref : IF ref = "lo" THEN {} ELSE Refers(doc, Links, ref, "listenOn"))

\* An A record follows an uplink; an AAAA record holds what is cut from the delegation, or
\* what an interface takes from the advertisement.
CheckUplinkRecord(doc, r) == Refuse(r.address # None, "address") \cup CheckThroughUplink(doc, r.egress)

CheckDelegatedRecord(doc, r) ==
    Refuse(r.egress # None, "egressRef")
    \cup (IF r.address = None THEN {"address"}
          ELSE IF r.address.as = "advertised"
               THEN LET i == Lookup(doc, "Interface", r.address.of)
                    IN Refuse(i = None, "interfaceRef")
                       \cup IF i = None THEN {}
                            ELSE Refuse(\A j \in DOMAIN At(doc, i).addrs : At(doc, i).addrs[j].as # "advertised",
                                        "interfaceRef")
               ELSE CheckDerivedAddress(doc, r.address.of))

NameInZone(name, zone) == IsSuffix(zone, name)

\* The provider takes no TTL for a proxied record, and otherwise one from a minute to a day.
CheckDNSRecordSet(doc, spec) ==
    Refuse(spec.provider # "cloudflare", "provider")
    \cup Required(spec.zone, "zone") \cup CheckFile(spec.tokenFile, "apiTokenFile")
    \cup Refuse(spec.records = << >>, "records")
    \cup Each(spec.records, LAMBDA r :
            (CASE r.type = "A" -> CheckUplinkRecord(doc, r)
               [] r.type = "AAAA" -> CheckDelegatedRecord(doc, r)
               [] OTHER -> {"type"})
            \cup Refuse(r.names = << >>, "names")
            \cup Refuse(spec.zone # None /\ \E i \in DOMAIN r.names : ~NameInZone(r.names[i], spec.zone), "names")
            \cup Refuse(r.ttl # 0 /\ (r.proxied \/ r.ttl \notin 60 .. 86400), "ttl"))

\* One record at the provider is declared once.
CheckDuplicateDNSRecords(doc) ==
    LET sets == OfKind(doc, "DNSRecordSet")
        entries == UNION {UNION {{<<i, j, k>> : k \in DOMAIN At(doc, i).records[j].names} :
                                   j \in DOMAIN At(doc, i).records} : i \in sets}
        key(e) == <<At(doc, e[1]).records[e[2]].type, At(doc, e[1]).records[e[2]].names[e[3]]>>
    IN Refuse(\E e, f \in entries : e # f /\ key(e) = key(f), "records")
-----------------------------------------------------------------------------
CheckResource(doc, i) ==
    LET spec == At(doc, i)
        kind == doc.resources[i].kind
    IN CASE kind = "Interface" -> CheckInterface(doc, spec)
         [] kind = "PPPoESession" -> CheckPPPoESession(doc, spec)
         [] kind = "DSLiteTunnel" -> CheckDSLiteTunnel(doc, spec)
         [] kind = "EgressRoutePolicy" -> CheckEgressRoutePolicy(doc, i)
         [] kind = "IPAddressSet" -> CheckIPAddressSet(doc, spec)
         [] kind = "FirewallZone" -> CheckFirewallZone(doc, i)
         [] kind = "FirewallPolicy" -> CheckFirewallPolicy(doc, i)
         [] kind = "SourceNAT" -> CheckThroughUplink(doc, spec.egress)
         [] kind = "PortForward" -> CheckPortForward(doc, spec)
         [] kind = "DHCPServer" -> CheckDHCPServer(doc, spec)
         [] kind = "DNSForwarder" -> CheckDNSForwarder(doc, spec)
         [] kind = "DNSRecordSet" -> CheckDNSRecordSet(doc, spec)

\* Everything the checks find, in one pass.  Cycles and routing numbers are found by the
\* loops of module Load.
Problems(doc) ==
    CheckNames(doc) \cup CheckDocument(doc) \cup CheckSingletons(doc)
    \cup (UNION {CheckResource(doc, i) : i \in DOMAIN doc.resources})
    \cup CheckLinkNames(doc) \cup CheckDuplicateDNSRecords(doc)
    \cup CheckPortForwardOverlaps(doc) \cup CheckBridgeMembers(doc)
=============================================================================
