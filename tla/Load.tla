--------------------------------- MODULE Load -------------------------------
(***************************************************************************)
(* internal/config: a document is checked, searched for values derived     *)
(* from themselves, and given its routing numbers; without a problem it is *)
(* the configuration the renderers take.                                   *)
(***************************************************************************)
EXTENDS Derive, Search, Validate

CONSTANT Document

VARIABLES
    doc,
    at,         \* check, walk, derive or done
    problems

loadVars == <<doc, at, problems>>
vars == <<deriveVars, searchVars, loadVars>>

Resource == DOMAIN doc.resources
-----------------------------------------------------------------------------
\* derivationEdges: the interfaces a resource takes a value from.
Edges(d, i) ==
    LET spec == At(d, i)
        refs == CASE d.resources[i].kind = "Interface" ->
                        LET cut == SelectSeq(spec.addrs, LAMBDA a : a.as = "delegated")
                        IN [j \in DOMAIN cut |-> cut[j].of.ref]
                  [] d.resources[i].kind = "DSLiteTunnel" /\ spec.localFrom # None -> <<spec.localFrom>>
                  [] OTHER -> << >>
        found == SelectSeq(refs, LAMBDA ref : Lookup(d, "Interface", ref) # None)
    IN [j \in DOMAIN found |-> Lookup(d, "Interface", found[j])]

\* A document is a list of resources: what it refers to and finds is one of them.  Parsing
\* has seen to the kinds of its values, and names have an order.
WellFormed(d) ==
    /\ Len(d.resources) \in Nat /\ DOMAIN d.resources = 1 .. Len(d.resources)
    /\ \A i \in DOMAIN d.resources : Edges(d, i) \in Seq(1 .. Len(d.resources))
    /\ \A i \in OfKind(d, "Interface") : \A j \in DOMAIN At(d, i).addrs :
           At(d, i).addrs[j].as \in {"ipv4", "ipv6", "delegated", "advertised"}
    /\ \A i \in OfKind(d, "PortForward") :
           /\ At(d, i).port \in Nat \cup {None}
           /\ At(d, i).range \in (Nat \X Nat) \cup {None}
           /\ At(d, i).egress \in DOMAIN Rank \cup {None}
           /\ At(d, i).target # None => At(d, i).target.family \in DOMAIN FamilyRank
    /\ \A i \in OfKind(d, "EgressRoutePolicy") :
           /\ d.resources[i].name \in DOMAIN Rank \cup {None}
           /\ At(d, i).family \in DOMAIN FamilyRank
           /\ At(d, i).priority \in Int \cup {None}

ASSUME DocumentAssumption == \A d \in Document : WellFormed(d)

ASSUME NoneAssumption == None \notin {"tcp", "udp"}

\* The checks that look at the document as it stands.
Check ==
    /\ at = "check"
    /\ problems' = Problems(doc)
    /\ at' = "walk"
    /\ UNCHANGED <<deriveVars, searchVars, doc>>

\* checkDerivationCycles.
SearchStep == at = "walk" /\ Searches /\ UNCHANGED <<deriveVars, loadVars>>

Walked ==
    /\ at = "walk" /\ Searched
    /\ at' = "derive"
    /\ UNCHANGED <<deriveVars, searchVars, doc, problems>>

\* deriveRouting.
DeriveStep == at = "derive" /\ Derives /\ UNCHANGED <<searchVars, loadVars>>

\* Validate returns a configuration when nothing was found.
Finish ==
    /\ at = "derive" /\ loop = "done"
    /\ at' = "done" /\ problems' = problems \cup clashes \cup Refuse(cyclic, "cycle")
    /\ UNCHANGED <<deriveVars, searchVars, doc>>

\* What the loops are given: the policies, and the forwards that name an uplink and a target.
PoliciesOf(d) ==
    [i \in OfKind(d, "EgressRoutePolicy") |->
        [name |-> d.resources[i].name, family |-> At(d, i).family, priority |-> At(d, i).priority,
         table |-> At(d, i).table, mark |-> At(d, i).mark]]

ForwardsOf(d) ==
    {[uplink |-> At(d, i).egress, family |-> At(d, i).target.family] :
        i \in {j \in OfKind(d, "PortForward") : At(d, j).egress # None /\ At(d, j).target # None}}

Init ==
    /\ doc \in Document
    /\ policies = PoliciesOf(doc) /\ forwards = ForwardsOf(doc)
    /\ graph = [i \in Resource |-> Edges(doc, i)]
    /\ Begun /\ SearchBegun
    /\ at = "check" /\ problems = {}

Next == Check \/ SearchStep \/ Walked \/ DeriveStep \/ Finish

LoadSpec == Init /\ [][Next]_vars /\ WF_vars(Next)
-----------------------------------------------------------------------------
(***************************************************************************)
(* What the renderers cannot express, and refuse.                          *)
(***************************************************************************)
LinkOf(ref) == Resolve(doc, Links, ref)
Specs(kind) == {At(doc, i) : i \in OfKind(doc, kind)}

\* internal/render/nftables: a name that is no link, zone or set, a forward without a target,
\* a policy without a mark.
RulesetComplaints ==
    (UNION {Refuse(\E r \in ToSet(z.links) : LinkOf(r) = None, "zone link") : z \in Specs("FirewallZone")})
    \cup (UNION {Refuse(LinkOf(s.egress) = None, "egress") : s \in Specs("SourceNAT") \cup Specs("PortForward")})
    \cup (UNION {Refuse(f.target = None, "target") : f \in Specs("PortForward")})
    \cup (UNION {Refuse(\/ Lookup(doc, "FirewallZone", p.from) = None
                        \/ p.to # "self" /\ Lookup(doc, "FirewallZone", p.to) = None, "zone") :
                  p \in Specs("FirewallPolicy")})
    \cup (UNION {Refuse(\E ref \in ToSet(r.srcRefs \o r.dstRefs) : Lookup(doc, "IPAddressSet", ref) = None, "set") :
                  r \in UNION {ToSet(p.rules) : p \in Specs("FirewallPolicy")}})
    \cup (UNION {Refuse(routing[k].mark = None, "mark") : k \in Position})

CutFromAdvertised(a) ==
    a.as = "delegated" /\ LET i == Lookup(doc, "Interface", a.of.ref) IN i # None /\ At(doc, i).adv # None

\* The .network files of links, by the names they are written under; those of the ports of a
\* bridge, which are named after both, are left out.
NetworkFiles ==
    {<<i, doc.resources[i].name>> : i \in OfKind(doc, "Interface") \cup OfKind(doc, "DSLiteTunnel")}
    \cup {<<i, doc.resources[i].name>> : i \in {j \in OfKind(doc, "PPPoESession") :
            \/ At(doc, j).routes # << >>
            \/ \E p \in Specs("EgressRoutePolicy") : p.egress = doc.resources[j].name
            \/ \E r \in DOMAIN returns : r.uplink = doc.resources[j].name}}

\* delegatedAddress and cutAddress: an upstream that is not declared, a token that is no
\* address, two addresses networkd would have to derive on one link.
AddressComplaints(s) ==
    (UNION {Refuse(a.as = "delegated" /\ Lookup(doc, "Interface", a.of.ref) = None, "upstream")
           \cup Refuse(CutFromAdvertised(a) /\ (a.of.token = None \/ a.of.token = << >>), "token") :
              a \in ToSet(s.addrs)})
    \cup Refuse(Len(SelectSeq(s.addrs, LAMBDA a : a.as = "delegated" /\ ~CutFromAdvertised(a))) > 1, "two delegated")

\* tunnelLocal: a tunnel with nothing to send from.
TunnelComplaints(s) ==
    LET i == Lookup(doc, "Interface", s.localFrom)
    IN Refuse(/\ s.local = None /\ s.localFrom # None /\ s.localFrom # s.underlay
              /\ \/ i = None
                 \/ \A a \in ToSet(At(doc, i).addrs) : a.as \notin {"ipv6", "delegated"}, "local")

\* checkNameCollisions.
FileComplaints == Refuse(\E f, g \in NetworkFiles : f # g /\ f[2] = g[2], "same file")

\* internal/render/networkd: what Render returns an error for.
NetworkComplaints ==
    (UNION {AddressComplaints(s) : s \in Specs("Interface")})
    \cup (UNION {TunnelComplaints(s) : s \in Specs("DSLiteTunnel")})
    \cup FileComplaints
-----------------------------------------------------------------------------
(***************************************************************************)
(* Properties.                                                             *)
(***************************************************************************)
Loaded == at = "done" /\ problems = {}

\* The state is what the code can have it be.
TypeOK ==
    /\ at \in {"check", "walk", "derive", "done"} /\ loop \in {"pin", "allocate", "returns", "done"}
    /\ visited \in [Resource -> {"unvisited", "onStack", "done"}]
    /\ \A i \in DOMAIN stack : visited[stack[i].node] = "onStack"
    /\ {k \in Resource : visited[k] = "onStack"} = {stack[i].node : i \in DOMAIN stack}
    /\ tables.next >= FirstTable /\ marks.next >= FirstMark

\* derive.go: the numbers are a function of the policies and the forwards alone, not of where
\* they appear in the file: the k-th that was not pinned has the k-th number nobody pinned.
NumbersAsDefined ==
    Loaded =>
      LET d == [egress |-> {policies[k] : k \in Position},
                forwards |-> {[egress |-> f.uplink, family |-> f.family] : f \in forwards}]
      IN /\ \A k \in Position : routing[k] = Number(PolicyTable(d, policies[k]), PolicyMark(d, policies[k]))
         /\ \A r \in Returns(d) : returns[r] = Number(ReturnTable(d, r), ReturnMark(d, r))

\* Render, of both renderers: what validation lets through can be rendered, but for what the
\* schema leaves to the backend, two addresses networkd derives on one link, two files of one
\* name and tokens that are no addresses.
Renderable == Loaded => RulesetComplaints \cup NetworkComplaints \subseteq {"two delegated", "same file", "token"}

\* validate.go checkPortForwardOverlaps: which forward takes a packet is never decided by the
\* order of the rules.
ForwardsApart ==
    Loaded => \A i, j \in OfKind(doc, "PortForward") :
        LET s == At(doc, i)
            t == At(doc, j)
        IN i # j /\ s.egress = t.egress /\ s.proto = t.proto /\ s.target.family = t.target.family =>
             \A n \in Ports(s.port, s.range)[1] .. Ports(s.port, s.range)[2] :
                n \notin Ports(t.port, t.range)[1] .. Ports(t.port, t.range)[2]

\* Loading ends, on a document that refers to itself too.
LoadEnds == <>(at = "done")

\* delegation.go, Address: "Validation refuses a token that is not an interface identifier."
TokensRefused == Loaded => "token" \notin NetworkComplaints
=============================================================================
