----------------------------- MODULE LoadProofs -----------------------------
(***************************************************************************)
(* Loading a document, for any set of documents: the search and the loops  *)
(* that hand out numbers are part of it, so what is proved of them is true *)
(* of every document, and a document that loads has passed the checks.     *)
(***************************************************************************)
EXTENDS Load, SearchProofs, DeriveProofs, FiniteSetTheorems, WellFoundedInduction

\* The search of a document is a search of a graph.
LEMMA InitGraph == Init => IsGraph
<1> SUFFICES ASSUME Init PROVE IsGraph
  OBVIOUS
<1>1. /\ doc \in Document /\ Len(doc.resources) \in Nat /\ Resource = 1 .. Len(doc.resources)
      /\ \A i \in Resource : Edges(doc, i) \in Seq(1 .. Len(doc.resources))
  <2>1. doc \in Document
    BY DEF Init
  <2>2. WellFormed(doc)
    BY <2>1, DocumentAssumption
  <2> QED
    BY <2>1, <2>2 DEF WellFormed, Resource
<1> QED
  BY <1>1 DEF Init, IsGraph

\* validate.go: loading searches the document's references as the search by itself does.
LEMMA LoadSearches == LoadSpec => SearchSpec
<1>1. Init => IsGraph /\ SearchBegun
  BY InitGraph DEF Init
<1>2. [Next]_vars => [Searches]_searchVars
  BY DEF Next, vars, Check, SearchStep, Walked, DeriveStep, Finish
<1> QED
  BY <1>1, <1>2, PTL DEF LoadSpec, SearchSpec

\* derive.go: loading hands out the document's numbers as the loops by themselves do.
LEMMA LoadDerives == LoadSpec => Spec
<1>1. Init => Begun
  BY DEF Init
<1>2. [Next]_vars => [Derives]_deriveVars
  BY DEF Next, vars, Check, SearchStep, Walked, DeriveStep, Finish
<1> QED
  BY <1>1, <1>2, PTL DEF LoadSpec, Spec

\* validate.go: whatever document is loaded, a value derived from itself is reported exactly
\* when there is one.
THEOREM LoadReportsCycles == LoadSpec => []CyclesReported
  BY LoadSearches, CyclesFound, PTL

\* derive.go: whatever document is loaded, no two numbers it is given are the same.
THEOREM LoadNumbersApart == LoadSpec => []NumbersApart
  BY LoadDerives, AlwaysApart, PTL

\* derive.go allocator: whatever document is loaded, a number once given is kept and never
\* given again.
THEOREM LoadNumbersAssigned == LoadSpec => NumbersAssigned
  BY LoadDerives, NumbersAreAssigned, PTL
-----------------------------------------------------------------------------
(***************************************************************************)
(* How far loading is.                                                     *)
(***************************************************************************)
\* The stages follow one another, and so do the loops: no policy misses a number once the
\* uplinks are given theirs.
Staged ==
    /\ at \in {"check", "walk", "derive", "done"} /\ loop \in {"pin", "allocate", "returns", "done"}
    /\ at = "done" => loop = "done"
    /\ loop \in {"returns", "done"} => Unpinned = {}
    /\ Node = Resource

\* derive.go: the loop over the uplinks begins when every policy has its numbers.
LEMMA StagedAlways == LoadSpec => []Staged
<1>1. Init => Staged
  BY DEF Init, Begun, Staged, Node
<1>2. Staged /\ [Next]_vars => Staged'
  <2> SUFFICES ASSUME Staged, [Next]_vars PROVE Staged'
    OBVIOUS
  <2>1. Node' = Node /\ Resource' = Resource
    BY DEF Next, vars, searchVars, loadVars, Check, SearchStep, Walked, DeriveStep, Finish,
           Searches, Enter, Follow, Leave, Node, Resource
  <2>2. CASE UNCHANGED deriveVars
    <3>1. UNCHANGED Unpinned
      BY <2>2 DEF deriveVars, Unpinned, Position
    <3>2. loop' = loop
      BY <2>2 DEF deriveVars
    <3>3. at' \in {"check", "walk", "derive", "done"} /\ (at' = "done" => loop = "done")
      BY DEF Staged, Next, vars, loadVars, Check, SearchStep, Walked, DeriveStep, Finish
    <3> QED
      BY <2>1, <3>1, <3>2, <3>3 DEF Staged
  <2>3. CASE DeriveStep
    <3>1. at = "derive" /\ at' = at
      BY <2>3 DEF DeriveStep, loadVars
    <3>2. CASE \E k \in Position : Pin(k) \/ Allocate(k)
      BY <2>1, <3>1, <3>2 DEF Pin, Allocate, Staged
    <3>3. CASE Pinned
      BY <2>1, <3>1, <3>3 DEF Pinned, Staged
    <3>4. CASE Allocated \/ Returned \/ \E r \in Pending : Return(r)
      <4>1. UNCHANGED Unpinned
        BY <3>4 DEF Allocated, Returned, Return, inputs, Unpinned, Position
      <4> QED
        BY <2>1, <3>1, <3>4, <4>1 DEF Allocated, Returned, Return, Staged
    <3> QED
      BY <2>3, <3>2, <3>3, <3>4 DEF DeriveStep, Derives
  <2> QED
    BY <2>2, <2>3 DEF Next, vars, Check, SearchStep, Walked, Finish
<1> QED
  BY <1>1, <1>2, PTL DEF LoadSpec

\* config.go: loading is always at one of its stages, the search's marks agree with its stack,
\* and the allocators never go back below their first number.
THEOREM LoadTyped == LoadSpec => []TypeOK
<1>1. Staged /\ SInv /\ IInv => TypeOK
  <2> SUFFICES ASSUME Staged, SInv, IInv PROVE TypeOK
    OBVIOUS
  <2>1. visited \in [Resource -> {"unvisited", "onStack", "done"}]
    BY DEF Staged, SInv, SearchShape
  <2>2. \A i \in DOMAIN stack : visited[stack[i].node] = "onStack"
    BY DEF SInv, OnStack, Places
  <2>3. {k \in Resource : visited[k] = "onStack"} = {stack[i].node : i \in DOMAIN stack}
    <3>1. \A i \in DOMAIN stack : stack[i].node \in Resource
      <4> DEFINE T == [node : Resource, edge : Nat \ {0}]
      <4>1. stack \in Seq(T)
        BY DEF Staged, SInv, SearchShape
      <4>2. \A i \in DOMAIN stack : stack[i] \in T
        <5> HIDE DEF T
        <5> QED
          BY <4>1
      <4> QED
        BY <4>2
    <3>2. \A k \in Resource : visited[k] = "onStack" => \E i \in DOMAIN stack : stack[i].node = k
      BY DEF Staged, SInv, OnStack, Places
    <3> QED
      BY <2>2, <3>1, <3>2
  <2> QED
    BY <2>1, <2>2, <2>3 DEF TypeOK, Staged, IInv, Shape
<1> QED
  BY <1>1, StagedAlways, LoadSearches, SearchKnown, LoadDerives, DerivesKnown, PTL
-----------------------------------------------------------------------------
(***************************************************************************)
(* Forwards.                                                               *)
(***************************************************************************)
\* What the checks found is kept.
Checked == doc \in Document /\ (at # "check" => Problems(doc) \subseteq problems)

\* Nothing the checks found is forgotten before the end.
LEMMA CheckedAlways == LoadSpec => []Checked
<1>1. Init => Checked
  BY DEF Init, Checked
<1>2. Checked /\ [Next]_vars => Checked'
  <2> SUFFICES ASSUME Checked, [Next]_vars PROVE Checked'
    OBVIOUS
  <2>1. doc' = doc /\ Problems(doc') = Problems(doc)
    BY DEF Next, vars, loadVars, Check, SearchStep, Walked, DeriveStep, Finish
  <2>2. CASE Check
    BY <2>1, <2>2 DEF Check, Checked
  <2>3. CASE SearchStep \/ DeriveStep \/ UNCHANGED vars
    BY <2>1, <2>3 DEF SearchStep, DeriveStep, vars, loadVars, Checked
  <2>4. CASE Walked \/ Finish
    BY <2>1, <2>4 DEF Walked, Finish, Checked
  <2> QED
    BY <2>2, <2>3, <2>4 DEF Next
<1> QED
  BY <1>1, <1>2, PTL DEF LoadSpec

\* A forward that passed its checks names an uplink, a protocol and a target, and listens on
\* one port or on one range.
LEMMA ForwardComplete ==
    ASSUME Problems(doc) = {}, NEW i \in OfKind(doc, "PortForward")
    PROVE  LET s == At(doc, i)
           IN s.egress # None /\ s.proto \in {"tcp", "udp"} /\ Listens(s) /\ s.target # None
<1>1. i \in DOMAIN doc.resources /\ doc.resources[i].kind = "PortForward"
  BY DEF OfKind
<1>2. CheckResource(doc, i) = {}
  <2>1. CheckResource(doc, i) \subseteq Problems(doc)
    BY <1>1, Zenon DEF Problems
  <2> QED
    BY <2>1
<1>3. CheckPortForward(doc, At(doc, i)) = {}
  BY <1>1, <1>2 DEF CheckResource
<1>4. At(doc, i).egress # None
  <2> SUFFICES ASSUME At(doc, i).egress = None PROVE FALSE
    OBVIOUS
  <2>1. \A k : Lookup(doc, k, None) = None
    BY DEF Lookup
  <2>2. Resolve(doc, Uplinks, None) = None
    BY <2>1 DEF Resolve
  <2>3. CheckThroughUplink(doc, None) # {}
    BY <2>2 DEF CheckThroughUplink, Refuse
  <2> QED
    BY <1>3, <2>3 DEF CheckPortForward
<1>5. At(doc, i).proto \in {"tcp", "udp"} /\ Listens(At(doc, i)) /\ At(doc, i).target # None
  BY <1>3 DEF CheckPortForward, Refuse
<1> QED
  BY <1>4, <1>5

\* The first and the last port of a forward are numbers.
LEMMA PortsAreNumbers ==
    ASSUME doc \in Document, NEW i \in OfKind(doc, "PortForward"), Listens(At(doc, i))
    PROVE  LET p == Ports(At(doc, i).port, At(doc, i).range) IN p[1] \in Int /\ p[2] \in Int
<1>1. /\ At(doc, i).port \in Nat \cup {None}
      /\ At(doc, i).range \in (Nat \X Nat) \cup {None}
  <2>1. WellFormed(doc)
    BY DocumentAssumption
  <2> QED
    BY <2>1 DEF WellFormed
<1>2. CASE At(doc, i).port # None
  BY <1>1, <1>2 DEF Ports
<1>3. CASE At(doc, i).port = None
  <2>1. At(doc, i).range \in Nat \X Nat
    BY <1>1, <1>3 DEF Listens
  <2>2. Ports(At(doc, i).port, At(doc, i).range) = At(doc, i).range
    BY <1>3 DEF Ports
  <2> QED
    BY <2>1, <2>2
<1> QED
  BY <1>2, <1>3

\* validate.go checkPortForwardOverlaps: in no document that loads do two forwards of one
\* uplink, protocol and family share a port, at the ends of their ranges or inside.
THEOREM ForwardsNeverMeet == LoadSpec => []ForwardsApart
<1>1. Checked => ForwardsApart
  <2> SUFFICES ASSUME Checked, Loaded,
                      NEW i \in OfKind(doc, "PortForward"), NEW j \in OfKind(doc, "PortForward"),
                      i # j, At(doc, i).egress = At(doc, j).egress, At(doc, i).proto = At(doc, j).proto,
                      At(doc, i).target.family = At(doc, j).target.family,
                      NEW n \in Ports(At(doc, i).port, At(doc, i).range)[1] .. Ports(At(doc, i).port, At(doc, i).range)[2],
                      n \in Ports(At(doc, j).port, At(doc, j).range)[1] .. Ports(At(doc, j).port, At(doc, j).range)[2]
               PROVE  FALSE
    BY DEF ForwardsApart
  <2> DEFINE a == Ports(At(doc, i).port, At(doc, i).range)
             b == Ports(At(doc, j).port, At(doc, j).range)
  <2>1. Problems(doc) = {} /\ doc \in Document
    BY DEF Checked, Loaded
  <2>2. CheckPortForwardOverlaps(doc) = {}
    <3>1. ASSUME NEW x \in CheckPortForwardOverlaps(doc) PROVE x \in Problems(doc)
      BY <3>1 DEF Problems
    <3> QED
      BY <2>1, <3>1
  <2>3. /\ At(doc, i).egress # None /\ At(doc, i).proto # None /\ Listens(At(doc, i)) /\ At(doc, i).target # None
        /\ At(doc, j).egress # None /\ At(doc, j).proto # None /\ Listens(At(doc, j)) /\ At(doc, j).target # None
    BY <2>1, ForwardComplete, NoneAssumption
  <2>4. a[1] \in Int /\ a[2] \in Int /\ b[1] \in Int /\ b[2] \in Int
    BY <2>1, <2>3, PortsAreNumbers
  <2>5. a[1] <= b[2] /\ b[1] <= a[2]
    BY <2>4
  <2>6. i < j \/ j < i
    <3>1. WellFormed(doc)
      BY <2>1, DocumentAssumption
    <3>2. i \in Nat /\ j \in Nat
      BY <3>1 DEF WellFormed, OfKind
    <3> QED
      BY <3>2
  <2> HIDE DEF a, b
  <2> QED
    BY <2>2, <2>3, <2>5, <2>6 DEF CheckPortForwardOverlaps, Refuse, a, b
<1> QED
  BY <1>1, CheckedAlways, PTL
-----------------------------------------------------------------------------
(***************************************************************************)
(* What passes can be rendered.                                            *)
(***************************************************************************)
\* Nothing is found wrong with a resource of a document that passed.
LEMMA ResourcePassed ==
    ASSUME Problems(doc) = {}, NEW i \in DOMAIN doc.resources
    PROVE  CheckResource(doc, i) = {}
<1>1. CheckResource(doc, i) \subseteq Problems(doc)
  BY Zenon DEF Problems
<1> QED
  BY <1>1

\* Numbers that are some have a least.
LEMMA Least ==
    ASSUME NEW S \in SUBSET Nat, S # {}
    PROVE  \E n \in S : \A m \in S : n <= m
<1>1. PICK n \in S : \A m \in S : ~(<<m, n>> \in OpToRel(<, Nat))
  BY NatLessThanWellFounded, WFMin
<1>2. \A m \in S : ~(m < n)
  BY <1>1 DEF OpToRel
<1> QED
  BY <1>2

\* buildIndex: what a name is found to be is a resource of that kind and name.
LEMMA LookupFinds ==
    ASSUME doc \in Document, NEW kind, NEW name, Lookup(doc, kind, name) # None
    PROVE  /\ Lookup(doc, kind, name) \in OfKind(doc, kind)
           /\ doc.resources[Lookup(doc, kind, name)].name = name
<1> DEFINE found == {i \in OfKind(doc, kind) : doc.resources[i].name = name}
<1>1. found # {} /\ Lookup(doc, kind, name) = CHOOSE i \in found : \A j \in found : i <= j
  BY DEF Lookup
<1>2. found \in SUBSET Nat
  BY DocumentAssumption DEF OfKind, WellFormed
<1>3. \E i \in found : \A j \in found : i <= j
  BY <1>1, <1>2, Least
<1>4. (CHOOSE i \in found : \A j \in found : i <= j) \in found
  BY <1>3
<1> QED
  BY <1>1, <1>4

\* resolve: what is found as one of the kinds of links is found as a link.
LEMMA LinkFound ==
    ASSUME NEW name, NEW n \in 1 .. 3, Lookup(doc, Links[n], name) # None
    PROVE  LinkOf(name) # None
<1>1. DOMAIN Links = 1 .. 3
  BY DEF Links, Uplinks
<1> DEFINE found == {m \in DOMAIN Links : Lookup(doc, Links[m], name) # None}
<1>2. n \in found /\ found \subseteq 1 .. 3
  BY <1>1
<1>3. \E m \in found : \A l \in found : m <= l
  <2>1. CASE 1 \in found
    BY <1>2, <2>1
  <2>2. CASE 1 \notin found /\ 2 \in found
    BY <1>2, <2>2
  <2>3. CASE 1 \notin found /\ 2 \notin found
    BY <1>2, <2>3
  <2> QED
    BY <2>1, <2>2, <2>3
<1>4. (CHOOSE m \in found : \A l \in found : m <= l) \in found
  BY <1>3
<1> QED
  BY <1>2, <1>4 DEF LinkOf, Resolve

\* An uplink is a link.
LEMMA UplinkIsLink ==
    ASSUME NEW name, Resolve(doc, Uplinks, name) # None
    PROVE  LinkOf(name) # None
<1>1. \E n \in DOMAIN Uplinks : Lookup(doc, Uplinks[n], name) # None
  BY DEF Resolve
<1>2. \E n \in 1 .. 2 : Lookup(doc, Uplinks[n], name) # None
  BY <1>1 DEF Uplinks
<1>3. Uplinks[1] = Links[2] /\ Uplinks[2] = Links[3]
  BY DEF Links, Uplinks
<1>4. Lookup(doc, Links[2], name) # None \/ Lookup(doc, Links[3], name) # None
  BY <1>2, <1>3
<1> QED
  BY <1>4, LinkFound

\* internal/render/nftables: the names a ruleset refers to are found, its forwards have a
\* target and its policies a mark.
LEMMA RulesetRenderable ==
    ASSUME Problems(doc) = {}, Unpinned = {}
    PROVE  RulesetComplaints = {}
<1>1. \A i \in OfKind(doc, "FirewallZone") : \A r \in ToSet(At(doc, i).links) : LinkOf(r) # None
  <2> TAKE i \in OfKind(doc, "FirewallZone")
  <2> TAKE r \in ToSet(At(doc, i).links)
  <2>1. i \in DOMAIN doc.resources /\ doc.resources[i].kind = "FirewallZone"
    BY DEF OfKind
  <2>2. CheckFirewallZone(doc, i) = {}
    BY <2>1, ResourcePassed DEF CheckResource
  <2>3. PICK j \in DOMAIN At(doc, i).links : r = At(doc, i).links[j]
    BY DEF ToSet
  <2>4. Refers(doc, Links, r, "linkRefs") = {}
    BY <2>2, <2>3 DEF CheckFirewallZone, Each
  <2> QED
    BY <2>4 DEF Refers, Refuse, LinkOf
<1>2. \A i \in OfKind(doc, "SourceNAT") \cup OfKind(doc, "PortForward") : LinkOf(At(doc, i).egress) # None
  <2> TAKE i \in OfKind(doc, "SourceNAT") \cup OfKind(doc, "PortForward")
  <2>1. i \in DOMAIN doc.resources /\ doc.resources[i].kind \in {"SourceNAT", "PortForward"}
    BY DEF OfKind
  <2>2. CheckThroughUplink(doc, At(doc, i).egress) = {}
    <3>1. CheckResource(doc, i) = {}
      BY <2>1, ResourcePassed
    <3>2. CASE doc.resources[i].kind = "SourceNAT"
      BY <3>1, <3>2 DEF CheckResource
    <3>3. CASE doc.resources[i].kind = "PortForward"
      BY <3>1, <3>3 DEF CheckResource, CheckPortForward
    <3> QED
      BY <2>1, <3>2, <3>3
  <2>3. Resolve(doc, Uplinks, At(doc, i).egress) # None
    BY <2>2 DEF CheckThroughUplink, Refuse
  <2> QED
    BY <2>3, UplinkIsLink
<1>3. \A i \in OfKind(doc, "PortForward") : At(doc, i).target # None
  BY ForwardComplete
<1>4. \A i \in OfKind(doc, "FirewallPolicy") :
        /\ Lookup(doc, "FirewallZone", At(doc, i).from) # None
        /\ At(doc, i).to = "self" \/ Lookup(doc, "FirewallZone", At(doc, i).to) # None
        /\ \A r \in ToSet(At(doc, i).rules) : \A ref \in ToSet(r.srcRefs \o r.dstRefs) :
             Lookup(doc, "IPAddressSet", ref) # None
  <2> TAKE i \in OfKind(doc, "FirewallPolicy")
  <2> DEFINE s == At(doc, i)
  <2>1. i \in DOMAIN doc.resources /\ doc.resources[i].kind = "FirewallPolicy"
    BY DEF OfKind
  <2>2. CheckFirewallPolicy(doc, i) = {}
    BY <2>1, ResourcePassed DEF CheckResource
  <2>3. /\ Lookup(doc, "FirewallZone", s.from) # None
        /\ s.to = "self" \/ Lookup(doc, "FirewallZone", s.to) # None
    BY <2>2 DEF CheckFirewallPolicy, Refuse
  <2>4. ASSUME NEW r \in ToSet(s.rules), NEW ref \in ToSet(r.srcRefs \o r.dstRefs)
        PROVE  Lookup(doc, "IPAddressSet", ref) # None
    <3> DEFINE refs(q) == q.srcRefs \o q.dstRefs
               found(q) == UNION {RefersToSet(doc, refs(q)[n], q.family, "rules") : n \in DOMAIN refs(q)}
    <3>1. PICK n \in DOMAIN refs(r) : ref = refs(r)[n]
      BY DEF ToSet
    <3>2. RefersToSet(doc, ref, r.family, "rules") \subseteq found(r)
      BY <3>1, Zenon
    <3>3. found(r) \subseteq CheckFirewallPolicy(doc, i)
      <4>1. \A j \in DOMAIN s.rules : found(s.rules[j]) \subseteq CheckFirewallPolicy(doc, i)
        <5> TAKE j \in DOMAIN s.rules
        <5> DEFINE one(q) == Required(q.name, "rules") \cup Required(q.action, "rules") \cup found(q)
        <5>1. found(s.rules[j]) \subseteq one(s.rules[j])
          OBVIOUS
        <5>2. one(s.rules[j]) \subseteq UNION {one(s.rules[k]) : k \in DOMAIN s.rules}
          <6> HIDE DEF one
          <6> QED
            OBVIOUS
        <5>3. UNION {one(s.rules[k]) : k \in DOMAIN s.rules} \subseteq CheckFirewallPolicy(doc, i)
          BY Zenon DEF CheckFirewallPolicy, Each
        <5> QED
          BY <5>1, <5>2, <5>3
      <4> QED
        BY <4>1 DEF ToSet
    <3>4. RefersToSet(doc, ref, r.family, "rules") = {}
      BY <2>2, <3>2, <3>3, Zenon
    <3> QED
      BY <3>4 DEF RefersToSet, Refuse
  <2> QED
    BY <2>3, <2>4
<1>5. \A k \in Position : routing[k].mark # None
  BY DEF Unpinned
<1> QED
  BY <1>1, <1>2, <1>3, <1>4, <1>5 DEF RulesetComplaints, Refuse, Specs

\* internal/render/networkd: an address is cut from a declared interface, and a tunnel has an
\* address to send from.
LEMMA NetworkRenderable ==
    ASSUME Problems(doc) = {}, doc \in Document
    PROVE  NetworkComplaints \subseteq {"two delegated", "same file", "token"}
<1>1. ASSUME NEW i \in OfKind(doc, "Interface")
      PROVE  AddressComplaints(At(doc, i)) \subseteq {"two delegated", "token"}
  <2>1. i \in DOMAIN doc.resources /\ doc.resources[i].kind = "Interface"
    BY DEF OfKind
  <2>2. CheckInterface(doc, At(doc, i)) = {}
    BY <2>1, ResourcePassed DEF CheckResource
  <2>3. ASSUME NEW a \in ToSet(At(doc, i).addrs), a.as = "delegated"
        PROVE  Lookup(doc, "Interface", a.of.ref) # None
    <3>1. PICK j \in DOMAIN At(doc, i).addrs : a = At(doc, i).addrs[j]
      BY DEF ToSet
    <3>2. CheckAddress(doc, a) = {}
      BY <2>2, <3>1 DEF CheckInterface, Each
    <3>3. CheckDelegationSource(doc, a.of) = {}
      BY <2>3, <3>2 DEF CheckAddress
    <3> QED
      BY <3>3 DEF CheckDelegationSource, Refuse
  <2> QED
    BY <2>3 DEF AddressComplaints, Refuse
<1>2. ASSUME NEW i \in OfKind(doc, "DSLiteTunnel")
      PROVE  TunnelComplaints(At(doc, i)) = {}
  <2> DEFINE s == At(doc, i)
             n == Lookup(doc, "Interface", s.localFrom)
  <2> SUFFICES ASSUME s.local = None, s.localFrom # None, s.localFrom # s.underlay
               PROVE  n # None /\ \E a \in ToSet(At(doc, n).addrs) : a.as \in {"ipv6", "delegated"}
    BY DEF TunnelComplaints, Refuse
  <2>1. i \in DOMAIN doc.resources /\ doc.resources[i].kind = "DSLiteTunnel"
    BY DEF OfKind
  <2>2. CheckDSLiteTunnel(doc, s) = {}
    BY <2>1, ResourcePassed DEF CheckResource
  <2>3. n # None
    BY <2>2 DEF CheckDSLiteTunnel, Refuse
  <2>4. CheckTunnelLocalAddress(At(doc, n)) = {}
    BY <2>2, <2>3 DEF CheckDSLiteTunnel
  <2> DEFINE ipv6 == {j \in DOMAIN At(doc, n).addrs : At(doc, n).addrs[j].as # "ipv4"}
  <2>5. Cardinality(ipv6) = 1
    BY <2>4 DEF CheckTunnelLocalAddress, Refuse
  <2>6. PICK j \in ipv6 : TRUE
    <3>1. Cardinality({}) = 0
      BY FS_EmptySet
    <3> QED
      BY <2>5, <3>1
  <2>7. At(doc, n).addrs[j].as # "advertised"
    BY <2>4, <2>6 DEF CheckTunnelLocalAddress, Refuse
  <2>8. n \in OfKind(doc, "Interface")
    <3> QED
      BY <2>3, LookupFinds
  <2>9. At(doc, n).addrs[j].as \in {"ipv4", "ipv6", "delegated", "advertised"}
    BY <2>6, <2>8, DocumentAssumption DEF WellFormed
  <2> QED
    BY <2>3, <2>6, <2>7, <2>9 DEF ToSet
<1>3. FileComplaints \subseteq {"same file"}
  BY DEF FileComplaints, Refuse
<1> QED
  BY <1>1, <1>2, <1>3 DEF NetworkComplaints, Specs

\* nftables and networkd Render: whatever passes validation can be rendered, but for two
\* addresses networkd derives on one link, two files of one name and tokens that are no
\* addresses.
THEOREM LoadedRenders == LoadSpec => []Renderable
<1>1. Checked /\ Staged => Renderable
  BY RulesetRenderable, NetworkRenderable DEF Checked, Staged, Loaded, Renderable
<1> QED
  BY <1>1, CheckedAlways, StagedAlways, PTL
-----------------------------------------------------------------------------
(***************************************************************************)
(* The numbers of what loads are those at their places.                    *)
(***************************************************************************)
\* What the loops are given is the document's, and what they refuse is reported.
Entrusted ==
    /\ policies = PoliciesOf(doc) /\ forwards = ForwardsOf(doc)
    /\ at = "done" => clashes \subseteq problems

\* validate.go: the loops work on the document's policies and forwards, and their complaints
\* are among the problems.
LEMMA EntrustedAlways == LoadSpec => []Entrusted
<1>1. Init => Entrusted
  BY DEF Init, Entrusted
<1>2. Entrusted /\ [Next]_vars => Entrusted'
  <2> SUFFICES ASSUME Entrusted, [Next]_vars PROVE Entrusted'
    OBVIOUS
  <2>1. doc' = doc /\ PoliciesOf(doc') = PoliciesOf(doc) /\ ForwardsOf(doc') = ForwardsOf(doc)
    BY DEF Next, vars, loadVars, Check, SearchStep, Walked, DeriveStep, Finish
  <2>2. policies' = policies /\ forwards' = forwards
    BY DEF Next, vars, deriveVars, Check, SearchStep, Walked, DeriveStep, Finish, Derives, inputs,
           Pinned, Allocated, Returned, Pin, Allocate, Return
  <2>3. at' = "done" => clashes' \subseteq problems'
    <3>1. CASE Finish
      BY <3>1 DEF Finish, deriveVars
    <3>2. CASE ~Finish /\ at = "done"
      <4>1. UNCHANGED vars
        BY <3>2 DEF Next, Check, SearchStep, Walked, DeriveStep
      <4>2. clashes' = clashes /\ problems' = problems
        BY <4>1 DEF vars, deriveVars, loadVars
      <4> QED
        BY <3>2, <4>2 DEF Entrusted
    <3>3. CASE ~Finish /\ at # "done"
      BY <3>3 DEF Next, vars, loadVars, Check, SearchStep, Walked, DeriveStep
    <3> QED
      BY <3>1, <3>2, <3>3
  <2> QED
    BY <2>1, <2>2, <2>3 DEF Entrusted
<1> QED
  BY <1>1, <1>2, PTL DEF LoadSpec

\* validate.go: in a document that passed, the policies have names and priorities, and no two
\* of them one name.
LEMMA PassedIsOrderly ==
    ASSUME Problems(doc) = {}, doc \in Document, policies = PoliciesOf(doc), forwards = ForwardsOf(doc)
    PROVE  Orderly /\ IsFiniteSet(Position) /\ IsFiniteSet(forwards)
<1>1. WellFormed(doc)
  BY DocumentAssumption
<1>2. Position = OfKind(doc, "EgressRoutePolicy")
  BY DEF Position, PoliciesOf
<1>3. ASSUME NEW k \in Position
      PROVE  /\ k \in DOMAIN doc.resources /\ doc.resources[k].kind = "EgressRoutePolicy"
             /\ policies[k].name = doc.resources[k].name /\ policies[k].family = At(doc, k).family
             /\ policies[k].priority = At(doc, k).priority
  BY <1>2 DEF OfKind, PoliciesOf
<1>4. ASSUME NEW k \in DOMAIN doc.resources
      PROVE  doc.resources[k].name # None /\ Lookup(doc, doc.resources[k].kind, doc.resources[k].name) = k
  <2> DEFINE refused == Refuse(doc.resources[k].name = None
                               \/ Lookup(doc, doc.resources[k].kind, doc.resources[k].name) # k, "metadata.name")
  <2>1. refused \subseteq CheckNames(doc)
    BY Zenon DEF CheckNames
  <2>2. CheckNames(doc) \subseteq Problems(doc)
    BY Zenon DEF Problems
  <2>3. refused = {}
    <3> HIDE DEF refused
    <3> QED
      BY <2>1, <2>2
  <2> QED
    BY <2>3 DEF Refuse
<1>5. ASSUME NEW k \in Position
      PROVE  /\ policies[k].family \in DOMAIN FamilyRank /\ policies[k].priority \in Int
             /\ policies[k].name \in DOMAIN Rank
  <2>1. CheckEgressRoutePolicy(doc, k) = {}
    <3>1. CheckResource(doc, k) = {}
      BY <1>3, ResourcePassed
    <3> QED
      BY <1>3, <3>1 DEF CheckResource
  <2>2. Required(At(doc, k).priority, "priority") \subseteq CheckEgressRoutePolicy(doc, k)
    BY Zenon DEF CheckEgressRoutePolicy
  <2>3. At(doc, k).priority # None
    BY <2>1, <2>2 DEF Required, Refuse
  <2>4. /\ doc.resources[k].name \in DOMAIN Rank \cup {None} /\ At(doc, k).family \in DOMAIN FamilyRank
        /\ At(doc, k).priority \in Int \cup {None}
    BY <1>1, <1>2 DEF WellFormed
  <2>5. doc.resources[k].name # None
    BY <1>3, <1>4
  <2> QED
    BY <1>3, <2>3, <2>4, <2>5
<1>6. ASSUME NEW k \in Position, NEW l \in Position, policies[k].name = policies[l].name PROVE k = l
  <2>1. /\ Lookup(doc, "EgressRoutePolicy", doc.resources[k].name) = k
        /\ Lookup(doc, "EgressRoutePolicy", doc.resources[l].name) = l
    BY <1>3, <1>4
  <2> QED
    BY <1>3, <1>6, <2>1
<1> DEFINE published == {j \in OfKind(doc, "PortForward") : At(doc, j).egress # None /\ At(doc, j).target # None}
           key(i) == [uplink |-> At(doc, i).egress, family |-> At(doc, i).target.family]
<1>7. forwards = {key(i) : i \in published}
  BY DEF ForwardsOf
<1>8. \A i \in published : /\ key(i).uplink \in DOMAIN Rank /\ key(i).family \in DOMAIN FamilyRank
                            /\ key(i) = [uplink |-> key(i).uplink, family |-> key(i).family]
  BY <1>1 DEF WellFormed
<1>9. Orderly
  <2>1. \A r \in forwards : /\ r.uplink \in DOMAIN Rank /\ r.family \in DOMAIN FamilyRank
                             /\ r = [uplink |-> r.uplink, family |-> r.family]
    <3> HIDE DEF published, key
    <3> QED
      BY <1>7, <1>8
  <2> QED
    BY <1>5, <1>6, <2>1 DEF Orderly
<1>10. IsFiniteSet(DOMAIN doc.resources)
  <2>1. DOMAIN doc.resources = 1 .. Len(doc.resources) /\ Len(doc.resources) \in Nat
    BY <1>1 DEF WellFormed
  <2>2. 1 \in Int /\ Len(doc.resources) \in Int
    BY <2>1
  <2> QED
    BY <2>1, <2>2, FS_Interval
<1>11. IsFiniteSet(Position) /\ IsFiniteSet(published)
  <2>1. Position \in SUBSET DOMAIN doc.resources /\ published \in SUBSET DOMAIN doc.resources
    BY <1>2 DEF OfKind
  <2> HIDE DEF published
  <2> QED
    BY <1>10, <2>1, FS_Subset
<1>12. IsFiniteSet(forwards)
  <2> DEFINE keys == [i \in published |-> key(i)]
  <2>1. forwards = {keys[i] : i \in published}
    <3> HIDE DEF published, key
    <3> QED
      BY <1>7
  <2> HIDE DEF published, keys
  <2> QED
    BY <1>11, <2>1, Counted
<1> QED
  BY <1>9, <1>11, <1>12

\* derive.go: whatever document is loaded, the numbers it is given are a function of its
\* policies and forwards alone, not of the order they are written in.
THEOREM LoadNumbersDefined == LoadSpec => []NumbersAsDefined
<1>1. Checked /\ Staged /\ Entrusted /\ IInv /\ Progress => NumbersAsDefined
  <2> SUFFICES ASSUME Checked, Staged, Entrusted, IInv, Progress, Loaded PROVE NumbersAsDefined
    BY DEF NumbersAsDefined
  <2>1. at = "done" /\ problems = {}
    BY DEF Loaded
  <2>2. Problems(doc) = {} /\ doc \in Document
    BY <2>1 DEF Checked
  <2>3. clashes = {} /\ loop = "done"
    BY <2>1 DEF Entrusted, Staged
  <2>4. policies = PoliciesOf(doc) /\ forwards = ForwardsOf(doc)
    BY DEF Entrusted
  <2>5. Orderly /\ IsFiniteSet(Position) /\ IsFiniteSet(forwards)
    BY <2>2, <2>4, PassedIsOrderly
  <2>6. Shape
    BY DEF IInv
  <2>7. /\ \A k \in Position : routing[k] = Number(PolicyTable(Declared, policies[k]), PolicyMark(Declared, policies[k]))
        /\ \A r \in Returns(Declared) : returns[r] = Number(ReturnTable(Declared, r), ReturnMark(Declared, r))
    BY <2>3, <2>5, <2>6, ClosedForm
  <2> QED
    BY <2>7, Zenon DEF NumbersAsDefined, Declared
<1> QED
  BY <1>1, CheckedAlways, StagedAlways, EntrustedAlways, LoadDerives, ProgressKnown, PTL
=============================================================================
