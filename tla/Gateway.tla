------------------------------- MODULE Gateway ------------------------------
(***************************************************************************)
(* What the files of a declaration do to a connection: the table           *)
(* internal/render/nftables wrote, walked by the kernel's hooks, and the   *)
(* routing tables and rules internal/render/networkd wrote, which decide   *)
(* by the mark the walk left.  The kernel is external: it is modelled from *)
(* what the renderers' comments and docs/adr/0013, 0015 and 0020 rely on.  *)
(*                                                                         *)
(* A turn installs the table before networkd reads its files (module       *)
(* Turn), so for a while the two are of different declarations; a          *)
(* connection outlives both.  One connection is tracked at a time.         *)
(***************************************************************************)
EXTENDS Ruleset

CONSTANTS
    Declared,       \* the validated declarations the host may be given, by revision
    Inside,         \* the addresses of hosts inside
    LinkTo,         \* the link each of them is on
    Own,            \* for a link and a family, the address the router holds there
    Uplink,         \* the links that lead outside
    Delegated,      \* the elements a turn writes into an address set with a derived entry
    ClientPort      \* the port a client sends from

VARIABLES
    nft,    \* the revision of the installed table
    chains, \* the installed table
    net,    \* the revision networkd last read
    routing, \* the routing tables and rules it made of it
    up,     \* the uplinks that are up
    conn,   \* the connection the kernel tracks
    sent    \* the last packet, as long as nothing else has changed

host == <<nft, chains, net, routing>>
vars == <<host, up, conn, sent>>

Revision == DOMAIN Declared

FirewallAction == {"accept", "drop", "reject"}

\* The rule the kernel keeps for the main table.
MainPriority == 32766

\* The host: each link holds its own address of a family, if any, and none of those inside.
ASSUME HostAssumption ==
    /\ None \notin Addr \cup Link
    /\ FamilyOf \in [Addr -> Family]
    /\ Uplink \subseteq Link /\ Inside \subseteq Addr /\ LinkTo \in [Inside -> Link \ Uplink]
    /\ Own \in [Link -> [Family -> Addr \cup {None}]]
    /\ \A l \in Link, f \in Family : Own[l][f] # None =>
         /\ FamilyOf[Own[l][f]] = f /\ Own[l][f] \notin Inside
         /\ \A m \in Link \ {l}, g \in Family : Own[m][g] # Own[l][f]
    /\ ClientPort \in Port /\ Transport \subseteq Proto

\* What Validate and the renderers passed of a policy: what it refers to is declared, and what
\* orders and numbers it is its own.
PoliciesPassed(d) ==
    /\ IsFiniteSet(d.egress)
    /\ \A p \in d.egress :
         /\ p.name \in DOMAIN Rank /\ p.family \in Family /\ p.priority \in Int
         /\ p.egress \in d.uplinks /\ p.exclude \subseteq Addr /\ p.sources \subseteq Addr
         /\ p.refs \subseteq DOMAIN d.sets
         /\ p.table \in (Nat \ ReservedTables) \cup {None} /\ p.mark \in (Nat \ {0}) \cup {None}
    /\ \A p, q \in d.egress : p # q =>
         /\ p.name # q.name /\ (p.family = q.family => p.priority # q.priority)
         /\ (p.table = q.table => p.table = None) /\ (p.mark = q.mark => p.mark = None)

\* Of a forward: it is published on a declared uplink, in the family of its target.
ForwardsPassed(d) ==
    /\ IsFiniteSet(d.forwards)
    /\ \A f \in d.forwards :
         /\ f.name \in DOMAIN Rank /\ f.egress \in d.uplinks \cap DOMAIN Rank
         /\ f.target \in Addr /\ f.family = FamilyOf[f.target]
         /\ f.proto \in Transport /\ f.ports \subseteq Port /\ f.tports \subseteq Port
         /\ f.hairpin \in BOOLEAN /\ f.open \in BOOLEAN
    /\ \A f, g \in d.forwards : f.name = g.name => f = g

\* Of the firewall policies: one for a pair of zones, and rules over declared sets, whose
\* elements are of one family.
FiltersPassed(d) ==
    /\ "self" \notin DOMAIN d.zones
    /\ \A p \in d.policies :
         /\ p.from \in DOMAIN d.zones \cap DOMAIN Rank /\ p.to \in (DOMAIN d.zones \cup {"self"}) \cap DOMAIN Rank
         /\ p.name \in DOMAIN Rank /\ p.default \in FirewallAction /\ DOMAIN p.rules \subseteq Nat
         /\ p.stateful \in BOOLEAN
         /\ \A i \in DOMAIN p.rules :
              /\ p.rules[i].family \in Family \cup {None} /\ p.rules[i].action \in FirewallAction
              /\ p.rules[i].src \cup p.rules[i].dst \subseteq Addr
              /\ p.rules[i].srcRefs \cup p.rules[i].dstRefs \subseteq DOMAIN d.sets
    /\ \A p, q \in d.policies : p.from = q.from /\ p.to = q.to => p = q
    /\ \A n \in DOMAIN d.sets :
         /\ d.sets[n].family \in Family /\ d.sets[n].derived \in BOOLEAN
         /\ d.sets[n].elements \subseteq OfFamily(d.sets[n].family, Addr)
         /\ d.sets[n].derived => Delegated[n] \subseteq OfFamily(d.sets[n].family, Addr)

\* Of a SourceNAT: it is on a declared uplink.
SourceNATsPassed(d) ==
    \A n \in d.nats : n.egress \in d.uplinks /\ n.src \subseteq Addr /\ n.exclude \subseteq Addr

\* Of the links: an uplink's name is the name of no Interface, which linkName would take it
\* for, and an Interface is called like no uplink, since networkd's files would meet.
LinksPassed(d) ==
    /\ d.uplinks \subseteq Uplink /\ d.uplinks \cap DOMAIN d.interfaces = {}
    /\ \A i \in DOMAIN d.interfaces : d.interfaces[i] \in Link \ Uplink
    /\ DOMAIN d.defaults \subseteq Nat /\ \A i \in DOMAIN d.defaults : d.defaults[i] \in d.uplinks

\* There are far fewer policies and forwards than numbers before the main table's.
TablesPassed(d) == 2 * Cardinality(d.egress) + Cardinality(d.forwards) < 32000

WellDeclared(d) ==
    /\ PoliciesPassed(d) /\ ForwardsPassed(d) /\ FiltersPassed(d) /\ SourceNATsPassed(d)
    /\ LinksPassed(d) /\ TablesPassed(d)

ASSUME DeclaredAssumption == \A v \in Revision : WellDeclared(Declared[v])

\* Render: the table of a declaration.
Render(d) ==
    [sets |-> Sets(d), mark |-> MarkChain(d), dnat |-> DNATChain(d), snat |-> SNATChain(d),
     input |-> InputChain(d), forward |-> ForwardChain(d), filters |-> d.policies # {}]

Outside == Addr \ (Inside \cup {Own[l][f] : l \in Link, f \in Family})

\* What the sets hold: the elements the ruleset gave them, what turns wrote into those with a
\* derived entry, and the address of each line that is up.
Held ==
    [s \in DOMAIN chains.sets |->
        IF s[1] = "uplink"
        THEN IF s[3] \in up THEN {Own[s[3]][s[2]]} \ {None} ELSE {}
        ELSE IF Declared[nft].sets[s[2]].derived THEN Delegated[s[2]] ELSE chains.sets[s]]
-----------------------------------------------------------------------------
(***************************************************************************)
(* Routing.                                                                *)
(***************************************************************************)
\* renderTableAndRule: a table with the uplink's default route, and the rule that selects it
\* by mark, whose priority is the table's number.
TableAndRule(uplink, family, table, mark) ==
    [uplink |-> uplink, family |-> family, table |-> table, mark |-> mark]

RoutingRules(d) ==
    {TableAndRule(p.egress, p.family, PolicyTable(d, p), PolicyMark(d, p)) : p \in d.egress}
    \cup {TableAndRule(r.uplink, r.family, ReturnTable(d, r), ReturnMark(d, r)) : r \in Returns(d)}

\* The main table: the links inside, then the default route with the lowest metric among the
\* lines that are up.
MainRoute(dst) ==
    IF dst \in Inside THEN LinkTo[dst]
    ELSE LET defaults == Declared[net].defaults
             lines == {i \in DOMAIN defaults : defaults[i] \in up /\ Own[defaults[i]][FamilyOf[dst]] # None}
         IN IF lines = {} THEN None ELSE defaults[CHOOSE i \in lines : \A j \in lines : i <= j]

\* The router's own addresses come first; then the rules, in the order of their priority; a
\* table whose line is down has no route, and the next rule is tried.
Route(dst, mark) ==
    LET chosen == {r \in routing : /\ r.mark = mark /\ r.family = FamilyOf[dst]
                                   /\ r.uplink \in up /\ r.table < MainPriority}
    IN IF chosen = {} THEN MainRoute(dst)
       ELSE (CHOOSE r \in chosen : \A q \in chosen : r.table <= q.table).uplink

Local(dst) == \E l \in (Link \ Uplink) \cup up, f \in Family : Own[l][f] = dst
-----------------------------------------------------------------------------
(***************************************************************************)
(* The hooks.                                                              *)
(***************************************************************************)
\* The mark chain: what it saves on the connection and what it leaves on the packet.  A mark
\* put on the packet ends the walk.
Marked(p, mark) ==
    LET hits == Hits(chains.mark, p, Held)
        ends == {h \in hits : h.do[1] \in {"restore", "mark"}}
        saves == {h \in hits : h.do[1] = "save" /\ \A end \in ends : Ahead(h.at, end.at)}
    IN [conn |-> IF saves = {} THEN mark ELSE Last(saves).do[2],
        packet |-> IF ends = {} THEN 0
                   ELSE IF First(ends).do[1] = "restore" THEN mark ELSE First(ends).do[2]]

\* A filter chain: the first rule that matches decides, and what none matches is dropped.
Accepts(chain, p) ==
    LET hits == Hits(chain, p, Held)
    IN /\ hits # {}
       /\ IF First(hits).do[1] = "jump" THEN First(Hits(First(hits).do[2], p, Held)).do[1] = "accept"
          ELSE First(hits).do[1] = "accept"

Filtered(chain, p) == chains.filters => Accepts(chain, p)

\* What the kernel does with a packet whose destination is translated already: the mark of
\* the connection, and where the packet went.
Walk(p, mark) ==
    LET marks == Marked(p, mark)
        out == Route(p.dst, marks.packet)
        q == [p EXCEPT !.oif = out]
    IN [mark |-> marks.conn, packet |-> q, out |-> out,
        fate |-> IF Local(p.dst)
                 THEN IF Filtered(chains.input, p) THEN "local" ELSE "dropped"
                 ELSE IF out = None THEN "unreachable"
                 ELSE IF Filtered(chains.forward, q) THEN "forwarded" ELSE "dropped"]

Masqueraded(q) == Hits(chains.snat, q, Held) # {}

\* Before routing there is no outgoing link; no rule of those hooks names one.
Packet(iif, src, dst, proto, sport, dport, ct) ==
    [iif |-> iif, oif |-> iif, src |-> src, dst |-> dst, proto |-> proto,
     sport |-> sport, dport |-> dport, ct |-> ct]

\* The packets that open a connection: from a host inside to anywhere it is not connected to
\* directly, and from outside to the address a line holds, or into a routed family.
FirstPackets ==
    {Packet(LinkTo[src], src, dst, proto, ClientPort, dport, {"new"}) :
        src \in Inside, dst \in Addr, proto \in Transport, dport \in Port \ {ClientPort}}
    \cup
    {Packet(u, src, dst, proto, ClientPort, dport, {"new"}) :
        u \in up, src \in Outside, dst \in {Own[l][f] : l \in up, f \in Family} \cup OfFamily("ipv6", Inside),
        proto \in Transport, dport \in Port \ {ClientPort}}

Sendable(p) ==
    /\ p.dst \in Addr /\ FamilyOf[p.src] = FamilyOf[p.dst] /\ p.src # p.dst
    /\ p.iif \in Uplink => /\ Own[p.iif][FamilyOf[p.dst]] # None
                           /\ p.dst \in Inside \/ p.dst = Own[p.iif][FamilyOf[p.dst]]
    /\ ~(p.dst \in Inside /\ p.iif = LinkTo[p.dst])

\* Where a packet arrives after the rules for translating its destination.  A port of the
\* range is kept.
Readdressed(p) ==
    LET hits == Hits(chains.dnat, p, Held)
        do == First(hits).do
    IN IF hits = {} THEN {p}
       ELSE {[p EXCEPT !.dst = do[2], !.dport = port, !.ct = @ \cup {"dnat"}] :
                port \in IF p.dport \in do[3] THEN {p.dport} ELSE do[3]}

\* A slip: a connection whose packet went nowhere is kept.
KeptUnlessDropped(w) == w.fate \in {"forwarded", "unreachable"}

\* A connection is kept once its packet has been sent on.  Those to the router are not followed.
Kept(w) == w.fate = "forwarded"

\* The address a packet carries when it has been sent on, and what becomes of one the link
\* it leaves by has no address for.
SourceOf(w) ==
    IF w.fate = "forwarded" /\ Masqueraded(w.packet)
    THEN Own[w.out][FamilyOf[w.packet.src]] ELSE w.packet.src

Translated(w) == IF SourceOf(w) = None THEN [w EXCEPT !.fate = "unreachable"] ELSE w

\* The first packet of a connection.
Open ==
    /\ conn = None
    /\ \E p \in FirstPackets : Sendable(p) /\ \E w \in {Translated(Walk(p1, 0)) : p1 \in Readdressed(p)} :
         LET q == w.packet
             source == SourceOf(w)
         IN /\ sent' = [dir |-> "first", fate |-> w.fate, out |-> w.out, packet |-> q, src |-> source]
            /\ conn' = IF ~Kept(w) THEN None
                       ELSE [first |-> p, target |-> q.dst, tport |-> q.dport,
                             dnat |-> "dnat" \in q.ct, masq |-> source # p.src, seen |-> source,
                             out |-> w.out, mark |-> w.mark, under |-> nft]
    /\ UNCHANGED <<host, up>>

\* A packet that belongs to no connection and opens none is neither translated nor tracked.
Stray ==
    /\ conn = None
    /\ \E p \in FirstPackets :
         /\ Sendable(p)
         /\ \E w \in {Walk([p EXCEPT !.ct = {"invalid"}], 0)} :
               sent' = [dir |-> "stray", fate |-> w.fate, out |-> w.out, packet |-> w.packet, src |-> p.src]
    /\ UNCHANGED <<host, up, conn>>

\* What the connection's state tells a rule.
Tracked(flags) ==
    flags \cup {"established"} \cup (IF conn.dnat THEN {"dnat"} ELSE {})
    \cup (IF conn.mark # 0 THEN {"marked"} ELSE {})

Delivered(dir, p) ==
    /\ \E w \in {Walk(p, conn.mark)} :
         /\ sent' = [dir |-> dir, fate |-> w.fate, out |-> w.out, packet |-> w.packet, src |-> p.src]
         /\ conn' = [conn EXCEPT !.mark = w.mark]
    /\ UNCHANGED <<host, up>>

\* Another packet from the client.
More ==
    /\ conn # None
    /\ conn.first.iif \in Uplink => conn.first.iif \in up
    /\ Delivered("more", Packet(conn.first.iif, conn.first.src, conn.target, conn.first.proto,
                                ClientPort, conn.tport, Tracked({})))

\* The other end answers the address it saw.  When that is a host on its own link, the answer
\* never passes the router, and the client does not know the sender.
Answer ==
    /\ conn # None
    /\ LET iif == IF conn.target \in Inside THEN LinkTo[conn.target] ELSE conn.out
       IN /\ iif \in Uplink => iif \in up
          /\ IF conn.seen \in Inside /\ conn.target \in Inside /\ LinkTo[conn.seen] = iif
             THEN /\ sent' = [dir |-> "reply", fate |-> "bypassed", out |-> None,
                              packet |-> None, src |-> conn.target]
                  /\ UNCHANGED <<host, up, conn>>
             ELSE Delivered("reply", Packet(iif, conn.target, conn.first.src, conn.first.proto,
                                            conn.tport, ClientPort, Tracked({"reply"})))

\* The connection ends, or is not heard of for long enough.
Close == conn # None /\ conn' = None /\ sent' = None /\ UNCHANGED <<host, up>>

\* A line comes up; one that goes down takes with it what was translated to its address.
LineUp == \E u \in Uplink \ up : up' = up \cup {u} /\ sent' = None /\ UNCHANGED <<host, conn>>

LineDown ==
    \E u \in up : /\ up' = up \ {u} /\ sent' = None
                  /\ conn' = IF conn # None /\ conn.masq /\ conn.out = u THEN None ELSE conn
                  /\ UNCHANGED host

\* A turn over another declaration: the table, and then the files networkd reads.
InstallRuleset ==
    /\ nft = net
    /\ \E v \in Revision \ {nft} : nft' = v /\ chains' = Render(Declared[v])
    /\ sent' = None /\ UNCHANGED <<net, routing, up, conn>>

ReloadNetworkd ==
    /\ nft # net
    /\ net' = nft /\ routing' = RoutingRules(Declared[nft])
    /\ sent' = None /\ UNCHANGED <<nft, chains, up, conn>>

Init ==
    /\ nft \in Revision /\ net = nft
    /\ chains = Render(Declared[nft]) /\ routing = RoutingRules(Declared[net])
    /\ up = {} /\ conn = None /\ sent = None

Next == Open \/ Stray \/ More \/ Answer \/ Close \/ LineUp \/ LineDown \/ InstallRuleset \/ ReloadNetworkd

Spec == Init /\ [][Next]_vars
-----------------------------------------------------------------------------
(***************************************************************************)
(* Properties.                                                             *)
(***************************************************************************)
Chain(rules) == \A rule \in rules : DOMAIN rule = DOMAIN Everything

\* State: the installed tables and the read files are of declared revisions, and the tracked
\* connection and the last packet have the parts the kernel keeps of them.
TypeOK ==
    /\ nft \in Revision /\ net \in Revision /\ up \subseteq Uplink
    /\ Chain(chains.mark) /\ Chain(chains.forward)
    /\ conn # None =>
         /\ conn.first.src \in Addr /\ conn.target \in Addr /\ conn.seen \in Addr
         /\ conn.dnat \in BOOLEAN /\ conn.masq \in BOOLEAN
         /\ conn.out \in Link /\ conn.mark \in Nat /\ conn.under \in Revision
    /\ sent # None =>
         /\ sent.dir \in {"first", "more", "reply", "stray"}
         /\ sent.fate \in {"forwarded", "local", "dropped", "unreachable", "bypassed"}

\* The table and the routing rules are those the connection was opened under.
Settled == conn # None /\ conn.under = nft /\ nft = net

\* The tracked connection came from outside and was readdressed by a forward.
Arrived == conn # None /\ conn.dnat /\ conn.first.iif \in Uplink

\* render.go forwardReturnRules and ADR 0020: the reply to a connection a forward let in
\* leaves by the uplink the connection arrived on, whatever policy covers the answering host.
ReplyLeavesByArrival ==
    /\ sent # None /\ sent.dir = "reply" /\ sent.fate = "forwarded"
    /\ Arrived /\ Settled /\ conn.first.iif \in up
    => sent.out = conn.first.iif

\* render.go forwardReturnRules, chainMark: a readdressed packet goes to the target's link and
\* is never sent back out, the hairpinned one included, when that is a host inside and as long
\* as the policies exclude those.
ForwardReachesTarget ==
    /\ sent # None /\ sent.dir \in {"first", "more"} /\ Settled /\ conn.dnat /\ conn.target \in Inside
    /\ \A p \in Declared[nft].egress : OfFamily(p.family, Inside) \subseteq p.exclude
    => sent.out = LinkTo[conn.target]

\* render.go forwardHairpinSNAT, forwardOpening: every answer to a connection an open forward
\* let in comes back through the router and passes it, between two links of one zone too.
ForwardIsAnswered ==
    /\ sent # None /\ sent.dir = "reply" /\ Settled /\ conn.dnat
    /\ conn.first.iif \in Uplink => conn.first.iif \in up
    /\ \E f \in Declared[nft].forwards : /\ f.open /\ f.proto = conn.first.proto
                                          /\ f.target = conn.target /\ conn.tport \in f.tports
    => sent.fate = "forwarded"

\* What a policy says it is about: its ranges and its sets, without what it excludes.
Covers(d, p, q) ==
    /\ p.family = FamilyOf[q.dst] /\ q.dst \notin p.exclude
    /\ q.src \in p.sources \/ \E ref \in p.refs : q.src \in Held[AddressSet(ref)]

\* configuration.md, "How the pieces fit": a host's own traffic leaves by the uplink of the
\* policy with the lowest priority that covers it, and by the main table when there is none
\* or its line is down, as long as no table was pinned behind the main one.
RoutedByPolicy ==
    /\ sent # None /\ sent.dir = "first" /\ nft = net
    /\ sent.packet.iif \notin Uplink /\ "dnat" \notin sent.packet.ct /\ sent.fate # "local"
    /\ ~Local(sent.packet.dst)
    /\ \A p \in Declared[nft].egress : p.table # None => p.table < MainPriority
    => LET covering == {p \in Declared[nft].egress : Covers(Declared[nft], p, sent.packet)}
           first == CHOOSE p \in covering : \A q \in covering \ {p} : PriorityOf(p) < PriorityOf(q)
       IN sent.out = IF covering # {} /\ first.egress \in up THEN first.egress
                     ELSE MainRoute(sent.packet.dst)

\* What a rule of a policy says, read off the declaration.
Says(d, r, q) ==
    LET side(addr, addrs, refs) ==
            \/ addrs = {} /\ refs = {}
            \/ addr \in addrs
            \/ \E ref \in refs : addr \in Held[AddressSet(ref)]
    IN /\ r.family \in {None, FamilyOf[q.dst]}
       /\ r.proto = {} \/ q.proto \in r.proto
       /\ side(q.src, r.src, r.srcRefs) /\ side(q.dst, r.dst, r.dstRefs)
       /\ r.sport = {} \/ q.sport \in r.sport
       /\ r.dport = {} \/ q.dport \in r.dport

\* The policy between the zones a packet passes lets it through: by its first rule that
\* speaks of the packet, or by its default.
LetThrough(d, p, q) ==
    LET says == {i \in DOMAIN p.rules : Says(d, p.rules[i], q)}
    IN IF p.stateful /\ "invalid" \in q.ct THEN FALSE
       ELSE IF says = {} THEN p.default = "accept"
       ELSE p.rules[CHOOSE i \in says : \A j \in says : i <= j].action = "accept"

\* An open forward lets through what was readdressed, to its target and back.
Opened(f, q) ==
    /\ f.open /\ "dnat" \in q.ct /\ f.proto = q.proto /\ f.family = FamilyOf[q.dst]
    /\ \/ f.target = q.dst /\ q.dport \in f.tports
       \/ f.target = q.src /\ q.sport \in f.tports

\* render.go firewallRule, renderFilterChains: what passes is what the declaration lets
\* through: the policy of the pair of zones, read rule by rule, and the openings of forwards,
\* as long as no link is in two zones.  A pair without a policy is dropped, and a host without
\* policies filters nothing.
FilteredAsDeclared ==
    /\ sent # None /\ sent.dir \in {"first", "stray"} /\ sent.fate # "unreachable"
    /\ \A y, z \in DOMAIN Declared[nft].zones :
         y # z => ZoneLinks(Declared[nft], y) \cap ZoneLinks(Declared[nft], z) = {}
    => LET d == Declared[nft]
           q == sent.packet
           pair == {p \in d.policies :
                      /\ q.iif \in ZoneLinks(d, p.from)
                      /\ IF Local(q.dst) THEN p.to = "self" ELSE p.to # "self" /\ q.oif \in ZoneLinks(d, p.to)}
       IN (sent.fate # "dropped") =
             \/ d.policies = {}
             \/ \E p \in pair : LetThrough(d, p, q)
             \/ ~Local(q.dst) /\ \E f \in d.forwards : Opened(f, q)

\* A SourceNAT translates the families it names, or both when it names none.
Translates(n, q) ==
    LET f == FamilyOf[q.dst]
    IN /\ n.src \cup n.exclude = {} \/ OfFamily(f, n.src \cup n.exclude) # {}
       /\ OfFamily(f, n.src) = {} \/ q.src \in n.src
       /\ q.dst \notin n.exclude

\* A forward sends back in what came from anywhere but its uplink.
Hairpinned(f, q) ==
    /\ f.hairpin /\ "dnat" \in q.ct /\ q.iif # f.egress
    /\ f.proto = q.proto /\ f.target = q.dst /\ q.dport \in f.tports

\* render.go sourceNAT, forwardHairpinSNAT: what leaves by an uplink carries the uplink's
\* address exactly when a SourceNAT of that uplink translates it or a forward sent it back in,
\* and no SourceNAT of another uplink does.
TranslatedAsDeclared ==
    /\ sent # None /\ sent.dir = "first" /\ sent.fate = "forwarded" /\ sent.out \in Uplink
    => LET q == sent.packet
           covered == \/ \E n \in Declared[nft].nats : n.egress = sent.out /\ Translates(n, q)
                      \/ \E f \in Declared[nft].forwards : Hairpinned(f, q)
       IN sent.src = IF covered THEN Own[sent.out][FamilyOf[q.dst]] ELSE q.src

\* ADR 0020, "From then on a policy change does not move established connections": the reply
\* of a connection a forward let in leaves by the uplink it arrived on, whatever has been
\* declared since.
EstablishedStay ==
    /\ sent # None /\ sent.dir = "reply" /\ sent.fate = "forwarded"
    /\ Arrived /\ nft = net /\ conn.first.iif \in up
    => sent.out = conn.first.iif

\* ADR 0013, "Traffic from a client outside keeps its address".
TargetSeesClient == Arrived => conn.seen = conn.first.src

\* docs/spec/kinds.md, SourceNAT: "Omitted means every source".
EverySource ==
    /\ sent # None /\ sent.dir = "first" /\ sent.fate = "forwarded"
    /\ \E n \in Declared[nft].nats : n.egress = sent.out /\ n.src = {} /\ sent.packet.dst \notin n.exclude
    => sent.src = Own[sent.out][FamilyOf[sent.packet.dst]]
=============================================================================
