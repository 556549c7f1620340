-------------------------------- MODULE MCLoad ------------------------------
(***************************************************************************)
(* A home router's document, with up to two edits made to it.  Most edits  *)
(* are mistakes; some are declarations that have to go through.            *)
(***************************************************************************)
EXTENDS Load

CONSTANTS
    Edits       \* how many edits are made at once

MCRank == [a |-> 1, b |-> 2, c |-> 3, d |-> 4, ppp0 |-> 5, ppp1 |-> 6, tun |-> 7]
MCUnreadable == {"unreadable"}
MCLong == {"long"}

R(kind, name, spec) == [kind |-> kind, name |-> name, spec |-> spec]
Static(family) == [as |-> family, of |-> None]
Cut(ref, token) == [as |-> "delegated", of |-> [ref |-> ref, subnet |-> 1, token |-> token]]
Interface(ifname) ==
    [ifname |-> ifname, addrs |-> << >>, pd |-> None, adv |-> None, advertise |-> None,
     bridge |-> None, routes |-> << >>, wol |-> None]
Session == [interface |-> "wan", user |-> "file", password |-> "file", routes |-> << >>]
Policy(priority, family, egress, table, mark) ==
    [priority |-> priority, family |-> family, egress |-> egress, sources |-> {"net"},
     refs |-> IF family = "ipv4" THEN <<"hosts">> ELSE <<"cut">>,
     table |-> table, mark |-> mark]
Forward(egress, port, range) ==
    [egress |-> egress, proto |-> "tcp", port |-> port, range |-> range,
     target |-> [family |-> "ipv4", port |-> None, range |-> None]]
Record(type, egress, address) ==
    [type |-> type, egress |-> egress, address |-> address, names |-> << <<"a", "home">> >>,
     ttl |-> 300, proxied |-> FALSE]

Base ==
    <<R("Interface", "wan", [Interface("eth0") EXCEPT !.pd = [length |-> 56, duid |-> None]]),
      R("Interface", "lan", [Interface("br0") EXCEPT !.addrs = <<Static("ipv4"), Cut("wan", <<0, 1>>)>>,
                                !.bridge = <<"eth1", "eth2">>, !.advertise = [mode |-> "slaac"],
                                !.routes = <<[dest |-> Cut("wan", None), via |-> Cut("wan", <<0, 9>>)]>>]),
      R("Interface", "ngn", [Interface("eth3") EXCEPT !.addrs = <<[as |-> "advertised", token |-> <<0, 5>>]>>,
                                !.adv = [length |-> 60], !.wol = <<"magic">>]),
      R("PPPoESession", "ppp0", Session),
      R("PPPoESession", "ppp1", [Session EXCEPT !.routes = <<[dest |-> Static("ipv4"), via |-> None]>>]),
      R("DSLiteTunnel", "tun", [underlay |-> "wan", localFrom |-> "lan", local |-> None,
                                aftrHost |-> "gw", aftr |-> None, routes |-> << >>]),
      R("EgressRoutePolicy", "b", Policy(10, "ipv4", "ppp1", None, None)),
      R("EgressRoutePolicy", "a", Policy(20, "ipv4", "tun", None, None)),
      R("IPAddressSet", "hosts", [family |-> "ipv4", addresses |-> <<Static("ipv4")>>, networks |-> << >>]),
      R("IPAddressSet", "cut", [family |-> "ipv6", addresses |-> <<Cut("wan", <<0, 7>>)>>,
                                networks |-> <<Cut("wan", None)>>]),
      R("FirewallZone", "inside", [links |-> <<"lan">>]),
      R("FirewallZone", "outside", [links |-> <<"ppp0", "tun">>]),
      R("FirewallPolicy", "in", [from |-> "outside", to |-> "inside", default |-> "drop",
           rules |-> <<[name |-> "r", action |-> "accept", family |-> None, srcRefs |-> <<"hosts">>, dstRefs |-> <<"cut">>]>>]),
      R("FirewallPolicy", "host", [from |-> "inside", to |-> "self", default |-> "accept", rules |-> << >>]),
      R("SourceNAT", "nat", [egress |-> "ppp0"]),
      R("PortForward", "web", Forward("ppp0", None, <<80, 83>>)),
      R("DHCPServer", "dhcp", [interface |-> "lan", subnet |-> <<0, 255>>, pool |-> <<100, 200>>, mappings |-> <<9>>]),
      R("DNSForwarder", "dns", [listenOn |-> <<"lo", "lan">>, upstreams |-> <<"up">>]),
      R("DNSRecordSet", "zone", [provider |-> "cloudflare", zone |-> <<"home">>, tokenFile |-> "file",
           records |-> <<Record("A", "ppp0", None), Record("AAAA", None, Cut("wan", <<0, 8>>))>>])>>

Named(kind, name) == CHOOSE i \in DOMAIN Base : Base[i].kind = kind /\ Base[i].name = name

\* An edit puts a resource in the place of another, leaves one out, or adds one.
Put(kind, name, spec) == [op |-> "put", at |-> Named(kind, name), spec |-> spec]
Drop(kind, name) == [op |-> "drop", at |-> Named(kind, name)]
Add(kind, name, spec) == [op |-> "add", resource |-> R(kind, name, spec)]
SpecOf(kind, name) == Base[Named(kind, name)].spec
Lan == SpecOf("Interface", "lan")
Wan == SpecOf("Interface", "wan")
Ngn == SpecOf("Interface", "ngn")
Tun == SpecOf("DSLiteTunnel", "tun")
Zone == SpecOf("DNSRecordSet", "zone")

\* What the allocators and the search for cycles are about.
NumberEdits ==
    {Put("EgressRoutePolicy", "a", Policy(p, f, "tun", t, m)) :
        <<p, f, t, m>> \in {<<5, "ipv4", None, None>>, <<20, "ipv4", 100, None>>, <<20, "ipv4", 101, 257>>,
                            <<20, "ipv6", None, 256>>, <<20, "ipv4", 254, None>>, <<20, "ipv4", None, 0>>,
                            <<10, "ipv4", None, None>>, <<None, "ipv4", None, None>>}}
    \cup {Add("EgressRoutePolicy", "c", Policy(15, "ipv4", "ppp0", t, m)) :
            <<t, m>> \in {<<None, None>>, <<100, 256>>, <<102, None>>, <<101, None>>}}
    \cup {Add("PortForward", "ssh", Forward(e, p, None)) : <<e, p>> \in {<<"ppp1", 80>>, <<"ppp0", 82>>, <<"ppp0", 22>>, <<"tun", 22>>}}
    \cup {Put("Interface", "wan", [Wan EXCEPT !.addrs = <<Cut(r, <<0, 1>>)>>]) : r \in {"wan", "lan", "ngn"}}
    \cup {Add("Interface", "dmz", [Interface("eth4") EXCEPT !.addrs = <<Cut(r, <<0, 1>>), Cut("ngn", <<0, 2>>)>>]) : r \in {"wan", "ngn"}}
    \cup {Put("Interface", "lan", [Lan EXCEPT !.pd = [length |-> None, duid |-> "unreadable"], !.addrs = <<Cut(r, <<0, 2>>)>>]) : r \in {"wan", "lan"}}

\* What a reference, a value or a name can be wrong about.
FieldEdits ==
    {Drop("Interface", "lan"), Drop("PPPoESession", "ppp0"), Drop("DSLiteTunnel", "tun"),
     Drop("IPAddressSet", "hosts"), Drop("FirewallZone", "outside"),
     Add("FirewallZone", "self", [links |-> << >>]),
     Add("PPPoESession", "lan", Session),
     Add("FirewallPolicy", "again", [from |-> "outside", to |-> "inside", default |-> None, rules |-> << >>]),
     Add("DNSForwarder", "dns2", [listenOn |-> << >>, upstreams |-> << >>]),
     Put("Interface", "lan", [Lan EXCEPT !.addrs = <<Static("ipv4"), Cut("wan", << >>)>>, !.ifname = "long"]),
     Put("Interface", "lan", [Lan EXCEPT !.addrs = <<Cut("ngn", << >>)>>]),
     Put("Interface", "lan", [Lan EXCEPT !.addrs = <<Cut("ngn", None), Cut("gone", None)>>, !.wol = <<"off", "magic">>]),
     Put("Interface", "ngn", [Ngn EXCEPT !.ifname = "eth1", !.adv = [length |-> 65]]),
     Put("DSLiteTunnel", "tun", [Tun EXCEPT !.localFrom = "ngn", !.aftr = "addr"]),
     Put("DSLiteTunnel", "tun", [Tun EXCEPT !.localFrom = "wan"]),
     Put("PortForward", "web", [Forward("ppp0", None, <<80, 83>>) EXCEPT !.target.range = <<80, 82>>]),
     Put("PortForward", "web", [Forward("ppp0", 80, <<80, 83>>) EXCEPT !.target = None, !.proto = "icmp"]),
     Put("DHCPServer", "dhcp", [SpecOf("DHCPServer", "dhcp") EXCEPT !.mappings = <<150, 300>>]),
     Put("DNSRecordSet", "zone", [Zone EXCEPT !.records[1].names = << <<"a", "home">>, <<"a", "home">> >>,
                                              !.records[2].address = [as |-> "advertised", of |-> "wan"]]),
     Put("DNSRecordSet", "zone", [Zone EXCEPT !.records[1].names = << <<"a", "away">> >>, !.records[1].ttl = 30,
                                              !.records[2].address = [as |-> "advertised", of |-> "ngn"]])}

AllEdits == NumberEdits \cup FieldEdits

\* The edited document.
Edited(edits) ==
    LET put(i) == {e \in edits : e.op = "put" /\ e.at = i}
        changed == [i \in DOMAIN Base |->
                      IF put(i) = {} THEN Base[i] ELSE [Base[i] EXCEPT !.spec = (CHOOSE e \in put(i) : TRUE).spec]]
        dropped == {Base[e.at] : e \in {e \in edits : e.op = "drop"}}
        new == {e.resource : e \in {e \in edits : e.op = "add"}}
    IN SelectSeq(changed, LAMBDA r : r \notin dropped) \o SetToSeq(new)

\* No two edits are of one resource.
Compatible(edits) ==
    \A e, f \in edits : e # f => ~(e.op # "add" /\ f.op # "add" /\ e.at = f.at)

\* At most two at once, and then one of them about numbers or cycles.
EditSets ==
    {{}} \cup IF Edits = 1 THEN {{e} : e \in AllEdits} ELSE {{e, f} : e \in AllEdits, f \in NumberEdits}

MCDocument ==
    {[name |-> "router", sourceValidation |-> FALSE, resources |-> Edited(E)] : E \in {E \in EditSets : Compatible(E)}}
    \cup {[name |-> None, sourceValidation |-> TRUE, resources |-> Base]}
=============================================================================
