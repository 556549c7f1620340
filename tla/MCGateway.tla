------------------------------ MODULE MCGateway -----------------------------
(***************************************************************************)
(* A host with two lines, two links inside and one routed IPv6 prefix.     *)
(***************************************************************************)
EXTENDS Gateway, Sequences, TLC

MCRank == [n \in {"a", "b", "c", "lan", "dmz", "self", "wan", "pp0", "pp1"} |->
             CASE n = "a" -> 1 [] n = "b" -> 2 [] n = "c" -> 3 [] n = "dmz" -> 4 [] n = "lan" -> 5
               [] n = "pp0" -> 6 [] n = "pp1" -> 7 [] n = "self" -> 8 [] n = "wan" -> 9]

\* srv and pc are on the lan, box in the dmz; peer is outside.
MCAddr == {"srv", "pc", "box", "peer", "r.lan", "r.dmz", "r.pp0", "r.pp1", "srv6", "peer6", "r6.pp0"}
MCFamilyOf == [a \in MCAddr |-> IF a \in {"srv6", "peer6", "r6.pp0"} THEN "ipv6" ELSE "ipv4"]
MCLink == {"lan0", "dmz0", "pp0", "pp1"}
MCUplink == {"pp0", "pp1"}
MCInside == {"srv", "pc", "box", "srv6"}
MCLinkTo == [a \in MCInside |-> IF a = "box" THEN "dmz0" ELSE "lan0"]
MCOwn == [l \in MCLink |-> [f \in {"ipv4", "ipv6"} |->
            CASE f = "ipv4" /\ l = "lan0" -> "r.lan" [] f = "ipv4" /\ l = "dmz0" -> "r.dmz"
              [] f = "ipv4" /\ l = "pp0" -> "r.pp0"  [] f = "ipv4" /\ l = "pp1" -> "r.pp1"
              [] f = "ipv6" /\ l = "pp0" -> "r6.pp0" [] OTHER -> None]]
MCPort == {80, 8080, 5000}
MCProto == {"tcp", "udp", "icmp"}
MCDelegated == [s \in {"b"} |-> {"srv6"}]

Inner == {"srv", "pc", "box"}

Egress(name, priority, egress, sources, refs) ==
    [name |-> name, family |-> "ipv4", priority |-> priority, egress |-> egress, table |-> None,
     mark |-> None, sources |-> sources, refs |-> refs, exclude |-> Inner]

Forward(name, egress, target, tport, open) ==
    [name |-> name, egress |-> egress, family |-> "ipv4", proto |-> "tcp", ports |-> {80},
     target |-> target, tports |-> {tport}, hairpin |-> TRUE, open |-> open]

Rule(family, proto, src, srcRefs, dst, dstRefs, dport, action) ==
    [family |-> family, proto |-> proto, src |-> src, srcRefs |-> srcRefs, dst |-> dst,
     dstRefs |-> dstRefs, sport |-> {}, dport |-> dport, action |-> action]

Policy(name, from, to, default, stateful, rules) ==
    [name |-> name, from |-> from, to |-> to, default |-> default, stateful |-> stateful, rules |-> rules]

\* Everybody inside leaves by pp1, and the server by pp0; both families have rules of
\* prefixes and of sets; the service is published on pp0.
Base ==
    [interfaces |-> [n \in {"lan", "dmz"} |-> IF n = "lan" THEN "lan0" ELSE "dmz0"],
     uplinks |-> {"pp0", "pp1"},
     defaults |-> <<"pp0", "pp1">>,
     zones |-> [z \in {"lan", "dmz", "wan"} |-> IF z = "wan" THEN {"pp0", "pp1"} ELSE {z}],
     sets |-> [n \in {"a", "b"} |->
                 IF n = "a" THEN [family |-> "ipv4", derived |-> FALSE, elements |-> {"pc"}]
                 ELSE [family |-> "ipv6", derived |-> TRUE, elements |-> {}]],
     policies |-> {Policy("a", "lan", "wan", "accept", TRUE,
                          <<Rule(None, {}, {"srv"}, {"a"}, {"peer"}, {}, {8080}, "drop")>>),
                   Policy("b", "wan", "lan", "drop", TRUE,
                          <<Rule(None, {"tcp"}, {}, {}, {"srv", "srv6"}, {"b"}, {80}, "accept")>>),
                   Policy("c", "lan", "self", "drop", FALSE,
                          <<Rule("ipv4", {}, {}, {"a"}, {}, {}, {}, "accept")>>)},
     egress |-> {Egress("a", 20, "pp1", {"srv", "box"}, {"a"}), Egress("b", 10, "pp0", {"box"}, {})},
     forwards |-> {Forward("a", "pp0", "srv", 8080, TRUE)},
     nats |-> {[name |-> "a", egress |-> "pp0", src |-> Inner, exclude |-> {}],
               [name |-> "b", egress |-> "pp1", src |-> {"srv", "pc"}, exclude |-> {}]}]

\* One policy more.
Added == [Base EXCEPT !.egress = @ \cup {Egress("c", 30, "pp1", {"pc"}, {})}]

\* The service is published on both lines, and there is one policy fewer.
Both == [Base EXCEPT !.egress = {Egress("a", 20, "pp1", {"srv", "pc", "box"}, {})},
                     !.forwards = @ \cup {Forward("b", "pp1", "srv", 8080, TRUE)}]

\* A forward to the dmz that opens nothing, on a host without policies.
Unfiltered == [Base EXCEPT !.policies = {}, !.forwards = {Forward("c", "pp1", "box", 80, FALSE)}]

\* Whatever leaves by pp0 is translated, except for one network.
Excluding == [Base EXCEPT !.egress = {}, !.nats = {[name |-> "a", egress |-> "pp0", src |-> {}, exclude |-> {"box"}]}]

MCRevisions == "base" :> Base @@ "both" :> Both @@ "unfiltered" :> Unfiltered
MCRenumbered == "base" :> Base @@ "added" :> Added
MCExcluding == "excluding" :> Excluding
MCBoth == "both" :> Both
=============================================================================
