------------------------------ MODULE MCRecords -----------------------------
(***************************************************************************)
(* One name with an A record that follows the uplink, and an AAAA record   *)
(* cut from a delegation: on a host that is advertised a subnet of it, or  *)
(* on the router that asked for it; or the address such a host takes.      *)
(***************************************************************************)
EXTENDS Records, TLC

MCKey == {"A", "AAAA"}
MCOrder == [k \in MCKey |-> IF k = "A" THEN 1 ELSE 2]

Uplink(n) == {[family |-> "ipv4", reachable |-> TRUE, number |-> n],
              [family |-> "ipv6", reachable |-> TRUE, number |-> 0],
              [family |-> "ipv4", reachable |-> FALSE, number |-> 0]}
Prefix(upper) == [bits |-> 2, upper |-> upper]
Taken(upper, until) == {[upper |-> upper, host |-> 7, global |-> TRUE, until |-> until],
                        [upper |-> upper, host |-> 3, global |-> TRUE, until |-> until + 1]}
Local == {[upper |-> 15, host |-> 7, global |-> FALSE, until |-> 99]}

\* One delegation; a new one beside it; two that cannot be told apart, and one too short for
\* a second subnet.
MCSituation ==
    "one" :> [delegations |-> {Prefix(4)}, uplink |-> Uplink(1), leases |-> {[bits |-> 2, upper |-> 5]},
              advertised |-> Taken(6, 9) \cup Taken(7, 8) \cup Local]
    @@ "new" :> [delegations |-> {Prefix(4), Prefix(8)}, uplink |-> Uplink(2),
                 leases |-> {[bits |-> 2, upper |-> 8]}, advertised |-> Taken(6, 3) \cup Taken(8, 9)]
    @@ "unclear" :> [delegations |-> {Prefix(4), Prefix(8), [bits |-> 4, upper |-> 3]}, uplink |-> {},
                     leases |-> {[bits |-> 4, upper |-> 3]}, advertised |-> Taken(6, 9) \cup Taken(8, 9)]

Declared(interface, proxied) ==
    [k \in MCKey |->
       [proxied |-> proxied /\ k = "A",
        from |-> IF k = "A" THEN [as |-> "uplink"] ELSE IF interface = None THEN [as |-> "advertised"]
                 ELSE [as |-> "delegated", interface |-> interface, subnet |-> 1, token |-> 5]]]

MCDeclaration == "behind" :> Declared("lan", FALSE) @@ "router" :> Declared("wan", TRUE)
                 @@ "host" :> Declared(None, FALSE)
MCForeign == [content |-> [upper |-> 0, host |-> 0], proxied |-> FALSE]
=============================================================================
