------------------------------- MODULE MCTurn -------------------------------
(***************************************************************************)
(* Turn on small hosts.  A host has a PPPoE session (its options file and  *)
(* the unit it runs from), a .network file and, in some instances, dnsmasq *)
(* and a .link file.  "two" changes what "one" asks for; "gone" takes      *)
(* everything away; "bare" takes the services away and keeps the links.    *)
(***************************************************************************)
EXTENDS Turn, TLC

CONSTANTS
    net, link, opts, unit, conf, dunit, \* files
    session, dnsmasq,                   \* services
    one, two, gone, bare,               \* declarations
    v1, v2,                             \* contents
    a1, a2                              \* addresses

PathRankTable ==
    LET rank == (opts :> 1) @@ (conf :> 2) @@ (net :> 3) @@ (link :> 4) @@ (unit :> 5) @@ (dunit :> 6)
    IN [f \in File |-> rank[f]]
InputsTable == [s \in Service |-> IF s = session THEN {opts} ELSE {conf}]
UnitOfTable == [s \in Service |-> IF s = session THEN unit ELSE dunit]
PlaceTable == [s \in Service |-> IF s = session THEN 1 ELSE 2]

WantTable ==
    LET links == {net, link}
        want == (one  :> [f \in File |-> v1])
             @@ (two  :> [f \in File |-> IF f \in UnitFile THEN v1 ELSE v2])
             @@ (gone :> [f \in File |-> None])
             @@ (bare :> [f \in File |-> IF f \in links THEN v1 ELSE None])
    IN [d \in Decl |-> want[d]]
RulesetTable == [d \in Decl |-> IF d = two THEN v2 ELSE v1]
ForwardTable == [d \in Decl |-> d \in {one, two}]
DelayTable == [n \in 1..Levels |-> n]

\* TLC evaluates the operator that stands for a constant at every use, and a definition
\* that operator names only once.
MCPathRank == PathRankTable
MCInputs == InputsTable
MCUnitOf == UnitOfTable
MCPlace == PlaceTable
MCWant == WantTable
MCRuleset == RulesetTable
MCForward == ForwardTable
MCDelay == DelayTable
=============================================================================
