------------------------------ MODULE Delegated -----------------------------
(***************************************************************************)
(* internal/config/delegation.go: the addresses and subnets cut from a     *)
(* delegated prefix, and the delegation a host behind the router knows     *)
(* from what it is advertised.                                             *)
(*                                                                         *)
(* An address is its upper half, of Half bits, and its host half.  A       *)
(* prefix is its length and the upper half it is written with.             *)
(***************************************************************************)
EXTENDS Integers, FiniteSets

CONSTANTS
    None,
    Half        \* 64 in the code

ASSUME HalfAssumption == Half \in Nat \ {0}

\* A function and not 2 ^ n, of which the provers know nothing.
Power[n \in Nat] == IF n = 0 THEN 1 ELSE 2 * Power[n - 1]

\* How many upper halves a prefix of that length has.
Size(bits) == Power[Half - bits]

\* A prefix longer than the half has nothing in it to mask.
Masked(p) == IF p.bits >= Half THEN p ELSE [p EXCEPT !.upper = @ - (@ % Size(p.bits))]

\* The one prefix a client holds.  None, or several that cannot be told apart, is a reason to
\* wait.
Delegation(held) == IF Cardinality(held) = 1 THEN Masked(CHOOSE p \in held : TRUE) ELSE None

\* A slip: a subnet that does not fit runs over into the prefix.
SubnetUnbounded(held, derived) ==
    LET d == Delegation(held)
        id == IF derived.subnet = None THEN 0 ELSE derived.subnet
    IN IF d = None \/ d.bits > Half THEN None ELSE (d.upper + id) % Size(0)

\* The subnet of the delegation, when it has that many.  (The code's comparison of the two is
\* left out for a delegation that has more subnets than an int can name.)
Subnet(held, derived) ==
    LET d == Delegation(held)
        id == IF derived.subnet = None THEN 0 ELSE derived.subnet
    IN IF d = None \/ d.bits > Half \/ (d.bits <= Half /\ id \notin 0 .. Size(d.bits) - 1) THEN None ELSE d.upper + id

\* The address with the token in its host half.
Address(held, derived) ==
    LET upper == Subnet(held, derived)
    IN IF upper = None \/ derived.token = None THEN None ELSE [upper |-> upper, host |-> derived.token]

\* withToken: neither a unique local nor a temporary address.
WithToken(advertised, token) == {a \in advertised : a.global /\ a.host = token}

\* preferredLongest, of what was advertised and until when each is preferred: the one preferred
\* longest is held; when no one is, all are.
PreferredLongest(candidates) ==
    LET top == {c.what : c \in {c \in candidates : \A other \in candidates : other.until <= c.until}}
    IN IF Cardinality(top) = 1 THEN top ELSE {c.what : c \in candidates}

DelegationFromAdvertisement(advertised, token, length) ==
    PreferredLongest({[what |-> Masked([bits |-> length, upper |-> a.upper]), until |-> a.until] :
                        a \in WithToken(advertised, token)})

AddressFromAdvertisement(advertised, token) ==
    PreferredLongest({[what |-> [upper |-> a.upper, host |-> a.host], until |-> a.until] :
                        a \in WithToken(advertised, token)})

\* Advertised.Address: the one address an interface took.
AdvertisedAddress(held) == IF Cardinality(held) = 1 THEN CHOOSE a \in held : TRUE ELSE None
=============================================================================
