------------------------------ MODULE Assignment ----------------------------
(***************************************************************************)
(* What an allocation of numbers promises: whoever has a number keeps it,  *)
(* and the next one is given a number nobody has and anybody may have.     *)
(***************************************************************************)
CONSTANT Reserved

VARIABLE given      \* who has which number

Init == DOMAIN given = {}

Give ==
    \E x \in DOMAIN given' \ DOMAIN given :
        /\ DOMAIN given' = DOMAIN given \cup {x}
        /\ given'[x] \notin Reserved
        /\ \A y \in DOMAIN given : given'[y] = given[y] /\ given'[x] # given[y]

Spec == Init /\ [][Give]_given
=============================================================================
