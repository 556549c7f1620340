------------------------------ MODULE Accepted ------------------------------
(***************************************************************************)
(* What regied promises of the accepted declaration (ADR 0016, ADR 0017).  *)
(*                                                                         *)
(* There is one record and at most one trial beside it.  A submission is   *)
(* recorded with no trial left.  A trial comes and goes without moving the *)
(* record, and only a confirmation turns the one into the other.           *)
(***************************************************************************)
CONSTANTS Decl, None

VARIABLES record, trial

vars == <<record, trial>>

Init == record = None /\ trial = None

Accept(d) == trial = None /\ record' = d /\ UNCHANGED trial

Try(d) == trial' = d /\ UNCHANGED record

Confirm == trial # None /\ record' = trial /\ trial' = None

Drop == trial' = None /\ UNCHANGED record

Next == Confirm \/ Drop \/ \E d \in Decl : Accept(d) \/ Try(d)

Spec == Init /\ [][Next]_vars
=============================================================================
