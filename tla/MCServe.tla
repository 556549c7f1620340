------------------------------ MODULE MCServe -------------------------------
(***************************************************************************)
(* Serve with two clients and up to three declarations, one of which does  *)
(* not validate.                                                           *)
(***************************************************************************)
EXTENDS Serve

CONSTANTS good, other, bad, c1, c2
=============================================================================
