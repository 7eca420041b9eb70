---------------------------- MODULE MCIdentities ----------------------------
(* Identities for TLC: a client and an operator. *)
EXTENDS Identities

CONSTANTS p1, p2
=============================================================================
