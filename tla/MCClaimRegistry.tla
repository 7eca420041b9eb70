--------------------------- MODULE MCClaimRegistry --------------------------
(***************************************************************************)
(* ClaimRegistry for TLC: model values for names, owners and sockets.      *)
(***************************************************************************)
EXTENDS ClaimRegistry
=============================================================================
