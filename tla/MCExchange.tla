----------------------------- MODULE MCExchange -----------------------------
(***************************************************************************)
(* Exchange for TLC.  The exchanges of one connection touch each other only *)
(* through the connection: no handler reads the streams of another id, and *)
(* the messages of other ids only delay its own.  One exchange, of either  *)
(* kind, with every delay and two reconnects is therefore the instance     *)
(* whose liveness is checked.                                              *)
(***************************************************************************)
EXTENDS Exchange

CONSTANTS page
=============================================================================
