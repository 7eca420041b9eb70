----------------------------- MODULE MCDrainGate -----------------------------
(* DrainGate for TLC: two streams share one socket of either end. *)
EXTENDS DrainGate

CONSTANTS s1, s2
=============================================================================
