----------------------------- MODULE MCTelemetry -----------------------------
(* Telemetry for TLC: the tunnels of one client. *)
EXTENDS Telemetry

CONSTANTS h1, h2, c1
OneOwner == [h \in Hosts |-> c1]
=============================================================================
