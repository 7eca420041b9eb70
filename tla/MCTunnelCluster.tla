--------------------------- MODULE MCTunnelCluster ---------------------------
(***************************************************************************)
(* TunnelCluster for TLC: two slots, the host of api on the first and the  *)
(* hosts of web on the second, two or three workers, three sockets.        *)
(***************************************************************************)
EXTENDS TunnelCluster

CONSTANTS api, web, hapi, hweb, legacy, alice, bob, anon

MCNames == {api, web}
MCHosts == {hapi, hweb, legacy}
MCLabels == {alice, bob, anon}
MCKeys == MCHosts \cup {alice, bob}
MCNameOf == [h \in MCHosts |-> IF h = hapi THEN api ELSE web]
MCHostFor == [n \in MCNames |-> IF n = api THEN hapi ELSE hweb]
MChostSlot == [h \in MCHosts |-> IF h = hapi THEN 1 ELSE 2]

\* A negative TTL: names are free as soon as they are released.
MCNoReservations == -1

\* A client announces its id and, by its server URL, the host it dials.
Shake(c, h, asked, keep) ==
  [owner |-> c, label |-> c, host |-> h, asked |-> asked, fallback |-> None,
   keys |-> {c, h}, ids |-> {c}, keep |-> keep]

\* Two clients race for one host; one of them has a tunnel at the other worker.
RaceHandshakes ==
  {Shake(alice, hapi, {}, TRUE), Shake(bob, hapi, {}, FALSE), Shake(bob, hweb, {}, TRUE)}

\* One client reconnects.
CrashHandshakes == {Shake(alice, hapi, {}, TRUE), Shake(bob, hweb, {}, TRUE)}

\* One client asks for a name on two hosts of one worker.
ShareHandshakes == {Shake(alice, hweb, {}, TRUE), Shake(alice, legacy, {}, TRUE)}

\* One client dials a host, and asks there for the name of another host or not.
AskHandshakes == {Shake(alice, hapi, {web}, TRUE), Shake(alice, hapi, {}, TRUE)}

\* One client announces one label first, then two.
RelabelHandshakes ==
  {Shake(alice, hapi, {}, TRUE),
   [Shake(alice, hapi, {}, TRUE) EXCEPT !.keys = @ \cup {bob}, !.ids = @ \cup {bob}]}
=============================================================================
