--------------------------- MODULE MCTunnelServer ---------------------------
(***************************************************************************)
(* TunnelServer for TLC.  api, web and old are public names; Dial gives    *)
(* the hosts that stand for them, and legacy is a second host of "api"     *)
(* (a client that still appends "-" to its endpoint).  www is reserved.    *)
(***************************************************************************)
EXTENDS TunnelServer

CONSTANTS api, web, www, hapi, hweb, hwww, legacy, alice, bob, tok, anon

MCNames == {api, web, www}
MCHosts == {hapi, hweb, hwww, legacy}
MCLabels == {alice, bob, anon}
MCKeys == MCHosts \cup {alice, bob}
MCNameOf == [h \in MCHosts |-> CASE h = hweb -> web [] h = hwww -> www [] OTHER -> api]
MCHostFor == [n \in MCNames |-> CASE n = web -> hweb [] n = www -> hwww [] OTHER -> hapi]

\* A client announces its labels ids and, by its server URL, the host it dials.
Shake(o, l, h, asked, ids, keep) ==
  [owner |-> o, label |-> l, host |-> h, asked |-> asked, fallback |-> None,
   keys |-> ids \cup {h}, ids |-> ids, keep |-> keep]

\* Each public name is asked for by one dialled host only.
DisjointHandshakes ==
  {Shake(alice, alice, hapi, {api}, {alice}, TRUE),
   Shake(bob, bob, hapi, {api}, {bob}, FALSE),
   Shake(bob, bob, hweb, {web}, {bob}, TRUE),
   Shake(tok, anon, hweb, {}, {}, TRUE),
   Shake(tok, anon, hwww, {}, {}, TRUE)}

\* Tunnels of one client share names and labels; another client asks for the
\* same names; an anonymous one may be displaced and announces the host of api.
SharedHandshakes ==
  {Shake(alice, alice, hapi, {web}, {alice}, TRUE),
   Shake(alice, alice, legacy, {}, {alice}, TRUE),
   Shake(bob, bob, hweb, {api}, {bob}, TRUE),
   [Shake(tok, anon, hweb, {}, {bob}, TRUE) EXCEPT !.keys = @ \cup {hapi}]}

\* Two tunnels of one client that dial different hosts and ask for one name.
OverlapHandshakes ==
  {Shake(alice, alice, hapi, {web}, {alice}, TRUE),
   Shake(alice, alice, hwww, {web}, {alice}, TRUE)}
=============================================================================
