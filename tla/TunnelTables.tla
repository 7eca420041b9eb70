---------------------------- MODULE TunnelTables ----------------------------
(***************************************************************************)
(* The in-memory tables of one server process (server.js:149-281,389-422   *)
(* and the counters of stats.js they are updated with), as a record t:     *)
(*    routes    tunnelSockets: key -> socket                               *)
(*    primary   aliasToPrimaryHost: key -> dialled host                    *)
(*    active    activePrimaryHosts                                         *)
(*    known     the client labels clientRegistry has an entry for          *)
(*    hostsOf   activeHosts of each of those entries                       *)
(*    connected, disconnected, live                                        *)
(*              total_connections, total_disconnections, active_sockets    *)
(*                                                                         *)
(* A key is a host or a label (client id, client endpoint).  Ports and the *)
(* spelling of hosts are abstracted: a host, its port-less form and its    *)
(* lower-case form are one value.                                          *)
(***************************************************************************)
EXTENDS NameClaims, FiniteSets

CONSTANTS
  Hosts,           \* hosts a tunnel client can dial
  Keys,            \* everything the tables are indexed by
  Labels,          \* labels clients are shown under
  Anonymous,       \* the label of a client without any
  NameOf,          \* NameOf[h]: parseName and normalizeName of host h, or None
  HostFor,         \* HostFor[n]: buildHost(n)
  ReservedNames,   \* names validateName refuses
  MaxPerClient     \* tunnelConfig.max_per_client

(* What a socket brings: owner and label are derived from its token, host  *)
(* is what it dialled, asked the names it requests, fallback the name its  *)
(* client id stands for, keep its keep_connection flag.  What it announces *)
(* is its own word and may be anything, another tunnel's host included:    *)
(* keys by its endpoint, its id and its server URL, ids by its endpoint    *)
(* and its ids, the metadata that visitors are matched with at last.       *)
Handshake ==
  [owner : Owners, label : Labels, host : Hosts, asked : SUBSET Names,
   fallback : Names \cup {None}, keys : SUBSET Keys, ids : SUBSET Keys,
   keep : BOOLEAN]

Tables ==
  [routes : [Keys -> Sockets \cup {None}],
   primary : [Keys -> Hosts \cup {None}],
   active : SUBSET Hosts,
   known : SUBSET Labels,
   hostsOf : [Labels -> SUBSET Keys],
   connected : Nat, disconnected : Nat, live : Nat]

ASSUME TunnelTablesAssumption ==
  /\ Hosts \subseteq Keys
  /\ Anonymous \in Labels
  /\ NameOf \in [Hosts -> Names \cup {None}]
  /\ HostFor \in [Names -> Hosts]
  /\ \A n \in Names : NameOf[HostFor[n]] = n
  /\ ReservedNames \subseteq Names
  /\ MaxPerClient \in Nat
  /\ None \notin Keys \cup Names \cup Handshake
  /\ IsFiniteSet(Sockets)

NoTables ==
  [routes |-> [k \in Keys |-> None], primary |-> [k \in Keys |-> None],
   active |-> {}, known |-> {}, hostsOf |-> [l \in Labels |-> {}],
   connected |-> 0, disconnected |-> 0, live |-> 0]

-----------------------------------------------------------------------------
\* resolveRequestedNames: the dialled name and the asked ones, else the client
\* id's; the result counts as an error when it is too long or not valid.
resolveRequestedNames(h) ==
  LET wanted == ({NameOf[h.host]} \ {None}) \cup h.asked
  IN  IF wanted = {} THEN {h.fallback} \ {None} ELSE wanted

NamesUsable(S) ==
  /\ Cardinality(S) <= MaxPerClient
  /\ S \cap ReservedNames = {}

\* Mutated form: the granted hosts are forgotten.
AliasesDialled(h, G) == {h.host} \cup h.keys

\* getSocketAliases and the granted hosts: the aliases that the connection handler
\* registers, unchecked, for a handshake h granted G.
Aliases(h, G) == {h.host} \cup h.keys \cup {HostFor[n] : n \in G}

-----------------------------------------------------------------------------
\* The "connection" handler, and recordConnect, registerClientTunnel.
Connect(t, s, h, G) ==
  [routes |-> [k \in Keys |-> IF k \in Aliases(h, G) THEN s ELSE t.routes[k]],
   primary |-> [k \in Keys |-> IF k \in Aliases(h, G) THEN h.host ELSE t.primary[k]],
   active |-> t.active \cup {h.host},
   known |-> t.known \cup {h.label},
   hostsOf |-> [l \in Labels |-> IF l = h.label THEN t.hostsOf[l] \cup {h.host}
                                               ELSE t.hostsOf[l]],
   connected |-> t.connected + 1,
   disconnected |-> t.disconnected,
   live |-> t.live + 1]

(* The sockets in V close.  first[s] is the key whose route the takeover   *)
(* or the administrator's handler deleted (and recorded as a disconnect)   *)
(* just before it closed s, None when the transport closed by itself; hs   *)
(* and grants are the handshakes and the granted names.                    *)

\* Mutated forms: no test at all / the route deleted first is not considered.
StillPrimaryAlways(t, s, first, hs) == TRUE

StillPrimaryTwice(t, s, first, hs) == t.routes[hs[s].host] = s \/ first[s] = hs[s].host

\* onDisconnect's test: the dialled host still routes to this socket.
StillPrimary(t, s, first, hs) ==
  t.routes[hs[s].host] = s /\ first[s] # hs[s].host

UnroutedAnyones(t, k, V, first, hs, grants) ==
  \E s \in V : k = first[s] \/ k \in Aliases(hs[s], grants[s])

\* The routes that go: the one deleted first, then s's remaining aliases.
Unrouted(t, k, V, first, hs, grants) ==
  LET s == t.routes[k] IN
    /\ s \in V
    /\ k = first[s] \/ k \in Aliases(hs[s], grants[s])

\* Mutated form: the alias map is never cleaned.
UnaliasedNever(t, k, V, first, hs, grants) == FALSE

\* The alias entries deleted with them: neither the key deleted first nor the
\* dialled host still routes to s when the loop over its aliases runs.
Unaliased(t, k, V, first, hs, grants) ==
  LET s == t.routes[k] IN
    /\ Unrouted(t, k, V, first, hs, grants)
    /\ k # first[s] /\ k # hs[s].host

Drop(t, V, first, hs, grants) ==
  LET primaries == {s \in V : StillPrimary(t, s, first, hs)}
      deleted == {s \in V : first[s] # None}
      records == Cardinality(primaries) + Cardinality(deleted)
  IN [routes |-> [k \in Keys |->
        IF Unrouted(t, k, V, first, hs, grants) THEN None ELSE t.routes[k]],
      primary |-> [k \in Keys |->
        IF Unaliased(t, k, V, first, hs, grants) THEN None ELSE t.primary[k]],
      active |-> t.active \ {hs[s].host : s \in primaries},
      known |-> t.known,
      hostsOf |-> [l \in Labels |->
        t.hostsOf[l] \ ({hs[s].host : s \in {p \in primaries : hs[p].label = l}}
                        \cup {first[s] : s \in {d \in deleted : hs[d].label = l}})],
      connected |-> t.connected,
      disconnected |-> t.disconnected + records,
      live |-> IF t.live > records THEN t.live - records ELSE 0]

\* recordDisconnect(k, client l), for a key whose route is already gone.
RecordDisconnect(t, l, k) ==
  [t EXCEPT
     !.disconnected = @ + 1,
     !.live = IF @ > 0 THEN @ - 1 ELSE 0,
     !.hostsOf = [m \in Labels |-> IF m = l THEN t.hostsOf[m] \ {k} ELSE t.hostsOf[m]]]

\* clientRegistry.remove(l) and the history kept under it.
ForgetClient(t, l) ==
  [t EXCEPT
     !.known = @ \ {l},
     !.hostsOf = [m \in Labels |-> IF m = l THEN {} ELSE t.hostsOf[m]]]

-----------------------------------------------------------------------------
\* findTunnelSocket.  A request offers the keys of steps 1 to 5 in order (its
\* host, a forwarded host, the leading label, an explicit client id) and says
\* whether it asks for localhost; the answer is a set, empty for null, because
\* step 6 takes whichever matching socket its scan meets first.
Via(t, k) ==
  IF t.routes[k] # None THEN t.routes[k]
  ELSE IF t.primary[k] # None THEN t.routes[t.primary[k]]
  ELSE None

FirstHit(t, keys, i) ==
  Via(t, keys[i]) # None /\ \A j \in 1..(i-1) : Via(t, keys[j]) = None

findTunnelSocket(t, hs, req) ==
  LET n == req.keys
      scanned == {s \in Sockets : /\ \E k \in Keys : t.routes[k] = s
                                  /\ n[1] \in hs[s].ids}
  IN  IF \E i \in DOMAIN n : Via(t, n[i]) # None
        THEN {Via(t, n[i]) : i \in {j \in DOMAIN n : FirstHit(t, n, j)}}
      ELSE IF scanned # {} THEN scanned
      ELSE IF req.local /\ Cardinality(t.active) = 1
        THEN {t.routes[h] : h \in t.active} \ {None}
      ELSE {}
=============================================================================
