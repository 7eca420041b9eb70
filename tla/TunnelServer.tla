---------------------------- MODULE TunnelServer ----------------------------
(***************************************************************************)
(* One server process without Redis: the tables of TunnelTables and the    *)
(* process's own ClaimRegistry.  The registry answers at once there, so    *)
(* the authentication middleware, the claim and the "connection" handler   *)
(* run in one turn of the event loop and a handshake is a single action.   *)
(***************************************************************************)
EXTENDS TunnelTables

CONSTANTS
  Handshakes,      \* the handshakes clients may send
  AdminKeys,       \* the keys the administrator removes tunnels by
  AdminLabels      \* the clients the administrator removes

ASSUME HandshakesAssumption ==
  /\ Handshakes \subseteq Handshake
  /\ AdminKeys \subseteq Keys
  /\ AdminLabels \subseteq Labels

VARIABLES
  phase,           \* phase[s]: "new", "open" (connected) or "gone"
  hs,              \* hs[s]: the handshake of socket s
  granted,         \* granted[s]: socket.grantedNames
  tab,             \* the tables
  claims           \* localClaims

vars == <<phase, hs, granted, tab, claims>>

TypeOK ==
  /\ phase \in [Sockets -> {"new", "open", "gone"}]
  /\ hs \in [Sockets -> Handshakes \cup {None}]
  /\ granted \in [Sockets -> SUBSET Names]
  /\ tab \in Tables
  /\ claims \in ClaimTable

Init ==
  /\ phase = [s \in Sockets |-> "new"]
  /\ hs = [s \in Sockets |-> None]
  /\ granted = [s \in Sockets |-> {}]
  /\ tab = NoTables
  /\ claims = NoClaims

\* existsSocket && existsSocket.connected, for the host h dials.
LiveAt(h) ==
  LET e == tab.routes[h.host] IN IF e = None THEN FALSE ELSE phase[e] = "open"

\* Mutated form: any client may replace the live tunnel.
MayReplaceAnyone(h) == h.keep

\* The takeover test: same claim owner, and keep_connection.
MayReplace(h) ==
  /\ hs[tab.routes[h.host]].owner = h.owner
  /\ h.keep

NoFirst == [s \in Sockets |-> None]

Finish(s, h, p, G) ==
  /\ phase' = [phase EXCEPT ![s] = p]
  /\ hs' = [hs EXCEPT ![s] = h]
  /\ granted' = [granted EXCEPT ![s] = G]

\* "[403] Socket has an existing active connection".
RefuseBusy(s, h) ==
  /\ phase[s] = "new"
  /\ LiveAt(h) /\ ~MayReplace(h)
  /\ Finish(s, h, "gone", {})
  /\ UNCHANGED <<tab, claims>>

\* "[409-HOSTNAME]": the names cannot be used, or the registry refuses them.
RefuseName(s, h) ==
  LET S == resolveRequestedNames(h) IN
  /\ phase[s] = "new"
  /\ ~LiveAt(h)
  /\ \/ ~NamesUsable(S) /\ UNCHANGED claims
     \/ /\ NamesUsable(S) /\ ~CanClaim(claims, S, h.owner)
        /\ \E P \in RefusalPurges(claims, S) : claims' = Purge(claims, P)
  /\ Finish(s, h, "gone", {})
  /\ UNCHANGED tab

\* The names are granted and the socket connects.
Admit(s, h) ==
  LET S == resolveRequestedNames(h) IN
  /\ phase[s] = "new"
  /\ ~LiveAt(h)
  /\ NamesUsable(S) /\ CanClaim(claims, S, h.owner)
  /\ claims' = AfterClaim(claims, S, h.owner, s)
  /\ tab' = Connect(tab, s, h, S)
  /\ Finish(s, h, "open", S)

\* The owner's new socket replaces the live one: the old socket is closed (its
\* onDisconnect runs, its names are released) and the new one connects without
\* claiming anything.  activePrimaryHosts loses the host and regains it.
TakeOver(s, h) ==
  LET e == tab.routes[h.host]
      first == [NoFirst EXCEPT ![e] = h.host]
      closed == Drop(tab, {e}, first, hs, granted)
  IN
  /\ phase[s] = "new"
  /\ LiveAt(h) /\ MayReplace(h)
  /\ claims' = AfterRelease(claims, granted[e], e)
  /\ tab' = Connect(closed, s, h, {})
  /\ phase' = [phase EXCEPT ![e] = "gone", ![s] = "open"]
  /\ hs' = [hs EXCEPT ![s] = h]
  /\ UNCHANGED granted

\* The transport of s closes: onDisconnect.
Close(s) ==
  /\ phase[s] = "open"
  /\ tab' = Drop(tab, {s}, NoFirst, hs, granted)
  /\ claims' = AfterRelease(claims, granted[s], s)
  /\ phase' = [phase EXCEPT ![s] = "gone"]
  /\ UNCHANGED <<hs, granted>>

-----------------------------------------------------------------------------
\* claimNameForHost: the claim an administrator's key stands for.
claimNameForHost(k) == IF k \in Hosts THEN NameOf[k] ELSE None

FreeName(cl, k) ==
  LET n == claimNameForHost(k)
  IN IF n = None THEN cl ELSE AfterDeleteName(cl, n)

\* DELETE /admin/api/sockets/:host.
RemoveTunnel(k) ==
  LET s == tab.routes[k] IN
  /\ IF s = None
       THEN /\ claims' = FreeName(claims, k)
            /\ UNCHANGED <<phase, tab>>
       ELSE /\ tab' = Drop(tab, {s}, [NoFirst EXCEPT ![s] = k], hs, granted)
            /\ claims' = FreeName(AfterRelease(claims, granted[s], s), k)
            /\ phase' = [phase EXCEPT ![s] = "gone"]
  /\ UNCHANGED <<hs, granted>>

\* The sockets DELETE /admin/api/clients/:clientId disconnects, and the keys
\* each is routed by; its loop meets one of those keys first.
ClientSockets(l) ==
  {s \in Sockets : hs[s] # None /\ (\E k \in Keys : tab.routes[k] = s)
                     /\ hs[s].label = l}

RoutedKeys(s) == {k \in Keys : tab.routes[k] = s}

FirstKeys(V) ==
  {f \in [Sockets -> Keys \cup {None}] :
     \A s \in Sockets : IF s \in V THEN f[s] \in RoutedKeys(s) ELSE f[s] = None}

AfterReleases(V) ==
  [n \in Names |->
     LET s == IF claims[n] = None THEN None ELSE claims[n].socketId IN
     IF s \in V THEN AfterRelease(claims, granted[s], s)[n] ELSE claims[n]]

\* A key whose socket the loop has already closed reads as "anonymous", so the
\* loop fails on it when that is the client being removed.
LoopFails(l, V) == l = Anonymous /\ \E s \in V : Cardinality(RoutedKeys(s)) > 1

\* DELETE /admin/api/clients/:clientId runs to its end.
RemoveClient(l) ==
  LET V == ClientSockets(l) IN
  /\ ~LoopFails(l, V)
  /\ \E first \in FirstKeys(V) :
       tab' = ForgetClient(Drop(tab, V, first, hs, granted), l)
  /\ claims' = AfterReleaseOwner(AfterReleases(V), l)
  /\ phase' = [s \in Sockets |-> IF s \in V THEN "gone" ELSE phase[s]]
  /\ UNCHANGED <<hs, granted>>

\* It throws at a key of a socket it has just closed, after one more
\* recordDisconnect: nothing after the loop happens.
RemoveClientThrows(l) ==
  \E V \in SUBSET ClientSockets(l) :
    /\ LoopFails(l, V)
    /\ \E first \in FirstKeys(V) :
         \E k \in UNION {RoutedKeys(s) \ {first[s]} : s \in V} :
           tab' = RecordDisconnect(Drop(tab, V, first, hs, granted), l, k)
    /\ claims' = AfterReleases(V)
    /\ phase' = [s \in Sockets |-> IF s \in V THEN "gone" ELSE phase[s]]
    /\ UNCHANGED <<hs, granted>>

\* An hour passes.
Hour ==
  /\ claims' = Age(claims)
  /\ UNCHANGED <<phase, hs, granted, tab>>

Next ==
  \/ \E s \in Sockets, h \in Handshakes :
       RefuseBusy(s, h) \/ RefuseName(s, h) \/ Admit(s, h) \/ TakeOver(s, h)
  \/ \E s \in Sockets : Close(s)
  \/ \E k \in AdminKeys : RemoveTunnel(k)
  \/ \E l \in AdminLabels : RemoveClient(l) \/ RemoveClientThrows(l)
  \/ Hour

Spec == Init /\ [][Next]_vars /\ WF_vars(Hour)

-----------------------------------------------------------------------------
\* Every route leads to a connected socket that registered the key.
RoutesLive ==
  \A k \in Keys : tab.routes[k] # None =>
    LET s == tab.routes[k] IN
      phase[s] = "open" /\ k \in Aliases(hs[s], granted[s])

\* A claim that rests on a socket is backed by a connected one of that owner,
\* so a name is never pinned to a connection that has ended.
ClaimsBacked ==
  \A n \in Names : claims[n] # None /\ claims[n].socketId # None =>
    LET s == claims[n].socketId IN
      /\ phase[s] = "open"
      /\ n \in granted[s]
      /\ hs[s].owner = claims[n].clientId

\* The sockets that announced the public host of name n as one of their labels:
\* they dialled another host, and the name was not granted to them.
Announcers(n) ==
  {r \in Sockets : /\ phase[r] # "new" /\ hs[r].host # HostFor[n]
                   /\ HostFor[n] \in hs[r].keys /\ n \notin granted[r]}

\* The public URL of a claimed name reaches the very socket the claim rests on,
\* whoever is admitted, replaced, removed or disconnected around it: only a socket
\* that announced the name's host unasked can have come between them.
UrlIsLive ==
  \A n \in Names : claims[n] # None /\ claims[n].socketId # None =>
    tab.routes[HostFor[n]] = claims[n].socketId \/ Announcers(n) # {}

\* A name's public host never routes to another client than its owner, not even
\* while the owner is away and the name only reserved, unless another client
\* announced that host.
RouteMatchesClaim ==
  \A n \in Names : owner(claims, n) # None /\ tab.routes[HostFor[n]] # None =>
    \/ hs[tab.routes[HostFor[n]]].owner = claims[n].clientId
    \/ \E r \in Announcers(n) : hs[r].owner # claims[n].clientId

\* A tunnel that serves the host it dialled is counted as an active tunnel.
RoutedPrimaryIsActive ==
  \A s \in Sockets : phase[s] = "open" /\ tab.routes[hs[s].host] = s =>
    hs[s].host \in tab.active

\* Closing a connection takes no route from another: a connected socket loses
\* a key only to a connection that has just been accepted.
RoutesKept ==
  [][\A k \in Keys : tab.routes[k] # None =>
       LET s == tab.routes[k] IN
         phase'[s] = "open" =>
           \/ tab'.routes[k] = s
           \/ tab'.routes[k] # None /\ phase[tab'.routes[k]] = "new"]_vars

\* findTunnelSocket hands a visitor only to a connected tunnel that registered or
\* announced the key the visitor asked for: no stale alias leads to somebody else's.
VisitorsReachTheirTunnel ==
  \A k \in Keys :
    \A s \in findTunnelSocket(tab, hs, [keys |-> <<k>>, local |-> FALSE]) :
      phase[s] = "open" /\ k \in Aliases(hs[s], granted[s]) \cup hs[s].ids

\* At most one connected socket per dialled host (the 403 and takeover rule).
OneSocketPerHost ==
  \A s, r \in Sockets :
    phase[s] = "open" /\ phase[r] = "open" /\ hs[s].host = hs[r].host => s = r

\* active_sockets counts the connected sockets.
LiveCount == tab.live = Cardinality({s \in Sockets : phase[s] = "open"})

\* The hosts tunnel_grant tells a client it holds.
Told(s) ==
  IF granted[s] = {} THEN {hs[s].host} ELSE {HostFor[n] : n \in granted[s]}

\* server.js:489-490: names are reserved "so two clients can never both believe
\* they own a URL".  Ephemeral owners, whose names may be taken, are left out.
UrlsExclusive ==
  \A s, r \in Sockets :
    /\ phase[s] = "open" /\ phase[r] = "open"
    /\ hs[s].owner # hs[r].owner
    /\ {hs[s].owner, hs[r].owner} \cap EphemeralOwners = {}
    => Told(s) \cap Told(r) = {}

\* server.js:448-449: what a client announces is "Deliberately NOT used for
\* ownership: the handshake value is client-supplied": a name's URL is its owner's.
UrlsAreTheOwners ==
  \A n \in Names : owner(claims, n) # None /\ tab.routes[HostFor[n]] # None =>
    hs[tab.routes[HostFor[n]]].owner = claims[n].clientId

\* server.js:156-158: "active tunnels" is what is "actually alive right now".
ActiveTunnelsAlive ==
  \A h \in tab.active : \E s \in Sockets : phase[s] = "open" /\ hs[s].host = h
=============================================================================
