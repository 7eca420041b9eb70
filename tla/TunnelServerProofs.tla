------------------------- MODULE TunnelServerProofs -------------------------
(***************************************************************************)
(* Theorems about TunnelServer, for any hosts, names, sockets, handshakes  *)
(* and administrator.                                                      *)
(***************************************************************************)
EXTENDS TunnelServer, FiniteSetTheorems, TLAPS

-----------------------------------------------------------------------------
(* The operations on claim tables return claim tables.                     *)

LEMMA IdleCapNat == IdleCap \in Nat
  BY NameClaimsAssumption, SMT DEF IdleCap, claim_ttl

LEMMA ClaimType ==
  ASSUME NEW cl \in ClaimTable, NEW S \in SUBSET Names,
         NEW c \in Owners, NEW s \in Sockets
  PROVE  AfterClaim(cl, S, c, s) \in ClaimTable
  BY IdleCapNat DEF ClaimTable, AfterClaim, Entry

LEMMA PurgeType ==
  ASSUME NEW cl \in ClaimTable, NEW P
  PROVE  Purge(cl, P) \in ClaimTable
  BY DEF ClaimTable, Purge

LEMMA ReleaseType ==
  ASSUME NEW cl \in ClaimTable, NEW S, NEW s
  PROVE  AfterRelease(cl, S, s) \in ClaimTable
  BY IdleCapNat DEF ClaimTable, AfterRelease, ReleasedBy, Entry

LEMMA ReleaseOwnerType ==
  ASSUME NEW cl \in ClaimTable, NEW c
  PROVE  AfterReleaseOwner(cl, c) \in ClaimTable
  BY DEF ClaimTable, AfterReleaseOwner

LEMMA DeleteNameType ==
  ASSUME NEW cl \in ClaimTable, NEW n \in Names
  PROVE  AfterDeleteName(cl, n) \in ClaimTable
  BY DEF ClaimTable, AfterDeleteName

LEMMA AgeType ==
  ASSUME NEW cl \in ClaimTable
  PROVE  Age(cl) \in ClaimTable
  BY IdleCapNat, NameClaimsAssumption DEF ClaimTable, Age, Entry

LEMMA ClaimTtlInt == claim_ttl \in Int
  BY NameClaimsAssumption DEF claim_ttl

-----------------------------------------------------------------------------
(* The operations on the tables return tables.                             *)

LEMMA ConnectType ==
  ASSUME NEW t \in Tables, NEW s \in Sockets, NEW h \in Handshake, NEW G
  PROVE  Connect(t, s, h, G) \in Tables
<1>1. h.host \in Hosts /\ h.host \in Keys /\ h.label \in Labels
  BY TunnelTablesAssumption DEF Handshake
<1> QED
  BY <1>1 DEF Tables, Connect

LEMMA DropType ==
  ASSUME NEW t \in Tables, NEW V \in SUBSET Sockets, NEW first, NEW h, NEW g
  PROVE  Drop(t, V, first, h, g) \in Tables
<1> DEFINE primaries == {s \in V : StillPrimary(t, s, first, h)}
           deleted == {s \in V : first[s] # None}
           records == Cardinality(primaries) + Cardinality(deleted)
<1>1. IsFiniteSet(primaries) /\ IsFiniteSet(deleted)
  <2>1. primaries \subseteq Sockets /\ deleted \subseteq Sockets
    OBVIOUS
  <2> QED
    BY <2>1, FS_Subset, TunnelTablesAssumption
<1>2. records \in Nat
  BY <1>1, FS_CardinalityType
<1> HIDE DEF primaries, deleted, records
<1> DEFINE active == t.active \ {h[s].host : s \in primaries}
           hostsOf == [l \in Labels |->
             t.hostsOf[l] \ ({h[s].host : s \in {p \in primaries : h[p].label = l}}
                             \cup {first[s] : s \in {d \in deleted : h[d].label = l}})]
           live == IF t.live > records THEN t.live - records ELSE 0
<1>3. /\ active \in SUBSET Hosts
      /\ hostsOf \in [Labels -> SUBSET Keys]
      /\ live \in Nat
      /\ t.disconnected + records \in Nat
  BY <1>2 DEF Tables
<1> DEFINE routes == [k \in Keys |->
             IF Unrouted(t, k, V, first, h, g) THEN None ELSE t.routes[k]]
           primary == [k \in Keys |->
             IF Unaliased(t, k, V, first, h, g) THEN None ELSE t.primary[k]]
<1>4. /\ routes \in [Keys -> Sockets \cup {None}]
      /\ primary \in [Keys -> Hosts \cup {None}]
  BY DEF Tables
<1>5. Drop(t, V, first, h, g) =
        [routes |-> routes, primary |-> primary, active |-> active,
         known |-> t.known, hostsOf |-> hostsOf, connected |-> t.connected,
         disconnected |-> t.disconnected + records, live |-> live]
  BY DEF Drop, primaries, deleted, records
<1> HIDE DEF active, hostsOf, live, routes, primary
<1> QED
  BY <1>3, <1>4, <1>5 DEF Tables

LEMMA RequestedNames ==
  ASSUME NEW h \in Handshake
  PROVE  resolveRequestedNames(h) \in SUBSET Names
  BY TunnelTablesAssumption DEF resolveRequestedNames, Handshake

LEMMA ForgetClientType ==
  ASSUME NEW t \in Tables, NEW l
  PROVE  ForgetClient(t, l) \in Tables
  BY DEF Tables, ForgetClient

LEMMA RecordDisconnectType ==
  ASSUME NEW t \in Tables, NEW l, NEW k
  PROVE  RecordDisconnect(t, l, k) \in Tables
<1>1. /\ t.disconnected + 1 \in Nat
      /\ (IF t.live > 0 THEN t.live - 1 ELSE 0) \in Nat
      /\ [m \in Labels |-> IF m = l THEN t.hostsOf[m] \ {k} ELSE t.hostsOf[m]]
           \in [Labels -> SUBSET Keys]
  BY DEF Tables
<1>2. RecordDisconnect(t, l, k) =
        [t EXCEPT !.disconnected = t.disconnected + 1,
                  !.live = IF t.live > 0 THEN t.live - 1 ELSE 0,
                  !.hostsOf = [m \in Labels |-> IF m = l THEN t.hostsOf[m] \ {k}
                                                         ELSE t.hostsOf[m]]]
  BY DEF Tables, RecordDisconnect
<1> QED
  BY <1>1, <1>2 DEF Tables

LEMMA FreeNameType ==
  ASSUME NEW cl \in ClaimTable, NEW k
  PROVE  FreeName(cl, k) \in ClaimTable
<1> DEFINE n == claimNameForHost(k)
<1>1. n = None \/ n \in Names
  BY TunnelTablesAssumption DEF claimNameForHost
<1> QED
  BY <1>1, DeleteNameType DEF FreeName

LEMMA ReleasesType ==
  ASSUME TypeOK, NEW V
  PROVE  AfterReleases(V) \in ClaimTable
<1>1. ASSUME NEW n \in Names
      PROVE  AfterReleases(V)[n] \in Entry \cup {None}
  <2> DEFINE s == IF claims[n] = None THEN None ELSE claims[n].socketId
  <2>1. AfterReleases(V)[n] =
          IF s \in V THEN AfterRelease(claims, granted[s], s)[n] ELSE claims[n]
    BY DEF AfterReleases
  <2>2. claims[n] \in Entry \cup {None}
    BY DEF TypeOK, ClaimTable
  <2>3. AfterRelease(claims, granted[s], s) \in ClaimTable
    BY ReleaseType DEF TypeOK
  <2>4. AfterRelease(claims, granted[s], s)[n] \in Entry \cup {None}
    BY <2>3 DEF ClaimTable
  <2> QED
    BY <2>1, <2>2, <2>4
<1> QED
  BY <1>1 DEF AfterReleases, ClaimTable

-----------------------------------------------------------------------------
(* Every state of the server process is well typed.                        *)
THEOREM ServerTypeCorrect == Spec => []TypeOK
<1>1. Init => TypeOK
  BY DEF Init, TypeOK, ClaimTable, NoClaims, NoTables, Tables
<1>2. TypeOK /\ [Next]_vars => TypeOK'
  <2> SUFFICES ASSUME TypeOK, [Next]_vars PROVE TypeOK'
    OBVIOUS
  <2>h. Handshakes \subseteq Handshake
    BY HandshakesAssumption
  <2>1. ASSUME NEW s \in Sockets, NEW h \in Handshakes, RefuseBusy(s, h)
        PROVE  TypeOK'
    BY <2>1 DEF RefuseBusy, Finish, TypeOK
  <2>2. ASSUME NEW s \in Sockets, NEW h \in Handshakes, RefuseName(s, h)
        PROVE  TypeOK'
    BY <2>2, PurgeType DEF RefuseName, Finish, TypeOK
  <2>3. ASSUME NEW s \in Sockets, NEW h \in Handshakes, Admit(s, h)
        PROVE  TypeOK'
    <3> DEFINE S == resolveRequestedNames(h)
    <3>1. S \in SUBSET Names /\ h.owner \in Owners
      BY <2>h, RequestedNames DEF Handshake
    <3>2. claims' \in ClaimTable
      BY <2>3, <3>1, ClaimType DEF Admit, TypeOK
    <3>3. tab' \in Tables
      BY <2>3, <2>h, ConnectType DEF Admit, TypeOK
    <3> QED
      BY <2>3, <3>1, <3>2, <3>3 DEF Admit, Finish, TypeOK
  <2>4. ASSUME NEW s \in Sockets, NEW h \in Handshakes, TakeOver(s, h)
        PROVE  TypeOK'
    <3> DEFINE e == tab.routes[h.host]
               closed == Drop(tab, {e}, [NoFirst EXCEPT ![e] = h.host], hs, granted)
    <3>1. e \in Sockets
      <4>1. h.host \in Keys
        BY <2>h, TunnelTablesAssumption DEF Handshake
      <4>2. e \in Sockets \cup {None}
        BY <4>1 DEF TypeOK, Tables
      <4> QED
        BY <2>4, <4>2 DEF TakeOver, LiveAt
    <3>2. closed \in Tables
      BY <3>1, DropType DEF TypeOK
    <3>3. tab' \in Tables
      BY <2>4, <2>h, <3>2, ConnectType DEF TakeOver
    <3>4. claims' \in ClaimTable
      BY <2>4, ReleaseType DEF TakeOver, TypeOK
    <3> QED
      BY <2>4, <3>3, <3>4 DEF TakeOver, TypeOK
  <2>5. ASSUME NEW s \in Sockets, Close(s)
        PROVE  TypeOK'
    <3>1. tab' \in Tables
      BY <2>5, DropType DEF Close, TypeOK
    <3> QED
      BY <2>5, <3>1, ReleaseType DEF Close, TypeOK
  <2>6. ASSUME NEW k \in AdminKeys, RemoveTunnel(k)
        PROVE  TypeOK'
    <3> DEFINE s == tab.routes[k]
    <3>1. CASE s = None
      BY <2>6, <3>1, FreeNameType DEF RemoveTunnel, TypeOK
    <3>2. CASE s # None
      <4>1. s \in Sockets
        BY <3>2, HandshakesAssumption DEF TypeOK, Tables
      <4>2. tab' \in Tables
        BY <2>6, <3>2, <4>1, DropType DEF RemoveTunnel, TypeOK
      <4>3. claims' \in ClaimTable
        BY <2>6, <3>2, ReleaseType, FreeNameType DEF RemoveTunnel, TypeOK
      <4> QED
        BY <2>6, <3>2, <4>2, <4>3 DEF RemoveTunnel, TypeOK
    <3> QED
      BY <3>1, <3>2
  <2>7. ASSUME NEW l \in AdminLabels, RemoveClient(l)
        PROVE  TypeOK'
    <3> DEFINE V == ClientSockets(l)
    <3>1. V \in SUBSET Sockets
      BY DEF ClientSockets
    <3>2. tab' \in Tables
      BY <2>7, <3>1, DropType, ForgetClientType DEF RemoveClient, TypeOK
    <3>3. claims' \in ClaimTable
      BY <2>7, ReleasesType, ReleaseOwnerType DEF RemoveClient
    <3> QED
      BY <2>7, <3>2, <3>3 DEF RemoveClient, TypeOK
  <2>8. ASSUME NEW l \in AdminLabels, RemoveClientThrows(l)
        PROVE  TypeOK'
    <3>1. PICK V \in SUBSET ClientSockets(l) :
            /\ \E first \in FirstKeys(V) :
                 \E k \in UNION {RoutedKeys(s) \ {first[s]} : s \in V} :
                   tab' = RecordDisconnect(Drop(tab, V, first, hs, granted), l, k)
            /\ claims' = AfterReleases(V)
            /\ phase' = [s \in Sockets |-> IF s \in V THEN "gone" ELSE phase[s]]
            /\ UNCHANGED <<hs, granted>>
      BY <2>8 DEF RemoveClientThrows
    <3>2. V \in SUBSET Sockets
      BY DEF ClientSockets
    <3>3. tab' \in Tables
      BY <3>1, <3>2, DropType, RecordDisconnectType DEF TypeOK
    <3>4. claims' \in ClaimTable
      BY <3>1, ReleasesType
    <3> QED
      BY <3>1, <3>3, <3>4 DEF TypeOK
  <2>9. CASE Hour
    BY <2>9, AgeType DEF Hour, TypeOK
  <2>10. CASE UNCHANGED vars
    BY <2>10 DEF vars, TypeOK
  <2> QED
    BY <2>1, <2>2, <2>3, <2>4, <2>5, <2>6, <2>7, <2>8, <2>9, <2>10 DEF Next
<1> QED
  BY <1>1, <1>2, PTL DEF Spec

-----------------------------------------------------------------------------
(* The claims and the routes agree.  No part of RouteInv is inductive      *)
(* alone: a route survives because its claim rests on an open socket, and  *)
(* a claim's URL survives because routes lead to the socket that claimed.  *)
(* Who takes a tunnel over holds no name: a new socket was granted none.   *)
RouteInv ==
  /\ RoutesLive
  /\ ClaimsBacked
  /\ UrlIsLive
  /\ RouteMatchesClaim
  /\ \A s \in Sockets : phase[s] = "new" => granted[s] = {}

\* No socket but those of V leaves, nor does anybody connect.
Leave(V) ==
  \A s \in Sockets :
    /\ phase[s] = "open" /\ s \notin V => phase'[s] = "open"
    /\ phase[s] # "new" =>
         phase'[s] # "new" /\ hs'[s] = hs[s] /\ granted'[s] = granted[s]
    /\ phase'[s] = "new" => phase[s] = "new" /\ granted'[s] = granted[s]

\* cl differs from claims only in that the sockets of V and perhaps some owners
\* have let go of their names.
Loosened(cl, V) ==
  \A n \in Names :
    /\ cl[n] # None /\ cl[n].socketId # None =>
         cl[n] = claims[n] /\ claims[n].socketId \notin V
    /\ owner(cl, n) # None =>
         owner(claims, n) # None /\ cl[n].clientId = claims[n].clientId

LEMMA ReleaseLoosens ==
  ASSUME TypeOK, ClaimsBacked, NEW s \in Sockets
  PROVE  Loosened(AfterRelease(claims, granted[s], s), {s})
<1> DEFINE cl == AfterRelease(claims, granted[s], s)
<1> SUFFICES ASSUME NEW n \in Names
             PROVE  /\ cl[n] # None /\ cl[n].socketId # None =>
                         cl[n] = claims[n] /\ claims[n].socketId # s
                    /\ owner(cl, n) # None =>
                         owner(claims, n) # None /\ cl[n].clientId = claims[n].clientId
  BY DEF Loosened
<1>1. CASE claims[n] # None /\ claims[n].socketId = s
  <2>1. n \in granted[s] /\ s # None
    BY <1>1, NameClaimsAssumption DEF ClaimsBacked
  <2>2. \/ cl[n] = None
        \/ cl[n] = [clientId |-> claims[n].clientId, socketId |-> None, idle |-> 0]
    BY <1>1, <2>1 DEF AfterRelease, ReleasedBy
  <2>3. owner(claims, n) # None
    BY <1>1, <2>1 DEF owner, _expired
  <2> QED
    BY <2>2, <2>3 DEF owner
<1>2. CASE ~(claims[n] # None /\ claims[n].socketId = s)
  <2>1. cl[n] = claims[n]
    BY <1>2, NameClaimsAssumption DEF AfterRelease, ReleasedBy
  <2> QED
    BY <1>2, <2>1 DEF owner
<1> QED
  BY <1>1, <1>2

LEMMA ReleasesLoosen ==
  ASSUME TypeOK, ClaimsBacked, NEW V \in SUBSET Sockets
  PROVE  Loosened(AfterReleases(V), V)
<1> SUFFICES ASSUME NEW n \in Names
             PROVE  LET cl == AfterReleases(V) IN
                    /\ cl[n] # None /\ cl[n].socketId # None =>
                         cl[n] = claims[n] /\ claims[n].socketId \notin V
                    /\ owner(cl, n) # None =>
                         owner(claims, n) # None /\ cl[n].clientId = claims[n].clientId
  BY DEF Loosened
<1> DEFINE s == IF claims[n] = None THEN None ELSE claims[n].socketId
           dl == AfterRelease(claims, granted[s], s)
<1>1. CASE s \in V
  <2>1. AfterReleases(V)[n] = dl[n]
    BY <1>1 DEF AfterReleases
  <2>2. Loosened(dl, {s})
    BY <1>1, ReleaseLoosens
  <2>3. claims[n] # None /\ claims[n].socketId = s
    BY <1>1, NameClaimsAssumption
  <2> HIDE DEF dl, s
  <2> QED
    BY <2>1, <2>2, <2>3 DEF Loosened, owner
<1>2. CASE s \notin V
  <2>1. AfterReleases(V)[n] = claims[n]
    BY <1>2 DEF AfterReleases
  <2> QED
    BY <1>2, <2>1 DEF owner
<1> QED
  BY <1>1, <1>2

LEMMA ReleaseOwnerLoosens ==
  ASSUME NEW cl, NEW V, Loosened(cl, V), NEW c
  PROVE  Loosened(AfterReleaseOwner(cl, c), V)
<1>1. \A n \in Names : AfterReleaseOwner(cl, c)[n] \in {None, cl[n]}
  BY DEF AfterReleaseOwner
<1> QED
  BY <1>1 DEF Loosened, owner

LEMMA FreeNameLoosens ==
  ASSUME NEW cl \in ClaimTable, NEW V, Loosened(cl, V), NEW k
  PROVE  Loosened(FreeName(cl, k), V)
<1>1. \A n \in Names : FreeName(cl, k)[n] \in {None, cl[n]}
  <2> DEFINE m == claimNameForHost(k)
  <2>1. m = None \/ m \in Names
    BY TunnelTablesAssumption DEF claimNameForHost
  <2> QED
    BY <2>1 DEF FreeName, AfterDeleteName, ClaimTable
<1> QED
  BY <1>1 DEF Loosened, owner

LEMMA PurgeLoosens ==
  ASSUME NEW P
  PROVE  Loosened(Purge(claims, P), {})
<1>1. \A n \in Names : Purge(claims, P)[n] \in {None, claims[n]}
  BY DEF Purge
<1> QED
  BY <1>1 DEF Loosened, owner

LEMMA AgeLoosens ==
  ASSUME TypeOK
  PROVE  Loosened(Age(claims), {})
<1> SUFFICES ASSUME NEW n \in Names
             PROVE  LET cl == Age(claims) IN
                    /\ cl[n] # None /\ cl[n].socketId # None => cl[n] = claims[n]
                    /\ owner(cl, n) # None =>
                         owner(claims, n) # None /\ cl[n].clientId = claims[n].clientId
  BY DEF Loosened
<1>1. CASE Age(claims)[n] = claims[n]
  BY <1>1 DEF owner
<1>2. CASE Age(claims)[n] # claims[n]
  <2>1. /\ claims[n] \in Entry /\ claims[n].socketId = None
        /\ Age(claims)[n] = [claims[n] EXCEPT !.idle = @ + 1]
    BY <1>2 DEF Age, TypeOK, ClaimTable
  <2>2. /\ Age(claims)[n].socketId = None
        /\ Age(claims)[n].clientId = claims[n].clientId
        /\ Age(claims)[n].idle = claims[n].idle + 1
        /\ claims[n].idle \in Int
    BY <2>1, IdleCapNat DEF Entry
  <2>3. _expired(claims[n]) => _expired(Age(claims)[n])
    BY <2>1, <2>2, ClaimTtlInt DEF _expired
  <2>4. claims[n] # None
    BY <2>1, NameClaimsAssumption
  <2> QED
    BY <2>2, <2>3, <2>4 DEF owner
<1> QED
  BY <1>1, <1>2

\* A route into V is among the aliases its socket's onDisconnect removes.
LEMMA DropRoutes ==
  ASSUME RoutesLive, NEW V, NEW first
  PROVE  Drop(tab, V, first, hs, granted).routes =
           [k \in Keys |-> IF tab.routes[k] \in V \ {None} THEN None
                                                           ELSE tab.routes[k]]
<1>1. \A k \in Keys : tab.routes[k] # None =>
        (Unrouted(tab, k, V, first, hs, granted) <=> tab.routes[k] \in V)
  BY DEF Unrouted, RoutesLive
<1>2. \A k \in Keys :
        (IF Unrouted(tab, k, V, first, hs, granted) THEN None ELSE tab.routes[k])
          = (IF tab.routes[k] \in V \ {None} THEN None ELSE tab.routes[k])
  BY <1>1
<1> QED
  BY <1>2 DEF Drop

\* Whatever closes the sockets of V, and lets go of their claims, keeps the
\* routes and the claims in agreement.
LEMMA ClosingKeepsRouteInv ==
  ASSUME TypeOK, RouteInv, NEW V,
         tab'.routes = [k \in Keys |-> IF tab.routes[k] \in V \ {None}
                                         THEN None ELSE tab.routes[k]],
         Loosened(claims', V), Leave(V)
  PROVE  RouteInv'
<1>k. \A n \in Names : HostFor[n] \in Keys
  BY TunnelTablesAssumption
<1>r. \A k \in Keys : tab'.routes[k] # None =>
        /\ tab'.routes[k] = tab.routes[k] /\ tab.routes[k] \notin V
        /\ tab.routes[k] \in Sockets
        /\ phase[tab.routes[k]] = "open"
  BY DEF TypeOK, Tables, RouteInv, RoutesLive
<1>h. \A s \in Sockets : phase[s] = "open" =>
        /\ s \notin V => phase'[s] = "open"
        /\ hs'[s] = hs[s] /\ granted'[s] = granted[s]
  BY DEF Leave
<1>n. \A n \in Names : \A r \in Announcers(n) : r \in Announcers(n)' /\ hs'[r] = hs[r]
  BY DEF Announcers, Leave
<1>c. \A n \in Names : claims'[n] # None /\ claims'[n].socketId # None =>
        /\ claims'[n] = claims[n] /\ claims[n].socketId \notin V
        /\ claims[n].socketId \in Sockets
        /\ phase[claims[n].socketId] = "open"
  <2> SUFFICES ASSUME NEW n \in Names, claims'[n] # None, claims'[n].socketId # None
               PROVE  /\ claims'[n] = claims[n] /\ claims[n].socketId \notin V
                      /\ claims[n].socketId \in Sockets
                      /\ phase[claims[n].socketId] = "open"
    OBVIOUS
  <2>1. claims'[n] = claims[n] /\ claims[n].socketId \notin V
    BY DEF Loosened
  <2>2. claims[n] \in Entry
    BY <2>1 DEF TypeOK, ClaimTable
  <2> QED
    BY <2>1, <2>2 DEF Entry, RouteInv, ClaimsBacked
<1>1. RoutesLive'
  BY <1>r, <1>h DEF RouteInv, RoutesLive
<1>2. ClaimsBacked'
  BY <1>c, <1>h DEF RouteInv, ClaimsBacked
<1>3. UrlIsLive'
  <2> SUFFICES ASSUME NEW n \in Names, claims'[n] # None, claims'[n].socketId # None
               PROVE  tab'.routes[HostFor[n]] = claims'[n].socketId \/ Announcers(n)' # {}
    BY DEF UrlIsLive
  <2>1. tab.routes[HostFor[n]] = claims[n].socketId \/ Announcers(n) # {}
    BY <1>c DEF RouteInv, UrlIsLive
  <2>2. Announcers(n) # {} => Announcers(n)' # {}
    BY <1>n
  <2> QED
    BY <2>1, <2>2, <1>c, <1>k, NameClaimsAssumption
<1>4. RouteMatchesClaim'
  <2> SUFFICES ASSUME NEW n \in Names, owner(claims', n) # None,
                      tab'.routes[HostFor[n]] # None
               PROVE  \/ hs'[tab'.routes[HostFor[n]]].owner = claims'[n].clientId
                      \/ \E r \in Announcers(n)' : hs'[r].owner # claims'[n].clientId
    BY DEF RouteMatchesClaim
  <2>1. owner(claims, n) # None /\ claims'[n].clientId = claims[n].clientId
    BY DEF Loosened
  <2>2. /\ tab'.routes[HostFor[n]] = tab.routes[HostFor[n]]
        /\ hs'[tab.routes[HostFor[n]]] = hs[tab.routes[HostFor[n]]]
    BY <1>r, <1>h, <1>k
  <2>3. \/ hs[tab.routes[HostFor[n]]].owner = claims[n].clientId
        \/ \E r \in Announcers(n) : hs[r].owner # claims[n].clientId
    BY <2>1, <2>2 DEF RouteInv, RouteMatchesClaim
  <2> QED
    BY <2>1, <2>2, <2>3, <1>n
<1>5. \A s \in Sockets : phase'[s] = "new" => granted'[s] = {}
  BY DEF RouteInv, Leave
<1> QED
  BY <1>1, <1>2, <1>3, <1>4, <1>5 DEF RouteInv

\* The hosts of the names a socket was granted are its own aliases; the host of
\* another name is one only when it is dialled or announced.
LEMMA NameAliases ==
  ASSUME NEW h \in Handshakes, NEW G \in SUBSET Names, NEW n \in Names
  PROVE  /\ n \in G => HostFor[n] \in Aliases(h, G)
         /\ HostFor[n] \in Aliases(h, G) =>
              n \in G \/ h.host = HostFor[n] \/ HostFor[n] \in h.keys
<1>1. ASSUME NEW m \in G, HostFor[m] = HostFor[n] PROVE m = n
  BY <1>1, TunnelTablesAssumption
<1> QED
  BY <1>1 DEF Aliases

\* A dialled host that is the host of a name has that name requested.
LEMMA DialledNameRequested ==
  ASSUME NEW h \in Handshakes, NEW n \in Names, h.host = HostFor[n]
  PROVE  n \in resolveRequestedNames(h)
<1>1. NameOf[h.host] = n /\ n # None
  BY TunnelTablesAssumption
<1> QED
  BY <1>1 DEF resolveRequestedNames

LEMMA AdmitKeepsRouteInv ==
  ASSUME TypeOK, RouteInv, NEW s \in Sockets, NEW h \in Handshakes, Admit(s, h)
  PROVE  RouteInv'
<1> DEFINE S == resolveRequestedNames(h)
<1>1. S \in SUBSET Names
  BY RequestedNames, HandshakesAssumption
<1>2. /\ phase[s] = "new"
      /\ phase' = [phase EXCEPT ![s] = "open"]
      /\ hs' = [hs EXCEPT ![s] = h]
      /\ granted' = [granted EXCEPT ![s] = S]
      /\ claims' = AfterClaim(claims, S, h.owner, s)
      /\ tab' = Connect(tab, s, h, S)
  BY DEF Admit, Finish
<1> HIDE DEF S
<1>3. \A k \in Keys : tab'.routes[k] = IF k \in Aliases(h, S) THEN s ELSE tab.routes[k]
  BY <1>2 DEF Connect
<1>s. s # None
  BY NameClaimsAssumption
<1>4. /\ phase'[s] = "open" /\ hs'[s] = h /\ granted'[s] = S
      /\ \A r \in Sockets \ {s} : /\ phase'[r] = phase[r] /\ hs'[r] = hs[r]
                                  /\ granted'[r] = granted[r]
  BY <1>2 DEF TypeOK
<1>r. \A k \in Keys : tab.routes[k] # None =>
        tab.routes[k] \in Sockets \ {s}
  BY <1>2 DEF RouteInv, RoutesLive, TypeOK, Tables
<1>c. ASSUME NEW n \in Names \ S
      PROVE  /\ claims'[n] = claims[n]
             /\ claims[n] # None /\ claims[n].socketId # None =>
                  claims[n].socketId \in Sockets \ {s}
  <2>1. claims[n] # None => claims[n] \in Entry
    BY DEF TypeOK, ClaimTable
  <2> QED
    BY <1>2, <2>1 DEF AfterClaim, RouteInv, ClaimsBacked, Entry
<1>n. ASSUME NEW n \in S
      PROVE  claims'[n] = [clientId |-> h.owner, socketId |-> s, idle |-> 0]
  BY <1>n, <1>1, <1>2 DEF AfterClaim
<1>a. ASSUME NEW n \in Names
      PROVE  /\ HostFor[n] \in Keys
             /\ n \in S => tab'.routes[HostFor[n]] = s
             /\ n \notin S =>
                  \/ tab'.routes[HostFor[n]] = tab.routes[HostFor[n]]
                  \/ tab'.routes[HostFor[n]] = s /\ s \in Announcers(n)'
  <2>1. n \in S => HostFor[n] \in Aliases(h, S)
    BY <1>1, NameAliases
  <2>2. n \notin S /\ HostFor[n] \in Aliases(h, S) =>
          h.host # HostFor[n] /\ HostFor[n] \in h.keys
    BY <1>1, NameAliases, DialledNameRequested DEF S
  <2>3. n \notin S /\ h.host # HostFor[n] /\ HostFor[n] \in h.keys => s \in Announcers(n)'
    BY <1>4 DEF Announcers
  <2>4. HostFor[n] \in Keys
    BY TunnelTablesAssumption
  <2>5. tab'.routes[HostFor[n]] =
          IF HostFor[n] \in Aliases(h, S) THEN s ELSE tab.routes[HostFor[n]]
    BY <1>3, <2>4
  <2> QED
    BY <2>1, <2>2, <2>3, <2>4, <2>5
<1>o. \A n \in Names : \A r \in Announcers(n) : r \in Announcers(n)' /\ hs'[r] = hs[r]
  BY <1>2, <1>4 DEF Announcers
<1>5. RoutesLive'
  <2> SUFFICES ASSUME NEW k \in Keys, tab'.routes[k] # None
               PROVE  LET r == tab'.routes[k] IN
                        phase'[r] = "open" /\ k \in Aliases(hs'[r], granted'[r])
    BY DEF RoutesLive
  <2>1. CASE k \in Aliases(h, S)
    BY <2>1, <1>3, <1>4
  <2>2. CASE k \notin Aliases(h, S)
    BY <2>2, <1>3, <1>4, <1>r DEF RouteInv, RoutesLive
  <2> QED
    BY <2>1, <2>2
<1>6. ClaimsBacked'
  <2> SUFFICES ASSUME NEW n \in Names, claims'[n] # None, claims'[n].socketId # None
               PROVE  LET r == claims'[n].socketId IN
                        /\ phase'[r] = "open" /\ n \in granted'[r]
                        /\ hs'[r].owner = claims'[n].clientId
    BY DEF ClaimsBacked
  <2>1. CASE n \in S
    BY <2>1, <1>n, <1>4
  <2>2. CASE n \notin S
    BY <2>2, <1>c, <1>4 DEF RouteInv, ClaimsBacked
  <2> QED
    BY <2>1, <2>2
<1>7. UrlIsLive'
  <2> SUFFICES ASSUME NEW n \in Names, claims'[n] # None, claims'[n].socketId # None
               PROVE  tab'.routes[HostFor[n]] = claims'[n].socketId \/ Announcers(n)' # {}
    BY DEF UrlIsLive
  <2>1. CASE n \in S
    BY <2>1, <1>a, <1>n
  <2>2. CASE n \notin S
    <3>1. tab.routes[HostFor[n]] = claims[n].socketId \/ Announcers(n) # {}
      BY <2>2, <1>c DEF RouteInv, UrlIsLive
    <3>2. Announcers(n) # {} => Announcers(n)' # {}
      BY <1>o
    <3> QED
      BY <2>2, <3>1, <3>2, <1>a, <1>c
  <2> QED
    BY <2>1, <2>2
<1>8. RouteMatchesClaim'
  <2> SUFFICES ASSUME NEW n \in Names, owner(claims', n) # None,
                      tab'.routes[HostFor[n]] # None
               PROVE  \/ hs'[tab'.routes[HostFor[n]]].owner = claims'[n].clientId
                      \/ \E r \in Announcers(n)' : hs'[r].owner # claims'[n].clientId
    BY DEF RouteMatchesClaim
  <2>1. CASE n \in S
    BY <2>1, <1>a, <1>n, <1>4
  <2>2. CASE n \notin S /\ tab'.routes[HostFor[n]] = s /\ s \in Announcers(n)'
    BY <2>2
  <2>3. CASE n \notin S /\ tab'.routes[HostFor[n]] = tab.routes[HostFor[n]]
    <3>1. owner(claims, n) # None /\ claims'[n] = claims[n]
      BY <2>3, <1>c DEF owner
    <3>2. \/ hs[tab.routes[HostFor[n]]].owner = claims[n].clientId
          \/ \E r \in Announcers(n) : hs[r].owner # claims[n].clientId
      BY <2>3, <3>1 DEF RouteInv, RouteMatchesClaim
    <3>3. hs'[tab.routes[HostFor[n]]] = hs[tab.routes[HostFor[n]]]
      BY <2>3, <1>a, <1>r, <1>4
    <3> QED
      BY <2>3, <3>1, <3>2, <3>3, <1>o
  <2> QED
    BY <2>1, <2>2, <2>3, <1>a
<1>9. \A r \in Sockets : phase'[r] = "new" => granted'[r] = {}
  BY <1>4 DEF RouteInv
<1> QED
  BY <1>5, <1>6, <1>7, <1>8, <1>9 DEF RouteInv

LEMMA TakeOverKeepsRouteInv ==
  ASSUME TypeOK, RouteInv, NEW s \in Sockets, NEW h \in Handshakes, TakeOver(s, h)
  PROVE  RouteInv'
<1> DEFINE e == tab.routes[h.host]
           first == [NoFirst EXCEPT ![e] = h.host]
           closed == Drop(tab, {e}, first, hs, granted)
<1>1. /\ phase[s] = "new"
      /\ e # None /\ phase[e] = "open"
      /\ hs[e].owner = h.owner
      /\ claims' = AfterRelease(claims, granted[e], e)
      /\ tab' = Connect(closed, s, h, {})
      /\ phase' = [phase EXCEPT ![e] = "gone", ![s] = "open"]
      /\ hs' = [hs EXCEPT ![s] = h]
      /\ granted' = granted
  BY DEF TakeOver, LiveAt, MayReplace
<1>h. h \in Handshake /\ h.host \in Keys
  BY HandshakesAssumption, TunnelTablesAssumption DEF Handshake
<1>e. e \in Sockets /\ e # s
  <2>1. tab.routes \in [Keys -> Sockets \cup {None}]
    BY DEF TypeOK, Tables
  <2>2. e \in Sockets \cup {None}
    BY <2>1, <1>h
  <2> HIDE DEF e
  <2> QED
    BY <2>2, <1>1
<1>2. \A k \in Keys : closed.routes[k] =
        IF tab.routes[k] = e THEN None ELSE tab.routes[k]
  <2>1. closed.routes = [k \in Keys |-> IF tab.routes[k] \in {e} \ {None}
                                          THEN None ELSE tab.routes[k]]
    BY DropRoutes DEF RouteInv
  <2> HIDE DEF closed, e
  <2> QED
    BY <1>1, <2>1
<1> HIDE DEF closed, first
<1>3. \A k \in Keys : tab'.routes[k] =
        IF k \in Aliases(h, {}) THEN s
        ELSE IF tab.routes[k] = e THEN None ELSE tab.routes[k]
  BY <1>1, <1>2 DEF Connect
<1> HIDE DEF e
<1>4. /\ phase'[s] = "open" /\ hs'[s] = h
      /\ \A r \in Sockets \ {s, e} : phase'[r] = phase[r] /\ hs'[r] = hs[r]
      /\ s # None
  BY <1>1, <1>e, NameClaimsAssumption DEF TypeOK
<1>r. \A k \in Keys : tab.routes[k] # None =>
        tab.routes[k] \in Sockets \ {s}
  BY <1>1 DEF RouteInv, RoutesLive, TypeOK, Tables
<1>l. Loosened(claims', {e})
  BY <1>1, <1>e, ReleaseLoosens DEF RouteInv
<1>c. ASSUME NEW n \in Names, claims'[n] # None, claims'[n].socketId # None
      PROVE  /\ claims'[n] = claims[n]
             /\ claims[n].socketId \in Sockets \ {s, e}
  <2>1. claims'[n] = claims[n] /\ claims[n].socketId # e
    BY <1>c, <1>l DEF Loosened
  <2>2. claims[n] \in Entry
    BY <1>c, <2>1 DEF TypeOK, ClaimTable
  <2> QED
    BY <1>1, <1>c, <2>1, <2>2 DEF Entry, RouteInv, ClaimsBacked
<1>g. granted'[s] = {}
  BY <1>1 DEF RouteInv
<1>a. ASSUME NEW n \in Names, HostFor[n] \in Aliases(h, {})
      PROVE  h.host = HostFor[n] \/ s \in Announcers(n)'
  <2>1. h.host = HostFor[n] \/ HostFor[n] \in h.keys
    BY <1>a, NameAliases
  <2> QED
    BY <2>1, <1>4, <1>g DEF Announcers
<1>o. \A n \in Names : \A r \in Announcers(n) : r \in Announcers(n)' /\ hs'[r] = hs[r]
  <2> SUFFICES ASSUME NEW n \in Names, NEW r \in Announcers(n)
               PROVE  r \in Announcers(n)' /\ hs'[r] = hs[r]
    OBVIOUS
  <2>1. r \in Sockets /\ r # s /\ phase[r] # "new"
    BY <1>1 DEF Announcers
  <2>2. hs'[r] = hs[r] /\ granted'[r] = granted[r]
    BY <1>1, <2>1 DEF TypeOK
  <2>3. phase'[r] # "new"
    BY <1>1, <1>e, <2>1 DEF TypeOK
  <2> QED
    BY <2>1, <2>2, <2>3 DEF Announcers
<1>5. RoutesLive'
  <2> SUFFICES ASSUME NEW k \in Keys, tab'.routes[k] # None
               PROVE  LET r == tab'.routes[k] IN
                        phase'[r] = "open" /\ k \in Aliases(hs'[r], granted'[r])
    BY DEF RoutesLive
  <2>1. CASE k \in Aliases(h, {})
    <3>1. k \in Aliases(h, granted[s])
      BY <2>1 DEF Aliases
    <3>2. tab'.routes[k] = s
      BY <2>1, <1>3
    <3>3. hs'[s] = h /\ granted'[s] = granted[s] /\ phase'[s] = "open"
      BY <1>1, <1>4
    <3> QED
      BY <3>1, <3>2, <3>3
  <2>2. CASE k \notin Aliases(h, {})
    <3> DEFINE r == tab.routes[k]
    <3>1. tab'.routes[k] = r /\ r \in Sockets \ {s, e}
      BY <2>2, <1>3, <1>r
    <3>2. phase[r] = "open" /\ k \in Aliases(hs[r], granted[r])
      BY <3>1, <1>r, NameClaimsAssumption DEF RouteInv, RoutesLive
    <3>3. phase'[r] = phase[r] /\ hs'[r] = hs[r] /\ granted'[r] = granted[r]
      BY <3>1, <1>1, <1>4
    <3> QED
      BY <3>1, <3>2, <3>3
  <2> QED
    BY <2>1, <2>2
<1>6. ClaimsBacked'
  <2> SUFFICES ASSUME NEW n \in Names, claims'[n] # None, claims'[n].socketId # None
               PROVE  LET r == claims'[n].socketId IN
                        /\ phase'[r] = "open" /\ n \in granted'[r]
                        /\ hs'[r].owner = claims'[n].clientId
    BY DEF ClaimsBacked
  <2> DEFINE r == claims[n].socketId
  <2>1. claims'[n] = claims[n] /\ r \in Sockets \ {s, e}
    BY <1>c
  <2>2. phase[r] = "open" /\ n \in granted[r] /\ hs[r].owner = claims[n].clientId
    BY <2>1 DEF RouteInv, ClaimsBacked
  <2>3. phase'[r] = phase[r] /\ hs'[r] = hs[r] /\ granted'[r] = granted[r]
    BY <2>1, <1>1, <1>4
  <2> QED
    BY <2>1, <2>2, <2>3
<1>7. UrlIsLive'
  <2> SUFFICES ASSUME NEW n \in Names, claims'[n] # None, claims'[n].socketId # None
               PROVE  tab'.routes[HostFor[n]] = claims'[n].socketId \/ Announcers(n)' # {}
    BY DEF UrlIsLive
  <2>1. /\ tab.routes[HostFor[n]] = claims[n].socketId \/ Announcers(n) # {}
        /\ claims[n].socketId # e
    BY <1>c DEF RouteInv, UrlIsLive
  <2>2. CASE Announcers(n) # {}
    BY <2>2, <1>o
  <2>3. CASE HostFor[n] \in Aliases(h, {}) /\ h.host # HostFor[n]
    BY <2>3, <1>a
  <2>4. CASE tab.routes[HostFor[n]] = claims[n].socketId /\ HostFor[n] \notin Aliases(h, {})
    BY <1>3, <1>c, <2>1, <2>4, TunnelTablesAssumption
  <2> QED
    BY <2>1, <2>2, <2>3, <2>4 DEF e
<1>8. RouteMatchesClaim'
  <2> SUFFICES ASSUME NEW n \in Names, owner(claims', n) # None,
                      tab'.routes[HostFor[n]] # None
               PROVE  \/ hs'[tab'.routes[HostFor[n]]].owner = claims'[n].clientId
                      \/ \E r \in Announcers(n)' : hs'[r].owner # claims'[n].clientId
    BY DEF RouteMatchesClaim
  <2>1. owner(claims, n) # None /\ claims'[n].clientId = claims[n].clientId
    BY <1>l DEF Loosened
  <2>2. HostFor[n] \in Keys
    BY TunnelTablesAssumption
  <2>3. CASE \E r \in Announcers(n) : hs[r].owner # claims[n].clientId
    BY <2>1, <2>3, <1>o
  <2>4. CASE HostFor[n] \in Aliases(h, {}) /\ s \in Announcers(n)'
    <3>1. tab'.routes[HostFor[n]] = s
      BY <2>2, <2>4, <1>3
    <3> QED
      BY <2>4, <3>1
  <2>5. CASE /\ HostFor[n] \in Aliases(h, {}) /\ h.host = HostFor[n]
             /\ ~\E r \in Announcers(n) : hs[r].owner # claims[n].clientId
    <3>1. tab.routes[HostFor[n]] = e
      BY <2>5 DEF e
    <3>2. hs[e].owner = claims[n].clientId
      BY <2>1, <2>5, <3>1, <1>1 DEF RouteInv, RouteMatchesClaim
    <3> QED
      BY <2>1, <2>2, <2>5, <3>2, <1>1, <1>3, <1>4
  <2>6. CASE /\ HostFor[n] \notin Aliases(h, {})
             /\ ~\E r \in Announcers(n) : hs[r].owner # claims[n].clientId
    <3>1. /\ tab'.routes[HostFor[n]] = tab.routes[HostFor[n]]
          /\ tab.routes[HostFor[n]] # None
          /\ tab.routes[HostFor[n]] # e
      BY <2>2, <2>6, <1>3
    <3>2. hs[tab.routes[HostFor[n]]].owner = claims[n].clientId
      BY <2>1, <2>6, <3>1 DEF RouteInv, RouteMatchesClaim
    <3> QED
      BY <2>1, <2>2, <3>1, <3>2, <1>4, <1>r
  <2> QED
    BY <2>3, <2>4, <2>5, <2>6, <1>a
<1>9. \A r \in Sockets : phase'[r] = "new" => granted'[r] = {}
  BY <1>1, <1>4, <1>e DEF RouteInv, TypeOK
<1> QED
  BY <1>5, <1>6, <1>7, <1>8, <1>9 DEF RouteInv

-----------------------------------------------------------------------------
LEMMA RouteInvIsInvariant == Spec => [](TypeOK /\ RouteInv)
<1>1. Init => RouteInv
  BY DEF Init, NoTables, NoClaims, owner, RouteInv, RoutesLive, ClaimsBacked,
         UrlIsLive, RouteMatchesClaim
<1>2. TypeOK /\ RouteInv /\ [Next]_vars => RouteInv'
  <2> SUFFICES ASSUME TypeOK, RouteInv, [Next]_vars PROVE RouteInv'
    OBVIOUS
  <2>t. /\ tab.routes = [k \in Keys |-> tab.routes[k]]
        /\ tab.routes \in [Keys -> Sockets \cup {None}]
        /\ None \notin Sockets
        /\ Loosened(claims, {})
    BY NameClaimsAssumption DEF TypeOK, Tables, Loosened
  <2>1. ASSUME NEW s \in Sockets, NEW h \in Handshakes, RefuseBusy(s, h)
        PROVE  RouteInv'
    <3>1. tab' = tab /\ claims' = claims /\ Leave({})
      BY <2>1 DEF RefuseBusy, Finish, TypeOK, Leave
    <3> QED
      BY <2>t, <3>1, ClosingKeepsRouteInv
  <2>2. ASSUME NEW s \in Sockets, NEW h \in Handshakes, RefuseName(s, h)
        PROVE  RouteInv'
    <3>1. tab' = tab /\ Leave({})
      BY <2>2 DEF RefuseName, Finish, TypeOK, Leave
    <3>2. Loosened(claims', {})
      BY <2>2, <2>t, PurgeLoosens DEF RefuseName
    <3> QED
      BY <2>t, <3>1, <3>2, ClosingKeepsRouteInv
  <2>3. ASSUME NEW s \in Sockets, NEW h \in Handshakes, Admit(s, h)
        PROVE  RouteInv'
    BY <2>3, AdmitKeepsRouteInv
  <2>4. ASSUME NEW s \in Sockets, NEW h \in Handshakes, TakeOver(s, h)
        PROVE  RouteInv'
    BY <2>4, TakeOverKeepsRouteInv
  <2>5. ASSUME NEW s \in Sockets, Close(s)
        PROVE  RouteInv'
    <3>1. tab'.routes = [k \in Keys |-> IF tab.routes[k] \in {s} \ {None}
                                          THEN None ELSE tab.routes[k]]
      BY <2>5, DropRoutes DEF Close, RouteInv
    <3>2. Loosened(claims', {s})
      BY <2>5, ReleaseLoosens DEF Close, RouteInv
    <3>3. Leave({s})
      BY <2>5 DEF Close, TypeOK, Leave
    <3> QED
      BY <3>1, <3>2, <3>3, ClosingKeepsRouteInv
  <2>6. ASSUME NEW k \in AdminKeys, RemoveTunnel(k)
        PROVE  RouteInv'
    <3> DEFINE s == tab.routes[k]
    <3>0. s \in Sockets \cup {None}
      BY <2>t, HandshakesAssumption
    <3>1. CASE s = None
      <4>1. claims' = FreeName(claims, k) /\ UNCHANGED <<phase, tab, hs, granted>>
        BY <2>6, <3>1 DEF RemoveTunnel
      <4>2. Loosened(claims', {})
        BY <2>t, <4>1, FreeNameLoosens DEF TypeOK
      <4>3. Leave({})
        BY <4>1 DEF Leave
      <4> QED
        BY <2>t, <4>1, <4>2, <4>3, ClosingKeepsRouteInv
    <3>2. CASE s # None
      <4>1. /\ tab' = Drop(tab, {s}, [NoFirst EXCEPT ![s] = k], hs, granted)
            /\ claims' = FreeName(AfterRelease(claims, granted[s], s), k)
            /\ phase' = [phase EXCEPT ![s] = "gone"]
            /\ UNCHANGED <<hs, granted>>
        BY <2>6, <3>2 DEF RemoveTunnel
      <4>2. tab'.routes = [j \in Keys |-> IF tab.routes[j] \in {s} \ {None}
                                            THEN None ELSE tab.routes[j]]
        BY <4>1, DropRoutes DEF RouteInv
      <4>3. Loosened(claims', {s})
        BY <3>0, <3>2, <4>1, ReleaseType, ReleaseLoosens, FreeNameLoosens
           DEF TypeOK, RouteInv
      <4> HIDE DEF s
      <4>4. Leave({s})
        BY <4>1 DEF TypeOK, Leave
      <4> QED
        BY <4>2, <4>3, <4>4, ClosingKeepsRouteInv
    <3> QED
      BY <3>1, <3>2
  <2>7. ASSUME NEW l \in AdminLabels, RemoveClient(l)
        PROVE  RouteInv'
    <3> DEFINE V == ClientSockets(l)
    <3>1. V \in SUBSET Sockets
      BY DEF ClientSockets
    <3>2. PICK first \in FirstKeys(V) :
            tab' = ForgetClient(Drop(tab, V, first, hs, granted), l)
      BY <2>7 DEF RemoveClient
    <3>3. tab'.routes = [k \in Keys |-> IF tab.routes[k] \in V \ {None}
                                          THEN None ELSE tab.routes[k]]
      <4>1. tab'.routes = Drop(tab, V, first, hs, granted).routes
        BY <3>1, <3>2, DropType DEF ForgetClient, TypeOK, Tables
      <4> QED
        BY <4>1, DropRoutes DEF RouteInv
    <3>4. Loosened(claims', V)
      BY <2>7, <3>1, ReleasesLoosen, ReleaseOwnerLoosens DEF RemoveClient, RouteInv
    <3>5. Leave(V)
      BY <2>7 DEF RemoveClient, Leave
    <3> QED
      BY <3>3, <3>4, <3>5, ClosingKeepsRouteInv
  <2>8. ASSUME NEW l \in AdminLabels, RemoveClientThrows(l)
        PROVE  RouteInv'
    <3>1. PICK V \in SUBSET ClientSockets(l) :
            /\ \E first \in FirstKeys(V) :
                 \E k \in UNION {RoutedKeys(s) \ {first[s]} : s \in V} :
                   tab' = RecordDisconnect(Drop(tab, V, first, hs, granted), l, k)
            /\ claims' = AfterReleases(V)
            /\ phase' = [s \in Sockets |-> IF s \in V THEN "gone" ELSE phase[s]]
            /\ UNCHANGED <<hs, granted>>
      BY <2>8 DEF RemoveClientThrows
    <3>2. V \in SUBSET Sockets
      BY DEF ClientSockets
    <3>3. PICK first, k : tab' = RecordDisconnect(Drop(tab, V, first, hs, granted), l, k)
      BY <3>1
    <3>4. tab'.routes = [j \in Keys |-> IF tab.routes[j] \in V \ {None}
                                          THEN None ELSE tab.routes[j]]
      <4>1. tab'.routes = Drop(tab, V, first, hs, granted).routes
        BY <3>2, <3>3, DropType DEF RecordDisconnect, TypeOK, Tables
      <4> QED
        BY <4>1, DropRoutes DEF RouteInv
    <3>5. Loosened(claims', V)
      BY <3>1, <3>2, ReleasesLoosen DEF RouteInv
    <3>6. Leave(V)
      BY <3>1 DEF Leave
    <3> QED
      BY <3>4, <3>5, <3>6, ClosingKeepsRouteInv
  <2>9. CASE Hour
    <3>1. Leave({})
      BY <2>9 DEF Hour, Leave
    <3> QED
      BY <2>9, <3>1, <2>t, AgeLoosens, ClosingKeepsRouteInv DEF Hour
  <2>10. CASE UNCHANGED vars
    <3>1. Leave({})
      BY <2>10 DEF vars, Leave
    <3> QED
      BY <2>10, <3>1, <2>t, ClosingKeepsRouteInv DEF vars
  <2> QED
    BY <2>1, <2>2, <2>3, <2>4, <2>5, <2>6, <2>7, <2>8, <2>9, <2>10 DEF Next
<1> QED
  BY <1>1, <1>2, ServerTypeCorrect, PTL DEF Spec

(* Every route leads to a connected socket that registered the key.        *)
THEOREM RoutesStayLive == Spec => []RoutesLive
  BY RouteInvIsInvariant, PTL DEF RouteInv

(* A claim that rests on a socket is backed by a connected one of its      *)
(* owner: no name is pinned to a connection that has ended.                *)
THEOREM ServerClaimsStayBacked == Spec => []ClaimsBacked
  BY RouteInvIsInvariant, PTL DEF RouteInv

(* The public URL of a claimed name reaches the socket its claim rests on, *)
(* whatever clients announce, unless one announced that name's host.       *)
THEOREM UrlsStayLive == Spec => []UrlIsLive
  BY RouteInvIsInvariant, PTL DEF RouteInv

(* A name's public host never routes to another client than its owner,     *)
(* unless another client announced that host.                              *)
THEOREM RoutesStayWithOwners == Spec => []RouteMatchesClaim
  BY RouteInvIsInvariant, PTL DEF RouteInv

(* Closing a connection takes no route from another one.                   *)
THEOREM RoutesAreKept == Spec => RoutesKept
<1> DEFINE Kept(k) ==
      tab.routes[k] # None =>
        LET s == tab.routes[k] IN
          phase'[s] = "open" =>
            \/ tab'.routes[k] = s
            \/ tab'.routes[k] # None /\ phase[tab'.routes[k]] = "new"
<1>1. TypeOK /\ RouteInv /\ [Next]_vars => [\A k \in Keys : Kept(k)]_vars
  <2> SUFFICES ASSUME TypeOK, RouteInv, Next, NEW k \in Keys,
                      tab.routes[k] # None, phase'[tab.routes[k]] = "open"
               PROVE  \/ tab'.routes[k] = tab.routes[k]
                      \/ tab'.routes[k] # None /\ phase[tab'.routes[k]] = "new"
    OBVIOUS
  <2> DEFINE r == tab.routes[k]
             Goal == \/ tab'.routes[k] = r
                     \/ tab'.routes[k] # None /\ phase[tab'.routes[k]] = "new"
  <2>r. r \in Sockets /\ r # None
    BY DEF TypeOK, Tables
  <2>n. \A s \in Sockets : s # None
    BY NameClaimsAssumption
  <2>d. ASSUME NEW V, NEW first, r \notin V,
               tab'.routes = Drop(tab, V, first, hs, granted).routes
        PROVE  Goal
    <3>1. tab'.routes = [j \in Keys |-> IF tab.routes[j] \in V \ {None}
                                          THEN None ELSE tab.routes[j]]
      BY <2>d, DropRoutes DEF RouteInv
    <3> QED
      BY <2>d, <3>1
  <2>1. ASSUME NEW s \in Sockets, NEW h \in Handshakes,
               RefuseBusy(s, h) \/ RefuseName(s, h)
        PROVE  Goal
    BY <2>1 DEF RefuseBusy, RefuseName
  <2>2. ASSUME NEW s \in Sockets, NEW h \in Handshakes, Admit(s, h)
        PROVE  Goal
    <3>1. tab'.routes[k] = s \/ tab'.routes[k] = r
      BY <2>2 DEF Admit, Connect
    <3> QED
      BY <2>2, <3>1, <2>n DEF Admit
  <2>3. ASSUME NEW s \in Sockets, NEW h \in Handshakes, TakeOver(s, h)
        PROVE  Goal
    <3> DEFINE e == tab.routes[h.host]
               first == [NoFirst EXCEPT ![e] = h.host]
               closed == Drop(tab, {e}, first, hs, granted)
    <3>1. /\ phase[s] = "new" /\ phase[e] = "open" /\ tab' = Connect(closed, s, h, {})
          /\ phase' = [phase EXCEPT ![e] = "gone", ![s] = "open"]
      BY <2>3 DEF TakeOver, LiveAt
    <3>2. r # e
      <4> HIDE DEF e
      <4>1. e # s
        BY <3>1
      <4>2. r = e => phase'[r] = "gone"
        BY <4>1, <3>1, <2>r DEF TypeOK
      <4> QED
        BY <4>2
    <3>3. closed.routes = [j \in Keys |-> IF tab.routes[j] \in {e} \ {None}
                                            THEN None ELSE tab.routes[j]]
      BY DropRoutes DEF RouteInv
    <3>4. closed.routes[k] = r
      <4> HIDE DEF closed, e
      <4> QED
        BY <3>2, <3>3
    <3>5. tab'.routes[k] = s \/ tab'.routes[k] = r
      <4> HIDE DEF closed
      <4> QED
        BY <3>1, <3>4 DEF Connect
    <3> HIDE DEF closed, e
    <3> QED
      BY <3>1, <3>5, <2>n
  <2>4. ASSUME NEW s \in Sockets, Close(s)
        PROVE  Goal
    <3>1. r # s /\ tab' = Drop(tab, {s}, NoFirst, hs, granted)
      BY <2>4, <2>r DEF Close, TypeOK
    <3> QED
      BY <3>1, <2>d
  <2>5. ASSUME NEW j \in AdminKeys, RemoveTunnel(j)
        PROVE  Goal
    <3> DEFINE s == tab.routes[j]
    <3>1. CASE s = None
      BY <2>5, <3>1 DEF RemoveTunnel
    <3>2. CASE s # None
      <4>1. /\ tab' = Drop(tab, {s}, [NoFirst EXCEPT ![s] = j], hs, granted)
            /\ phase' = [phase EXCEPT ![s] = "gone"]
        BY <2>5, <3>2 DEF RemoveTunnel
      <4>2. r # s
        <5> HIDE DEF s
        <5>1. r = s => phase'[r] = "gone"
          BY <4>1, <2>r DEF TypeOK
        <5> QED
          BY <5>1
      <4> QED
        BY <4>1, <4>2, <2>d
    <3> QED
      BY <3>1, <3>2
  <2>6. ASSUME NEW l \in AdminLabels, RemoveClient(l)
        PROVE  Goal
    <3> DEFINE V == ClientSockets(l)
    <3>1. r \notin V
      BY <2>6, <2>r DEF RemoveClient
    <3>2. PICK first \in FirstKeys(V) :
            tab' = ForgetClient(Drop(tab, V, first, hs, granted), l)
      BY <2>6 DEF RemoveClient
    <3>3. V \in SUBSET Sockets
      BY DEF ClientSockets
    <3>4. tab'.routes = Drop(tab, V, first, hs, granted).routes
      BY <3>2, <3>3, DropType DEF ForgetClient, TypeOK, Tables
    <3> QED
      BY <3>1, <3>4, <2>d
  <2>7. ASSUME NEW l \in AdminLabels, RemoveClientThrows(l)
        PROVE  Goal
    <3>1. PICK V \in SUBSET ClientSockets(l) :
            /\ \E first \in FirstKeys(V) :
                 \E j \in UNION {RoutedKeys(s) \ {first[s]} : s \in V} :
                   tab' = RecordDisconnect(Drop(tab, V, first, hs, granted), l, j)
            /\ phase' = [s \in Sockets |-> IF s \in V THEN "gone" ELSE phase[s]]
      BY <2>7 DEF RemoveClientThrows
    <3>2. V \in SUBSET Sockets
      BY DEF ClientSockets
    <3>3. PICK first, j : tab' = RecordDisconnect(Drop(tab, V, first, hs, granted), l, j)
      BY <3>1
    <3>4. r \notin V
      BY <3>1, <2>r
    <3>5. tab'.routes = Drop(tab, V, first, hs, granted).routes
      BY <3>2, <3>3, DropType DEF RecordDisconnect, TypeOK, Tables
    <3> QED
      BY <3>4, <3>5, <2>d
  <2>8. CASE Hour
    BY <2>8 DEF Hour
  <2> QED
    BY <2>1, <2>2, <2>3, <2>4, <2>5, <2>6, <2>7, <2>8 DEF Next
<1> QED
  BY <1>1, RouteInvIsInvariant, PTL DEF Spec, RoutesKept

-----------------------------------------------------------------------------
(* What a socket brings is kept with it, and it is granted all it asks for *)
(* or, when it takes a connection over, nothing.                           *)
SocketsInv ==
  \A s \in Sockets :
    /\ phase[s] = "new" => granted[s] = {}
    /\ phase[s] = "open" =>
         /\ hs[s] \in Handshakes
         /\ granted[s] \in {{}, resolveRequestedNames(hs[s])}

\* The routes, aliases and active hosts change as if V had been dropped, and
\* the sockets of V are the ones that close.
Closes(V, first) ==
  LET d == Drop(tab, V, first, hs, granted) IN
  /\ tab'.routes = d.routes /\ tab'.primary = d.primary /\ tab'.active = d.active
  /\ \A r \in Sockets :
       /\ phase'[r] = "open" => phase[r] = "open" /\ r \notin V
       /\ phase'[r] = "new" => phase[r] = "new"
       /\ r \notin V /\ phase[r] = "open" => phase'[r] = "open"
       /\ phase'[r] # "gone" => hs'[r] = hs[r] /\ granted'[r] = granted[r]

LEMMA DropNothing ==
  ASSUME TypeOK, NEW first, NEW t, t \in Tables
  PROVE  LET d == Drop(t, {}, first, hs, granted) IN
         d.routes = t.routes /\ d.primary = t.primary /\ d.active = t.active
<1>1. t.routes = [k \in Keys |-> t.routes[k]] /\ t.primary = [k \in Keys |-> t.primary[k]]
  BY DEF Tables
<1>2. \A k \in Keys : /\ ~Unrouted(t, k, {}, first, hs, granted)
                      /\ ~Unaliased(t, k, {}, first, hs, granted)
  BY DEF Unrouted, Unaliased
<1> QED
  BY <1>1, <1>2 DEF Drop

\* A step that accepts no connection closes some, perhaps none.
\* Unless a client is removed, the key deleted first is the administrator's.
Closed(V, first) ==
  /\ Closes(V, first)
  /\ AdminLabels = {} =>
       \A s \in V : first[s] \in {None} \cup (AdminKeys \cap RoutedKeys(s))

LEMMA OtherStepsClose ==
  ASSUME TypeOK, [Next]_vars,
         \A s \in Sockets, h \in Handshakes : ~Admit(s, h) /\ ~TakeOver(s, h)
  PROVE  \E V \in SUBSET Sockets : \E first : Closed(V, first)
<1>0. ASSUME tab' = tab,
             \A r \in Sockets :
               \/ phase'[r] = "gone" /\ phase[r] # "open"
               \/ phase'[r] = phase[r] /\ hs'[r] = hs[r] /\ granted'[r] = granted[r]
      PROVE  Closed({}, NoFirst)
  BY <1>0, DropNothing DEF Closed, Closes, TypeOK
<1>1. ASSUME NEW s \in Sockets, NEW h \in Handshakes, RefuseBusy(s, h) \/ RefuseName(s, h)
      PROVE  Closed({}, NoFirst)
  <2>1. tab' = tab /\ Finish(s, h, "gone", {}) /\ phase[s] = "new"
    BY <1>1 DEF RefuseBusy, RefuseName
  <2>2. \A r \in Sockets :
          \/ phase'[r] = "gone" /\ phase[r] # "open"
          \/ phase'[r] = phase[r] /\ hs'[r] = hs[r] /\ granted'[r] = granted[r]
    BY <2>1 DEF Finish, TypeOK
  <2> QED
    BY <1>0, <2>1, <2>2
<1>2. ASSUME NEW s \in Sockets, Close(s)
      PROVE  Closed({s}, NoFirst)
  BY <1>2 DEF Close, Closed, Closes, TypeOK, NoFirst
<1>3. ASSUME NEW k \in AdminKeys, RemoveTunnel(k)
      PROVE  \E V \in SUBSET Sockets : \E first : Closed(V, first)
  <2> DEFINE s == tab.routes[k]
  <2>1. CASE s = None
    BY <1>0, <1>3, <2>1 DEF RemoveTunnel
  <2>2. CASE s # None
    <3>1. s \in Sockets
      BY <2>2, HandshakesAssumption DEF TypeOK, Tables
    <3>2. /\ tab' = Drop(tab, {s}, [NoFirst EXCEPT ![s] = k], hs, granted)
          /\ phase' = [phase EXCEPT ![s] = "gone"]
          /\ hs' = hs /\ granted' = granted
      BY <1>3, <2>2 DEF RemoveTunnel
    <3> HIDE DEF s
    <3>3. Closes({s}, [NoFirst EXCEPT ![s] = k])
      BY <3>1, <3>2 DEF Closes, TypeOK
    <3>4. [NoFirst EXCEPT ![s] = k][s] = k /\ k \in RoutedKeys(s)
      BY <3>1, HandshakesAssumption DEF NoFirst, RoutedKeys, s
    <3>5. Closed({s}, [NoFirst EXCEPT ![s] = k])
      BY <3>3, <3>4 DEF Closed
    <3>6. {s} \in SUBSET Sockets
      BY <3>1
    <3> QED
      BY <3>5, <3>6
  <2> QED
    BY <2>1, <2>2
<1>4. ASSUME NEW l \in AdminLabels, RemoveClient(l)
      PROVE  \E V \in SUBSET Sockets : \E first : Closed(V, first)
  <2> DEFINE V == ClientSockets(l)
  <2>1. V \in SUBSET Sockets
    BY DEF ClientSockets
  <2>2. PICK first \in FirstKeys(V) :
          tab' = ForgetClient(Drop(tab, V, first, hs, granted), l)
    BY <1>4 DEF RemoveClient
  <2>3. LET d == Drop(tab, V, first, hs, granted)
        IN tab'.routes = d.routes /\ tab'.primary = d.primary /\ tab'.active = d.active
    BY <2>1, <2>2, DropType DEF ForgetClient, TypeOK, Tables
  <2>4. Closes(V, first)
    BY <1>4, <2>3 DEF RemoveClient, Closes, TypeOK
  <2> QED
    BY <2>1, <2>4 DEF Closed
<1>5. ASSUME NEW l \in AdminLabels, RemoveClientThrows(l)
      PROVE  \E V \in SUBSET Sockets : \E first : Closed(V, first)
  <2>1. PICK V \in SUBSET ClientSockets(l) :
          /\ \E first \in FirstKeys(V) :
               \E k \in UNION {RoutedKeys(s) \ {first[s]} : s \in V} :
                 tab' = RecordDisconnect(Drop(tab, V, first, hs, granted), l, k)
          /\ phase' = [s \in Sockets |-> IF s \in V THEN "gone" ELSE phase[s]]
          /\ hs' = hs /\ granted' = granted
    BY <1>5 DEF RemoveClientThrows
  <2>2. V \in SUBSET Sockets
    BY DEF ClientSockets
  <2>3. PICK first, k : tab' = RecordDisconnect(Drop(tab, V, first, hs, granted), l, k)
    BY <2>1
  <2>4. LET d == Drop(tab, V, first, hs, granted)
        IN tab'.routes = d.routes /\ tab'.primary = d.primary /\ tab'.active = d.active
    BY <2>2, <2>3, DropType DEF RecordDisconnect, TypeOK, Tables
  <2>5. Closes(V, first)
    BY <2>1, <2>4 DEF Closes, TypeOK
  <2> QED
    BY <2>2, <2>5 DEF Closed
<1>6. CASE Hour
  BY <1>0, <1>6 DEF Hour
<1>7. CASE UNCHANGED vars
  BY <1>0, <1>7 DEF vars
<1> QED
  BY <1>1, <1>2, <1>3, <1>4, <1>5, <1>6, <1>7 DEF Next

LEMMA SocketsStaySound == Spec => []SocketsInv
<1>1. Init => SocketsInv
  BY DEF Init, SocketsInv
<1>2. TypeOK /\ SocketsInv /\ [Next]_vars => SocketsInv'
  <2> SUFFICES ASSUME TypeOK, SocketsInv, [Next]_vars PROVE SocketsInv'
    OBVIOUS
  <2>1. ASSUME NEW s \in Sockets, NEW h \in Handshakes, Admit(s, h)
        PROVE  SocketsInv'
    <3> DEFINE S == resolveRequestedNames(h)
    <3>1. /\ phase' = [phase EXCEPT ![s] = "open"]
          /\ hs' = [hs EXCEPT ![s] = h]
          /\ granted' = [granted EXCEPT ![s] = S]
      BY <2>1 DEF Admit, Finish
    <3> QED
      BY <3>1 DEF SocketsInv, TypeOK
  <2>2. ASSUME NEW s \in Sockets, NEW h \in Handshakes, TakeOver(s, h)
        PROVE  SocketsInv'
    <3> DEFINE e == tab.routes[h.host]
    <3>1. /\ phase[s] = "new"
          /\ phase' = [phase EXCEPT ![e] = "gone", ![s] = "open"]
          /\ hs' = [hs EXCEPT ![s] = h]
          /\ granted' = granted
      BY <2>2 DEF TakeOver
    <3> HIDE DEF e
    <3> QED
      BY <3>1 DEF SocketsInv, TypeOK
  <2>3. CASE \A s \in Sockets, h \in Handshakes : ~Admit(s, h) /\ ~TakeOver(s, h)
    <3>1. PICK V, first : V \in SUBSET Sockets /\ Closes(V, first)
      BY <2>3, OtherStepsClose DEF Closed
    <3> QED
      BY <3>1 DEF SocketsInv, Closes
  <2> QED
    BY <2>1, <2>2, <2>3
<1> QED
  BY <1>1, <1>2, ServerTypeCorrect, PTL DEF Spec

\* A host is taken off the active ones with the route that led to its socket.
LEMMA DropKeepsActive ==
  ASSUME TypeOK, RoutesLive, RoutedPrimaryIsActive, NEW V, NEW first,
         NEW s \in Sockets \ V, phase[s] = "open", hs[s].host \in Keys,
         tab.routes[hs[s].host] = s
  PROVE  hs[s].host \in Drop(tab, V, first, hs, granted).active
<1>1. hs[s].host \in tab.active
  BY DEF RoutedPrimaryIsActive
<1>2. ASSUME NEW r \in V, StillPrimary(tab, r, first, hs), hs[r].host = hs[s].host
      PROVE  FALSE
  BY <1>2 DEF StillPrimary
<1> QED
  BY <1>1, <1>2 DEF Drop

(* A tunnel that serves the host it dialled is counted as an active tunnel.*)
THEOREM RoutedPrimariesAreActive == Spec => []RoutedPrimaryIsActive
<1>1. Init => RoutedPrimaryIsActive
  BY DEF Init, RoutedPrimaryIsActive
<1>2. TypeOK /\ RoutesLive /\ SocketsInv /\ RoutedPrimaryIsActive /\ [Next]_vars
        => RoutedPrimaryIsActive'
  <2> SUFFICES ASSUME TypeOK, RoutesLive, SocketsInv, RoutedPrimaryIsActive, [Next]_vars,
                      NEW s \in Sockets, phase'[s] = "open",
                      tab'.routes[hs'[s].host] = s
               PROVE  hs'[s].host \in tab'.active
    BY DEF RoutedPrimaryIsActive
  <2>h. \A h \in Handshakes : h.host \in Keys
    BY HandshakesAssumption, TunnelTablesAssumption DEF Handshake
  <2>n. s # None
    BY NameClaimsAssumption
  <2>1. ASSUME NEW r \in Sockets, NEW h \in Handshakes, Admit(r, h)
        PROVE  hs'[s].host \in tab'.active
    <3> DEFINE S == resolveRequestedNames(h)
    <3>1. /\ phase[r] = "new"
          /\ phase' = [phase EXCEPT ![r] = "open"] /\ hs' = [hs EXCEPT ![r] = h]
          /\ tab' = Connect(tab, r, h, S)
      BY <2>1 DEF Admit, Finish
    <3> HIDE DEF S
    <3>2. tab'.active = tab.active \cup {h.host}
      BY <3>1 DEF Connect
    <3>3. CASE s = r
      BY <3>1, <3>2, <3>3 DEF TypeOK
    <3>4. CASE s # r
      <4>1. phase[s] = "open" /\ hs'[s] = hs[s] /\ hs[s].host \in Keys
        BY <3>1, <3>4, <2>h DEF TypeOK, SocketsInv
      <4>2. tab.routes[hs[s].host] = s
        BY <3>1, <3>4, <4>1 DEF Connect
      <4> QED
        BY <3>2, <4>1, <4>2 DEF RoutedPrimaryIsActive
    <3> QED
      BY <3>3, <3>4
  <2>2. ASSUME NEW r \in Sockets, NEW h \in Handshakes, TakeOver(r, h)
        PROVE  hs'[s].host \in tab'.active
    <3> DEFINE e == tab.routes[h.host]
               first == [NoFirst EXCEPT ![e] = h.host]
               closed == Drop(tab, {e}, first, hs, granted)
    <3>1. /\ phase[r] = "new"
          /\ phase' = [phase EXCEPT ![e] = "gone", ![r] = "open"]
          /\ hs' = [hs EXCEPT ![r] = h]
          /\ tab' = Connect(closed, r, h, {})
          /\ phase[e] = "open"
      BY <2>2 DEF TakeOver, LiveAt
    <3>2. tab'.active = closed.active \cup {h.host}
      BY <3>1 DEF Connect
    <3>3. CASE s = r
      BY <3>1, <3>2, <3>3 DEF TypeOK
    <3>4. CASE s # r
      <4>1. s # e /\ phase[s] = "open" /\ hs'[s] = hs[s]
        <5> HIDE DEF e
        <5> QED
          BY <3>1, <3>4 DEF TypeOK
      <4>2. hs[s].host \in Keys
        BY <4>1, <2>h DEF SocketsInv
      <4>3. closed.routes[hs[s].host] = s
        <5> HIDE DEF closed
        <5> QED
          BY <3>1, <3>4, <4>1, <4>2 DEF Connect
      <4>4. tab.routes[hs[s].host] = s
        <5>1. closed.routes = [k \in Keys |-> IF tab.routes[k] \in {e} \ {None}
                                                THEN None ELSE tab.routes[k]]
          BY DropRoutes
        <5> HIDE DEF closed, e
        <5> QED
          BY <2>n, <4>2, <4>3, <5>1
      <4>5. hs[s].host \in closed.active
        <5>1. s \in Sockets \ {e}
          BY <4>1
        <5> HIDE DEF e
        <5> QED
          BY <5>1, <4>1, <4>2, <4>4, DropKeepsActive
      <4> QED
        BY <3>2, <4>1, <4>5
    <3> QED
      BY <3>3, <3>4
  <2>3. CASE \A r \in Sockets, h \in Handshakes : ~Admit(r, h) /\ ~TakeOver(r, h)
    <3>1. PICK V, first : V \in SUBSET Sockets /\ Closes(V, first)
      BY <2>3, OtherStepsClose DEF Closed
    <3>2. s \in Sockets \ V /\ phase[s] = "open" /\ hs'[s] = hs[s] /\ hs[s].host \in Keys
      BY <3>1, <2>h DEF Closes, SocketsInv
    <3>3. tab.routes[hs[s].host] = s
      <4>1. tab'.routes = [k \in Keys |-> IF tab.routes[k] \in V \ {None}
                                            THEN None ELSE tab.routes[k]]
        BY <3>1, DropRoutes DEF Closes
      <4> QED
        BY <2>n, <3>2, <4>1
    <3> QED
      BY <3>1, <3>2, <3>3, DropKeepsActive DEF Closes
  <2> QED
    BY <2>1, <2>2, <2>3
<1> QED
  BY <1>1, <1>2, ServerTypeCorrect, RoutesStayLive, SocketsStaySound, PTL DEF Spec

-----------------------------------------------------------------------------
(* Two theorems hold for clients and administrators of a common kind only. *)
(* Nobody's aliases include a host somebody else dials:                    *)
NamesDisjoint ==
  \A h, g \in Handshakes :
    h.host \in Aliases(g, resolveRequestedNames(g)) => h.host = g.host

(* and tunnels are removed by the host they dialled, never by client or by *)
(* another alias.                                                          *)
DialledKeysOnly ==
  /\ AdminLabels = {}
  /\ \A k \in AdminKeys, h \in Handshakes :
       k \in Aliases(h, resolveRequestedNames(h)) => k = h.host

\* The alias map agrees with the routes, and only a dialled host keeps its entry
\* after its route is gone.
AliasInv ==
  \A k \in Keys : tab.primary[k] # None =>
    IF tab.routes[k] = None THEN tab.primary[k] = k
    ELSE tab.primary[k] = hs[tab.routes[k]].host

\* The first key the administrator's handler deletes is the dialled host.
LEMMA FirstIsDialled ==
  ASSUME DialledKeysOnly, TypeOK, RoutesLive, SocketsInv, NEW s \in Sockets,
         NEW k \in AdminKeys, tab.routes[k] = s
  PROVE  k = hs[s].host
<1>1. k \in Keys /\ s # None
  BY HandshakesAssumption, NameClaimsAssumption
<1>2. phase[s] = "open" /\ k \in Aliases(hs[s], granted[s])
  BY <1>1 DEF RoutesLive
<1>3. hs[s] \in Handshakes /\ granted[s] \in {{}, resolveRequestedNames(hs[s])}
  BY <1>2 DEF SocketsInv
<1>4. k \in Aliases(hs[s], resolveRequestedNames(hs[s]))
  BY <1>2, <1>3 DEF Aliases
<1> QED
  BY <1>3, <1>4 DEF DialledKeysOnly

\* Dropping sockets keeps the alias map in order, but for the key deleted first.
LEMMA DropKeepsAliases ==
  ASSUME TypeOK, RoutesLive, AliasInv, NEW V, NEW first, NEW k \in Keys,
         LET d == Drop(tab, V, first, hs, granted) IN d.primary[k] # None
  PROVE  LET d == Drop(tab, V, first, hs, granted) IN
         /\ d.primary[k] = tab.primary[k]
         /\ d.routes[k] = tab.routes[k] \/ d.routes[k] = None
         /\ d.routes[k] = None =>
              \/ d.primary[k] = k
              \/ tab.routes[k] \in V \ {None} /\ k = first[tab.routes[k]]
<1> DEFINE d == Drop(tab, V, first, hs, granted)
<1>1. /\ d.routes[k] = IF tab.routes[k] \in V \ {None} THEN None ELSE tab.routes[k]
      /\ d.primary[k] =
           IF Unaliased(tab, k, V, first, hs, granted) THEN None ELSE tab.primary[k]
  BY DropRoutes DEF Drop
<1> HIDE DEF d
<1>2. ~Unaliased(tab, k, V, first, hs, granted) /\ d.primary[k] = tab.primary[k]
  BY <1>1 DEF d
<1>3. CASE tab.routes[k] \in V \ {None}
  <2>1. k \in Aliases(hs[tab.routes[k]], granted[tab.routes[k]])
    BY <1>3 DEF RoutesLive
  <2>2. k = first[tab.routes[k]] \/ k = hs[tab.routes[k]].host
    BY <1>2, <1>3, <2>1 DEF Unaliased, Unrouted
  <2>3. tab.primary[k] = hs[tab.routes[k]].host
    BY <1>2, <1>3 DEF AliasInv, d
  <2> QED
    BY <1>1, <1>2, <1>3, <2>2, <2>3 DEF d
<1>4. CASE tab.routes[k] \notin V \ {None}
  BY <1>1, <1>2, <1>4 DEF AliasInv, d
<1> QED
  BY <1>3, <1>4

LEMMA AliasesStayInOrder ==
  ASSUME DialledKeysOnly
  PROVE  Spec => []AliasInv
<1>1. Init => AliasInv
  BY DEF Init, NoTables, AliasInv
<1>2. TypeOK /\ RoutesLive /\ SocketsInv /\ AliasInv /\ [Next]_vars => AliasInv'
  <2> SUFFICES ASSUME TypeOK, RoutesLive, SocketsInv, AliasInv, [Next]_vars,
                      NEW k \in Keys, tab'.primary[k] # None
               PROVE  IF tab'.routes[k] = None THEN tab'.primary[k] = k
                      ELSE tab'.primary[k] = hs'[tab'.routes[k]].host
    BY DEF AliasInv
  <2> DEFINE Goal == IF tab'.routes[k] = None THEN tab'.primary[k] = k
                     ELSE tab'.primary[k] = hs'[tab'.routes[k]].host
  <2>r. tab.routes[k] # None =>
          tab.routes[k] \in Sockets /\ phase[tab.routes[k]] = "open"
    BY DEF TypeOK, Tables, RoutesLive
  <2>n. \A s \in Sockets : s # None
    BY NameClaimsAssumption
  <2>1. ASSUME NEW s \in Sockets, NEW h \in Handshakes, Admit(s, h)
        PROVE  Goal
    <3> DEFINE S == resolveRequestedNames(h)
    <3>1. phase[s] = "new" /\ hs' = [hs EXCEPT ![s] = h] /\ tab' = Connect(tab, s, h, S)
      BY <2>1 DEF Admit, Finish
    <3> HIDE DEF S
    <3>2. /\ hs'[s] = h
          /\ \A r \in Sockets \ {s} : hs'[r] = hs[r]
      BY <3>1 DEF TypeOK
    <3>3. CASE k \in Aliases(h, S)
      BY <3>1, <3>2, <3>3, <2>n DEF Connect
    <3>4. CASE k \notin Aliases(h, S)
      BY <3>1, <3>2, <3>4, <2>r DEF Connect, AliasInv
    <3> QED
      BY <3>3, <3>4
  <2>2. ASSUME NEW s \in Sockets, NEW h \in Handshakes, TakeOver(s, h)
        PROVE  Goal
    <3> DEFINE e == tab.routes[h.host]
               first == [NoFirst EXCEPT ![e] = h.host]
               closed == Drop(tab, {e}, first, hs, granted)
    <3>1. /\ phase[s] = "new" /\ hs' = [hs EXCEPT ![s] = h]
          /\ tab' = Connect(closed, s, h, {})
      BY <2>2 DEF TakeOver
    <3>2. /\ hs'[s] = h
          /\ \A r \in Sockets \ {s} : hs'[r] = hs[r]
      BY <3>1 DEF TypeOK
    <3>3. CASE k \in Aliases(h, {})
      <4> HIDE DEF closed
      <4> QED
        BY <3>1, <3>2, <3>3, <2>n DEF Connect
    <3>4. CASE k \notin Aliases(h, {})
      <4>1. tab'.routes[k] = closed.routes[k] /\ tab'.primary[k] = closed.primary[k]
        <5> HIDE DEF closed
        <5> QED
          BY <3>1, <3>4 DEF Connect
      <4>2. k # h.host
        BY <3>4 DEF Aliases
      <4>3. e \in Sockets
        BY <2>2, HandshakesAssumption, TunnelTablesAssumption
           DEF TakeOver, LiveAt, TypeOK, Tables, Handshake
      <4>4. first[e] = h.host
        BY <4>3 DEF NoFirst
      <4>5. /\ closed.primary[k] = tab.primary[k]
            /\ closed.routes[k] = tab.routes[k] \/ closed.routes[k] = None
            /\ closed.routes[k] = None =>
                 \/ closed.primary[k] = k
                 \/ tab.routes[k] \in {e} \ {None} /\ k = first[tab.routes[k]]
        <5>1. closed.primary[k] # None
          BY <4>1
        <5> HIDE DEF e, first
        <5> QED
          BY <5>1, DropKeepsAliases
      <4>6. tab.routes[k] \in {e} => first[tab.routes[k]] = h.host
        BY <4>4
      <4> HIDE DEF e, first, closed
      <4> QED
        BY <3>1, <3>2, <4>1, <4>2, <4>5, <4>6, <2>r DEF AliasInv
    <3> QED
      BY <3>3, <3>4
  <2>3. CASE \A s \in Sockets, h \in Handshakes : ~Admit(s, h) /\ ~TakeOver(s, h)
    <3>1. PICK V, first : V \in SUBSET Sockets /\ Closed(V, first)
      BY <2>3, OtherStepsClose
    <3> DEFINE d == Drop(tab, V, first, hs, granted)
    <3>2. tab'.routes = d.routes /\ tab'.primary = d.primary
      BY <3>1 DEF Closed, Closes
    <3>3. /\ d.primary[k] = tab.primary[k]
          /\ d.routes[k] = tab.routes[k] \/ d.routes[k] = None
          /\ d.routes[k] = None =>
               \/ d.primary[k] = k
               \/ tab.routes[k] \in V \ {None} /\ k = first[tab.routes[k]]
      BY <3>2, DropKeepsAliases
    <3>4. ASSUME tab.routes[k] \in V, k = first[tab.routes[k]]
          PROVE  tab.primary[k] = k
      <4> DEFINE s == tab.routes[k]
      <4>1. k \in AdminKeys /\ s \in Sockets
        BY <3>1, <3>4, TunnelTablesAssumption DEF Closed, DialledKeysOnly
      <4>2. k = hs[s].host
        BY <4>1, FirstIsDialled
      <4>3. s # None
        BY <4>1, <2>n
      <4> QED
        BY <3>2, <3>3, <4>2, <4>3 DEF AliasInv
    <3>5. CASE tab'.routes[k] = None
      BY <3>2, <3>3, <3>4, <3>5
    <3>6. CASE tab'.routes[k] # None
      <4> DEFINE s == tab.routes[k]
      <4>1. tab'.routes[k] = s /\ s # None /\ s \in Sockets /\ s \notin V /\ phase[s] = "open"
        <5>1. d.routes = [j \in Keys |-> IF tab.routes[j] \in V \ {None}
                                           THEN None ELSE tab.routes[j]]
          BY DropRoutes
        <5> HIDE DEF d
        <5> QED
          BY <5>1, <3>2, <3>6, <2>r
      <4>2. hs'[s] = hs[s]
        BY <3>1, <4>1 DEF Closed, Closes
      <4> HIDE DEF d
      <4> QED
        BY <3>2, <3>3, <3>6, <4>1, <4>2 DEF AliasInv
    <3> QED
      BY <3>5, <3>6
  <2> QED
    BY <2>1, <2>2, <2>3
<1> QED
  BY <1>1, <1>2, ServerTypeCorrect, RoutesStayLive, SocketsStaySound, PTL DEF Spec

(* findTunnelSocket hands a visitor only to a connected tunnel that        *)
(* registered or announced the key asked for, when tunnels are removed by  *)
(* the host they dialled.                                                  *)
THEOREM VisitorsAlwaysReachTheirTunnel ==
  ASSUME DialledKeysOnly
  PROVE  Spec => []VisitorsReachTheirTunnel
<1>1. RoutesLive /\ AliasInv => VisitorsReachTheirTunnel
  <2> SUFFICES ASSUME RoutesLive, AliasInv, NEW k \in Keys,
                      NEW s \in findTunnelSocket(tab, hs, [keys |-> <<k>>, local |-> FALSE])
               PROVE  phase[s] = "open" /\ k \in Aliases(hs[s], granted[s]) \cup hs[s].ids
    BY DEF VisitorsReachTheirTunnel
  <2> DEFINE req == [keys |-> <<k>>, local |-> FALSE]
             scanned == {r \in Sockets : /\ \E j \in Keys : tab.routes[j] = r
                                         /\ k \in hs[r].ids}
  <2>1. DOMAIN req.keys = {1} /\ req.keys[1] = k /\ req.local = FALSE
    OBVIOUS
  <2>2. Via(tab, k) = tab.routes[k]
    BY DEF Via, AliasInv
  <2>3. CASE tab.routes[k] # None
    <3>1. s = tab.routes[k]
      BY <2>1, <2>2, <2>3 DEF findTunnelSocket
    <3> QED
      BY <2>3, <3>1 DEF RoutesLive
  <2>4. CASE tab.routes[k] = None
    <3>1. s \in scanned
      BY <2>1, <2>2, <2>4 DEF findTunnelSocket
    <3>2. PICK j \in Keys : tab.routes[j] = s
      BY <3>1
    <3>3. s # None
      BY <3>1, NameClaimsAssumption
    <3>4. phase[s] = "open"
      BY <3>2, <3>3 DEF RoutesLive
    <3> QED
      BY <3>1, <3>4
  <2> QED
    BY <2>3, <2>4
<1> QED
  BY <1>1, AliasesStayInOrder, RoutesStayLive, PTL

-----------------------------------------------------------------------------
(* With clients and administrators of that kind every connected socket     *)
(* keeps the route to the host it dialled, so it is counted exactly once.  *)
DialledRouted ==
  \A s \in Sockets : phase[s] = "open" => tab.routes[hs[s].host] = s

OpenSockets == {s \in Sockets : phase[s] = "open"}

\* A socket that closes is recorded once: by the key deleted first or by its
\* own onDisconnect, never by both.
LEMMA DropLive ==
  ASSUME TypeOK, NEW s \in Sockets, NEW first,
         StillPrimary(tab, s, first, hs) <=> first[s] = None,
         tab.live = Cardinality(OpenSockets), s \in OpenSockets
  PROVE  Drop(tab, {s}, first, hs, granted).live = Cardinality(OpenSockets \ {s})
<1> DEFINE primaries == {r \in {s} : StillPrimary(tab, r, first, hs)}
           deleted == {r \in {s} : first[r] # None}
<1>1. Cardinality(primaries) + Cardinality(deleted) = 1
  <2>1. \/ primaries = {s} /\ deleted = {}
        \/ primaries = {} /\ deleted = {s}
    OBVIOUS
  <2>2. Cardinality({}) = 0 /\ Cardinality({s}) = 1
    BY FS_EmptySet, FS_Singleton
  <2> HIDE DEF primaries, deleted
  <2> QED
    BY <2>1, <2>2
<1>2. IsFiniteSet(OpenSockets)
  <2>1. OpenSockets \subseteq Sockets
    BY DEF OpenSockets
  <2> QED
    BY <2>1, FS_Subset, TunnelTablesAssumption
<1>3. /\ Cardinality(OpenSockets \ {s}) = Cardinality(OpenSockets) - 1
      /\ Cardinality(OpenSockets) \in Nat /\ Cardinality(OpenSockets \ {s}) \in Nat
  BY <1>2, FS_RemoveElement, FS_CardinalityType, FS_Subset
<1>4. Drop(tab, {s}, first, hs, granted).live =
        IF tab.live > Cardinality(primaries) + Cardinality(deleted)
          THEN tab.live - (Cardinality(primaries) + Cardinality(deleted)) ELSE 0
  BY DEF Drop
<1> HIDE DEF primaries, deleted
<1> QED
  BY <1>1, <1>3, <1>4

LEMMA CountStaysLive ==
  ASSUME NamesDisjoint, DialledKeysOnly
  PROVE  Spec => [](DialledRouted /\ LiveCount)
<1>1. Init => DialledRouted /\ LiveCount
  <2>1. Init => {s \in Sockets : phase[s] = "open"} = {}
    BY DEF Init
  <2> QED
    BY <2>1, FS_EmptySet DEF Init, NoTables, DialledRouted, LiveCount
<1>2. TypeOK /\ RoutesLive /\ SocketsInv /\ DialledRouted /\ LiveCount /\ [Next]_vars
        => (DialledRouted /\ LiveCount)'
  <2> SUFFICES ASSUME TypeOK, RoutesLive, SocketsInv, DialledRouted, LiveCount, [Next]_vars
               PROVE  DialledRouted' /\ LiveCount'
    OBVIOUS
  <2>h. /\ \A h \in Handshakes : h.host \in Keys
        /\ \A s \in Sockets : s # None
    BY HandshakesAssumption, TunnelTablesAssumption, NameClaimsAssumption DEF Handshake
  <2>o. /\ tab.live = Cardinality(OpenSockets) /\ IsFiniteSet(OpenSockets)
        /\ LiveCount' <=> tab'.live = Cardinality(OpenSockets')
    <3>1. OpenSockets \subseteq Sockets
      BY DEF OpenSockets
    <3> QED
      BY <3>1, FS_Subset, TunnelTablesAssumption DEF OpenSockets, LiveCount
  \* Whoever dials a host is the one its route leads to.
  <2>d. ASSUME NEW k \in Keys, tab.routes[k] # None, NEW h \in Handshakes, k = h.host
        PROVE  hs[tab.routes[k]].host = k
    <3> DEFINE r == tab.routes[k]
    <3>1. r \in Sockets /\ phase[r] = "open" /\ k \in Aliases(hs[r], granted[r])
      BY <2>d DEF TypeOK, Tables, RoutesLive
    <3>2. hs[r] \in Handshakes /\ granted[r] \in {{}, resolveRequestedNames(hs[r])}
      BY <3>1 DEF SocketsInv
    <3>3. k \in Aliases(hs[r], resolveRequestedNames(hs[r]))
      BY <3>1, <3>2 DEF Aliases
    <3> QED
      BY <2>d, <3>2, <3>3 DEF NamesDisjoint
  \* A closing of one socket that is recorded once.
  <2>c. ASSUME NEW s \in Sockets, NEW first, phase[s] = "open",
               StillPrimary(tab, s, first, hs) <=> first[s] = None
        PROVE  LET d == Drop(tab, {s}, first, hs, granted) IN
               /\ d.live = Cardinality(OpenSockets \ {s})
               /\ \A r \in Sockets \ {s} :
                    phase[r] = "open" => d.routes[hs[r].host] = r
    <3> DEFINE d == Drop(tab, {s}, first, hs, granted)
    <3>1. d.live = Cardinality(OpenSockets \ {s})
      BY <2>c, <2>o, DropLive DEF OpenSockets
    <3>2. d.routes = [k \in Keys |-> IF tab.routes[k] \in {s} \ {None}
                                       THEN None ELSE tab.routes[k]]
      BY DropRoutes
    <3> HIDE DEF d
    <3>3. \A r \in Sockets \ {s} : phase[r] = "open" => d.routes[hs[r].host] = r
      BY <3>2, <2>h DEF DialledRouted, SocketsInv
    <3> QED
      BY <3>1, <3>3 DEF d
  \* The connection handler for a socket that was new.
  <2>a. ASSUME NEW t, NEW s \in Sockets, NEW h \in Handshakes, NEW G \in SUBSET Names,
               G \subseteq resolveRequestedNames(h),
               NEW Open \in SUBSET Sockets, s \notin Open, t.live = Cardinality(Open),
               \A r \in Open : hs[r] \in Handshakes /\ t.routes[hs[r].host] = r,
               t.routes[h.host] = None,
               tab' = Connect(t, s, h, G),
               hs' = [hs EXCEPT ![s] = h],
               OpenSockets' = Open \cup {s}
        PROVE  DialledRouted' /\ LiveCount'
    <3>1. \A r \in Open : hs[r].host \notin Aliases(h, G)
      <4> SUFFICES ASSUME NEW r \in Open, hs[r].host \in Aliases(h, G) PROVE FALSE
        OBVIOUS
      <4>1. hs[r].host \in Aliases(h, resolveRequestedNames(h))
        BY <2>a DEF Aliases
      <4>2. hs[r].host = h.host
        BY <2>a, <4>1 DEF NamesDisjoint
      <4> QED
        BY <2>a, <2>h, <4>2
    <3>2. tab'.live = t.live + 1 /\ tab'.routes[h.host] = s
      BY <2>a, <2>h DEF Connect, Aliases
    <3>3. \A r \in Open : tab'.routes[hs[r].host] = r
      BY <2>a, <2>h, <3>1 DEF Connect
    <3>4. \A r \in Open : hs'[r] = hs[r]
      BY <2>a
    <3>5. hs'[s] = h
      BY <2>a DEF TypeOK
    <3>6. DialledRouted'
      BY <2>a, <3>2, <3>3, <3>4, <3>5 DEF DialledRouted, OpenSockets
    <3>7. Cardinality(OpenSockets') = Cardinality(Open) + 1
      BY <2>a, FS_AddElement, FS_Subset, TunnelTablesAssumption
    <3> QED
      BY <2>a, <2>o, <3>2, <3>6, <3>7
  <2>1. ASSUME NEW s \in Sockets, NEW h \in Handshakes, Admit(s, h)
        PROVE  DialledRouted' /\ LiveCount'
    <3> DEFINE S == resolveRequestedNames(h)
    <3>1. /\ phase[s] = "new" /\ ~LiveAt(h)
          /\ phase' = [phase EXCEPT ![s] = "open"]
          /\ hs' = [hs EXCEPT ![s] = h]
          /\ tab' = Connect(tab, s, h, S)
      BY <2>1 DEF Admit, Finish
    <3>2. S \in SUBSET Names /\ S \subseteq S
      BY RequestedNames, HandshakesAssumption
    <3>3. tab.routes[h.host] = None
      BY <3>1, <2>h DEF LiveAt, RoutesLive
    <3>4. \A r \in OpenSockets : hs[r] \in Handshakes /\ tab.routes[hs[r].host] = r
      BY DEF OpenSockets, SocketsInv, DialledRouted
    <3>5. /\ s \notin OpenSockets /\ OpenSockets \in SUBSET Sockets
          /\ OpenSockets' = OpenSockets \cup {s}
      BY <3>1 DEF OpenSockets, TypeOK
    <3> HIDE DEF S
    <3>6. S \subseteq resolveRequestedNames(h)
      BY DEF S
    <3> QED
      BY <2>a, <2>o, <3>1, <3>2, <3>3, <3>4, <3>5, <3>6
  <2>2. ASSUME NEW s \in Sockets, NEW h \in Handshakes, TakeOver(s, h)
        PROVE  DialledRouted' /\ LiveCount'
    <3> DEFINE e == tab.routes[h.host]
               first == [NoFirst EXCEPT ![e] = h.host]
               closed == Drop(tab, {e}, first, hs, granted)
               Open == OpenSockets \ {e}
    <3>1. /\ phase[s] = "new" /\ e # None /\ phase[e] = "open"
          /\ phase' = [phase EXCEPT ![e] = "gone", ![s] = "open"]
          /\ hs' = [hs EXCEPT ![s] = h]
          /\ tab' = Connect(closed, s, h, {})
      BY <2>2 DEF TakeOver, LiveAt
    <3>2. e \in Sockets /\ hs[e].host = h.host
      <4>1. e \in Sockets
        BY <3>1, <2>h DEF TypeOK, Tables
      <4> QED
        BY <3>1, <4>1, <2>h, <2>d
    <3>3. first[e] = h.host /\ h.host # None
      BY <3>2, <2>h, TunnelTablesAssumption DEF NoFirst
    <3> HIDE DEF e, first
    <3>4. StillPrimary(tab, e, first, hs) <=> first[e] = None
      BY <3>2, <3>3 DEF StillPrimary
    <3>5. /\ closed.live = Cardinality(Open)
          /\ \A r \in Sockets \ {e} :
               phase[r] = "open" => closed.routes[hs[r].host] = r
      BY <2>c, <3>1, <3>2, <3>4
    <3>6. \A r \in Open : hs[r] \in Handshakes /\ closed.routes[hs[r].host] = r
      <4> HIDE DEF closed
      <4> QED
        BY <3>5 DEF OpenSockets, SocketsInv
    <3>7. closed.routes[h.host] = None
      <4>1. closed.routes = [k \in Keys |-> IF tab.routes[k] \in {e} \ {None}
                                              THEN None ELSE tab.routes[k]]
        BY DropRoutes
      <4>2. tab.routes[h.host] = e /\ e # None
        BY <3>1 DEF e
      <4> HIDE DEF closed
      <4> QED
        BY <4>1, <4>2, <2>h
    <3>8. s \notin Open /\ Open \in SUBSET Sockets /\ OpenSockets' = Open \cup {s}
      BY <3>1, <3>2 DEF OpenSockets, TypeOK
    <3>9. {} \in SUBSET Names /\ {} \subseteq resolveRequestedNames(h)
      OBVIOUS
    <3> HIDE DEF closed, Open
    <3> QED
      BY <2>a, <3>1, <3>5, <3>6, <3>7, <3>8, <3>9
  \* One socket closes and nothing else happens to the routes and the count.
  <2>e. ASSUME NEW s \in Sockets, phase[s] = "open", NEW first,
               StillPrimary(tab, s, first, hs) <=> first[s] = None,
               tab' = Drop(tab, {s}, first, hs, granted),
               phase' = [phase EXCEPT ![s] = "gone"], hs' = hs
        PROVE  DialledRouted' /\ LiveCount'
    <3>1. OpenSockets' = OpenSockets \ {s}
      BY <2>e DEF OpenSockets, TypeOK
    <3>2. tab'.live = Cardinality(OpenSockets \ {s})
      BY <2>c, <2>e
    <3>3. \A r \in Sockets \ {s} : phase[r] = "open" => tab'.routes[hs[r].host] = r
      BY <2>c, <2>e
    <3> QED
      BY <2>e, <2>o, <3>1, <3>2, <3>3 DEF DialledRouted, TypeOK
  \* Nobody connects and nobody leaves.
  <2>u. ASSUME tab' = tab, NEW s \in Sockets,
               \A r \in Sockets : r = s \/ (phase'[r] = phase[r] /\ hs'[r] = hs[r]),
               phase[s] # "open" /\ phase'[s] # "open"
        PROVE  DialledRouted' /\ LiveCount'
    <3>1. OpenSockets' = OpenSockets
      BY <2>u DEF OpenSockets
    <3> QED
      BY <2>u, <2>o, <3>1 DEF DialledRouted
  <2>v. ASSUME UNCHANGED <<tab, phase, hs>>
        PROVE  DialledRouted' /\ LiveCount'
    BY <2>v DEF DialledRouted, LiveCount
  <2>3. ASSUME NEW s \in Sockets, NEW h \in Handshakes, RefuseBusy(s, h) \/ RefuseName(s, h)
        PROVE  DialledRouted' /\ LiveCount'
    <3>1. tab' = tab /\ Finish(s, h, "gone", {}) /\ phase[s] = "new"
      BY <2>3 DEF RefuseBusy, RefuseName
    <3>2. /\ \A r \in Sockets : r = s \/ (phase'[r] = phase[r] /\ hs'[r] = hs[r])
          /\ phase[s] # "open" /\ phase'[s] # "open"
      BY <3>1 DEF Finish, TypeOK
    <3> QED
      BY <2>u, <3>1, <3>2
  <2>4. ASSUME NEW s \in Sockets, Close(s)
        PROVE  DialledRouted' /\ LiveCount'
    <3>1. /\ phase[s] = "open" /\ tab' = Drop(tab, {s}, NoFirst, hs, granted)
          /\ phase' = [phase EXCEPT ![s] = "gone"] /\ hs' = hs
      BY <2>4 DEF Close
    <3>2. NoFirst[s] = None
      BY DEF NoFirst
    <3>3. hs[s] \in Handshakes /\ tab.routes[hs[s].host] = s /\ hs[s].host # None
      BY <3>1, <2>h, TunnelTablesAssumption DEF SocketsInv, DialledRouted
    <3>4. StillPrimary(tab, s, NoFirst, hs) <=> NoFirst[s] = None
      BY <3>2, <3>3 DEF StillPrimary
    <3> QED
      BY <2>e, <3>1, <3>2, <3>4
  <2>5. ASSUME NEW k \in AdminKeys, RemoveTunnel(k)
        PROVE  DialledRouted' /\ LiveCount'
    <3> DEFINE s == tab.routes[k]
    <3>k. k \in Keys
      BY HandshakesAssumption
    <3>1. CASE s = None
      BY <2>5, <2>v, <3>1 DEF RemoveTunnel
    <3>2. CASE s # None
      <4> DEFINE first == [NoFirst EXCEPT ![s] = k]
      <4>1. s \in Sockets /\ phase[s] = "open"
        BY <3>k, <3>2 DEF TypeOK, Tables, RoutesLive
      <4>2. k = hs[s].host
        BY <4>1, FirstIsDialled
      <4>3. first[s] = k /\ k # None
        BY <3>k, <4>1, TunnelTablesAssumption DEF NoFirst
      <4>4. /\ tab' = Drop(tab, {s}, first, hs, granted)
            /\ phase' = [phase EXCEPT ![s] = "gone"] /\ hs' = hs
        BY <2>5, <3>2 DEF RemoveTunnel
      <4> HIDE DEF s, first
      <4>5. StillPrimary(tab, s, first, hs) <=> first[s] = None
        BY <4>2, <4>3 DEF StillPrimary
      <4> QED
        BY <2>e, <4>1, <4>4, <4>5
    <3> QED
      BY <3>1, <3>2
  <2>6. CASE Hour \/ UNCHANGED vars
    BY <2>v, <2>6 DEF Hour, vars
  <2> QED
    BY <2>1, <2>2, <2>3, <2>4, <2>5, <2>6 DEF Next, DialledKeysOnly
<1> QED
  BY <1>1, <1>2, ServerTypeCorrect, RoutesStayLive, SocketsStaySound, PTL DEF Spec

(* active_sockets counts the connected sockets, for such clients and       *)
(* administrators: no connection is counted twice or closed twice.         *)
THEOREM LiveCountIsRight ==
  ASSUME NamesDisjoint, DialledKeysOnly
  PROVE  Spec => []LiveCount
  BY CountStaysLive, PTL

(* At most one socket is connected per dialled host: the 403 and takeover  *)
(* rule, for such clients and administrators.                              *)
THEOREM OneSocketServesAHost ==
  ASSUME NamesDisjoint, DialledKeysOnly
  PROVE  Spec => []OneSocketPerHost
<1>1. DialledRouted => OneSocketPerHost
  BY DEF DialledRouted, OneSocketPerHost
<1> QED
  BY <1>1, CountStaysLive, PTL
=============================================================================
