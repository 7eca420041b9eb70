---------------------------- MODULE TunnelCluster ----------------------------
(***************************************************************************)
(* Clustered mode without Redis: a primary that hands each connection to a *)
(* worker by its host and owns the name claims, and workers that run       *)
(* server.js.  They talk over one FIFO channel per worker and direction,   *)
(* so the middleware of a worker waits for the answer to its claim while   *)
(* other handshakes, disconnects, removals and crashes go on.              *)
(***************************************************************************)
EXTENDS PrimaryTables, SequencesExt

CONSTANTS
  Handshakes,      \* the handshakes clients may send
  Slots,           \* 1..numWorkers
  hostSlot,        \* hostSlot[h]: util.js's hash of a host, modulo numWorkers
  AdminKeys,       \* the keys the administrator removes tunnels by
  AdminLabels,     \* the clients the administrator removes
  MaxRemovals,     \* bound on the administrator's calls
  Stops,           \* whether the primary may be told to stop
  LateMessages     \* whether an exit may overtake what the worker last wrote

ASSUME ClusterAssumption ==
  /\ Handshakes \subseteq Handshake
  /\ IsFiniteSet(Slots) /\ Slots = 1..Cardinality(Slots) /\ Slots # {}
  /\ \E f \in [Slots -> Workers] : IsInjective(f)
  /\ hostSlot \in [Hosts -> Slots]
  /\ AdminKeys \subseteq Keys /\ AdminLabels \subseteq Labels
  /\ MaxRemovals \in Nat /\ {LateMessages, Stops} \subseteq BOOLEAN
  /\ None \notin Workers /\ \A K \in SUBSET Keys : K # None

VARIABLES
  phase,           \* phase[s]: "new", "asked" (its claim is on its way), "open",
                   \* "left" (gave up or timed out while asking) or "gone"
  hs,              \* hs[s]: the handshake of socket s
  granted,         \* granted[s]: socket.grantedNames
  at,              \* at[s]: the worker s was handed to
  tab,             \* tab[w]: the tables of worker w
  status,          \* status[w]: "unborn", "up", "dead" (unnoticed) or "exited"
  slots,           \* slots[i]: the worker of slot i
  primary,         \* the primary's tables
  toPrimary,       \* toPrimary[w]: messages w has sent
  toWorker,        \* toWorker[w]: messages sent to w
  removals,        \* the administrator's calls so far
  stopping         \* isShuttingDown

socketVars == <<phase, hs, granted, at>>
workerVars == <<tab, status, slots>>
vars == <<phase, hs, granted, at, tab, status, slots, primary, toPrimary,
          toWorker, removals, stopping>>

Message(type, arg) == [type |-> type, arg |-> arg]

Messages ==
  [type : {"REGISTER_HOST", "UNREGISTER_HOST", "RELEASE_HOSTS", "CLAIM_HOSTS"},
   arg : Sockets]
  \cup [type : {"UNREGISTER_BARE", "DISCONNECT_SOCKET_CLUSTER", "FORGET_HOST",
                "DO_DISCONNECT_SOCKET"}, arg : Keys]
  \cup [type : {"FORGET_NAME"}, arg : Names]
  \cup [type : {"DISCONNECT_CLIENT_CLUSTER", "FORGET_CLIENT"}, arg : Labels]
  \cup [type : {"CLAIM_HOSTS_RES"}, arg : Sockets, ok : BOOLEAN]

TypeOK ==
  /\ phase \in [Sockets -> {"new", "asked", "open", "left", "gone"}]
  /\ hs \in [Sockets -> Handshakes \cup {None}]
  /\ granted \in [Sockets -> SUBSET Names]
  /\ at \in [Sockets -> Workers \cup {None}]
  /\ tab \in [Workers -> Tables]
  /\ status \in [Workers -> {"unborn", "up", "dead", "exited"}]
  /\ slots \in [Slots -> Workers \cup {None}]
  /\ primary \in PrimaryRecord
  /\ toPrimary \in [Workers -> Seq(Messages)]
  /\ toWorker \in [Workers -> Seq(Messages)]
  /\ removals \in 0..MaxRemovals /\ stopping \in BOOLEAN

Init ==
  /\ phase = [s \in Sockets |-> "new"]
  /\ hs = [s \in Sockets |-> None]
  /\ granted = [s \in Sockets |-> {}]
  /\ at = [s \in Sockets |-> None]
  /\ tab = [w \in Workers |-> NoTables]
  /\ slots = CHOOSE f \in [Slots -> Workers] : IsInjective(f)
  /\ status = [w \in Workers |-> IF w \in ToSet(slots) THEN "up" ELSE "unborn"]
  /\ primary = FreshPrimary(ToSet(slots))
  /\ toPrimary = [w \in Workers |-> <<>>]
  /\ toWorker = [w \in Workers |-> <<>>]
  /\ removals = 0 /\ stopping = FALSE

-----------------------------------------------------------------------------
(* Routing, and what the handlers of a worker have in common.              *)

isConnected(w) == IF w = None THEN FALSE ELSE status[w] = "up"

\* Where the hash of a host leads, or to the first worker that is connected.
workerForHost(h) ==
  LET alive == {i \in Slots : isConnected(slots[i])} IN
  IF isConnected(slots[hostSlot[h]]) THEN slots[hostSlot[h]]
  ELSE IF alive = {} THEN None
  ELSE slots[CHOOSE i \in alive : \A j \in alive : i <= j]

\* Mutated form: only tunnel hosts are looked up.
resolveWorkerByHost(v) ==
  LET w == primary.hostToWorker[v.host]
  IN  {IF w # None THEN w ELSE workerForHost(v.host)}

\* resolveWorker, for a visitor who names v.keys in this order (its host, then the
\* first label) where v.near are the keys that label is a prefix of or has as one;
\* a set, because the scan for those takes whichever it meets first.
resolveWorker(v) ==
  LET at1(i) == primary.hostToWorker[v.keys[i]]
      hits == {i \in DOMAIN v.keys : at1(i) # None}
      near == {primary.hostToWorker[k] : k \in v.near} \ {None}
      listed == {k \in Keys : primary.sockets[k] # None}
      only == {primary.hostToWorker[k] : k \in listed} \ {None}
  IN  IF hits # {} THEN {at1(Min(hits))}
      ELSE IF near # {} THEN near
      ELSE IF v.local /\ Cardinality(listed) = 1 /\ only # {} THEN only
      ELSE {workerForHost(v.host)}

Sent(w, msgs) == [toPrimary EXCEPT ![w] = @ \o msgs]

\* Mutated form: the names are not released.
FarewellBare(s) == <<Message("UNREGISTER_HOST", s)>>

\* What onDisconnect of s tells the primary.
Farewell(s) ==
  <<Message("UNREGISTER_HOST", s)>>
    \o IF granted[s] = {} THEN <<>> ELSE <<Message("RELEASE_HOSTS", s)>>

NoFirst == [s \in Sockets |-> None]

LiveAt(w, h) ==
  LET e == tab[w].routes[h.host] IN IF e = None THEN FALSE ELSE phase[e] = "open"

MayReplace(w, h) ==
  /\ hs[tab[w].routes[h.host]].owner = h.owner
  /\ h.keep

\* Socket s, of handshake h, is handed to worker w and turned into phase p.
Arrive(s, h, w, p) ==
  /\ phase[s] = "new" /\ ~stopping
  /\ w = workerForHost(h.host) /\ w # None
  /\ hs' = [hs EXCEPT ![s] = h]
  /\ at' = [at EXCEPT ![s] = w]
  /\ phase' = [phase EXCEPT ![s] = p]

-----------------------------------------------------------------------------
(* The middleware and the handlers of a worker.                            *)

\* "[403]" for a busy host, "[409-HOSTNAME]" for names that cannot be used.
Refuse(s, h, w) ==
  /\ Arrive(s, h, w, "gone")
  /\ \/ LiveAt(w, h) /\ ~MayReplace(w, h)
     \/ ~LiveAt(w, h) /\ ~NamesUsable(resolveRequestedNames(h))
  /\ UNCHANGED <<granted, workerVars, primary, toPrimary, toWorker, removals, stopping>>

\* The middleware asks the primary for the names and waits.
Ask(s, h, w) ==
  /\ Arrive(s, h, w, "asked")
  /\ ~LiveAt(w, h)
  /\ NamesUsable(resolveRequestedNames(h))
  /\ toPrimary' = Sent(w, <<Message("CLAIM_HOSTS", s)>>)
  /\ UNCHANGED <<granted, workerVars, primary, toWorker, removals, stopping>>

\* The owner's new socket replaces the live one, and claims nothing.
TakeOver(s, h, w) ==
  LET e == tab[w].routes[h.host]
      closed == Drop(tab[w], {e}, [NoFirst EXCEPT ![e] = h.host], hs, granted)
  IN
  /\ phase[s] = "new" /\ ~stopping
  /\ w = workerForHost(h.host) /\ w # None
  /\ LiveAt(w, h) /\ MayReplace(w, h)
  /\ phase' = [phase EXCEPT ![e] = "gone", ![s] = "open"]
  /\ hs' = [hs EXCEPT ![s] = h]
  /\ at' = [at EXCEPT ![s] = w]
  /\ tab' = [tab EXCEPT ![w] = Connect(closed, s, h, {})]
  /\ toPrimary' = Sent(w, Farewell(e) \o <<Message("REGISTER_HOST", s)>>)
  /\ UNCHANGED <<granted, status, slots, primary, toWorker, removals, stopping>>

\* The claim's answer arrives.  A socket that still waits connects or is
\* refused; the answer to one that left is dropped.
Answered(w) ==
  LET m == Head(toWorker[w])
      s == m.arg
      G == resolveRequestedNames(hs[s])
  IN
  /\ toWorker[w] # <<>> /\ m.type = "CLAIM_HOSTS_RES"
  /\ toWorker' = [toWorker EXCEPT ![w] = Tail(@)]
  /\ IF phase[s] = "asked" /\ m.ok
       THEN /\ granted' = [granted EXCEPT ![s] = G]
            /\ phase' = [phase EXCEPT ![s] = "open"]
            /\ tab' = [tab EXCEPT ![w] = Connect(@, s, hs[s], G)]
            /\ toPrimary' = Sent(w, <<Message("REGISTER_HOST", s)>>)
       ELSE /\ phase' = [phase EXCEPT ![s] = IF @ = "asked" THEN "gone" ELSE @]
            /\ UNCHANGED <<granted, tab, toPrimary>>
  /\ UNCHANGED <<hs, at, status, slots, primary, removals, stopping>>

\* The transport closes, or clusterRequest times out, while s waits.
GiveUp(s) ==
  /\ phase[s] = "asked"
  /\ phase' = [phase EXCEPT ![s] = "left"]
  /\ UNCHANGED <<hs, granted, at, workerVars, primary, toPrimary, toWorker,
                 removals, stopping>>

\* The transport of a connected socket closes: onDisconnect.
Close(s) ==
  /\ phase[s] = "open"
  /\ phase' = [phase EXCEPT ![s] = "gone"]
  /\ tab' = [tab EXCEPT ![at[s]] = Drop(@, {s}, NoFirst, hs, granted)]
  /\ toPrimary' = Sent(at[s], Farewell(s))
  /\ UNCHANGED <<hs, granted, at, status, slots, primary, toWorker, removals, stopping>>

\* Worker w deletes the route of key k and closes its socket.
Disconnect(w, k) ==
  LET s == tab[w].routes[k] IN
  /\ phase' = [phase EXCEPT ![s] = "gone"]
  /\ tab' = [tab EXCEPT ![w] = Drop(@, {s}, [NoFirst EXCEPT ![s] = k], hs, granted)]

\* DO_DISCONNECT_SOCKET, on behalf of an administrator at another worker.
DoDisconnect(w) ==
  LET k == Head(toWorker[w]).arg
      s == tab[w].routes[k]
  IN
  /\ toWorker[w] # <<>> /\ Head(toWorker[w]).type = "DO_DISCONNECT_SOCKET"
  /\ toWorker' = [toWorker EXCEPT ![w] = Tail(@)]
  /\ IF s = None
       THEN UNCHANGED <<phase, tab, toPrimary>>
       ELSE Disconnect(w, k) /\ toPrimary' = Sent(w, Farewell(s))
  /\ UNCHANGED <<hs, granted, at, status, slots, primary, removals, stopping>>

-----------------------------------------------------------------------------
(* The administrator's requests, served by worker w.                       *)

Removal(w) ==
  /\ status[w] = "up"
  /\ removals < MaxRemovals
  /\ removals' = removals + 1

\* DELETE /admin/api/sockets/:host.
RemoveTunnel(w, k) ==
  LET s == tab[w].routes[k]
      n == IF k \in Hosts THEN NameOf[k] ELSE None
      purges == <<Message("UNREGISTER_BARE", k), Message("DISCONNECT_SOCKET_CLUSTER", k),
                  Message("FORGET_HOST", k)>>
                  \o IF n = None THEN <<>> ELSE <<Message("FORGET_NAME", n)>>
  IN
  /\ Removal(w)
  /\ IF s = None
       THEN toPrimary' = Sent(w, purges) /\ UNCHANGED <<phase, tab>>
       ELSE Disconnect(w, k) /\ toPrimary' = Sent(w, Farewell(s) \o purges)
  /\ UNCHANGED <<hs, granted, at, status, slots, primary, toWorker, stopping>>

ClientSockets(w, l) ==
  {s \in Sockets : hs[s] # None /\ (\E k \in Keys : tab[w].routes[k] = s)
                     /\ hs[s].label = l}

RoutedKeys(w, s) == {k \in Keys : tab[w].routes[k] = s}

\* DELETE /admin/api/clients/:clientId.  The loop's failure on the sockets of
\* the anonymous client is in TunnelServer only.
RemoveClient(w, l) ==
  LET V == ClientSockets(w, l)
      each == SetToSeq(V)
  IN
  /\ Removal(w)
  /\ l = Anonymous => \A s \in V : Cardinality(RoutedKeys(w, s)) = 1
  /\ \E first \in [Sockets -> Keys \cup {None}] :
       /\ \A s \in Sockets :
            IF s \in V THEN first[s] \in RoutedKeys(w, s) ELSE first[s] = None
       /\ tab' = [tab EXCEPT ![w] = ForgetClient(Drop(@, V, first, hs, granted), l)]
       /\ toPrimary' = Sent(w,
            FlattenSeq([i \in DOMAIN each |->
              Farewell(each[i]) \o <<Message("UNREGISTER_BARE", first[each[i]])>>])
            \o <<Message("DISCONNECT_CLIENT_CLUSTER", l), Message("FORGET_CLIENT", l)>>)
  /\ phase' = [s \in Sockets |-> IF s \in V THEN "gone" ELSE phase[s]]
  /\ UNCHANGED <<hs, granted, at, status, slots, primary, toWorker, stopping>>

-----------------------------------------------------------------------------
(* The primary receives the next message of worker w.                      *)

Next1(w, type) == toPrimary[w] # <<>> /\ Head(toPrimary[w]).type = type

Arg(w) == Head(toPrimary[w]).arg

\* The primary's tables become p; what it answers is msgs[v], to worker v.
Handled(w, p, msgs) ==
  /\ primary' = p
  /\ toPrimary' = [toPrimary EXCEPT ![w] = Tail(@)]
  /\ toWorker' = [v \in Workers |->
                    IF isConnected(v) THEN toWorker[v] \o msgs[v] ELSE toWorker[v]]
  /\ UNCHANGED <<socketVars, workerVars, removals, stopping>>

Nothing == [v \in Workers |-> <<>>]

OnRegister(w) ==
  LET s == Arg(w) IN
  /\ Next1(w, "REGISTER_HOST")
  /\ Handled(w, Register(primary, w, s, hs[s], granted[s]), Nothing)

OnUnregister(w) ==
  \/ LET s == Arg(w) IN
     /\ Next1(w, "UNREGISTER_HOST")
     /\ Handled(w, Unregister(primary, w, hs[s].host, Aliases(hs[s], granted[s]), s),
                Nothing)
  \/ /\ Next1(w, "UNREGISTER_BARE")
     /\ Handled(w, Unregister(primary, w, Arg(w), {}, None), Nothing)

\* Mutated form: a claim that fails is not answered.
ReplyGranted(w, s, ok) ==
  [Nothing EXCEPT ![w] =
     IF ok THEN <<[type |-> "CLAIM_HOSTS_RES", arg |-> s, ok |-> ok]>> ELSE <<>>]

\* The answer to a claim goes back to the worker that asked.
Reply(w, s, ok) ==
  [Nothing EXCEPT ![w] = <<[type |-> "CLAIM_HOSTS_RES", arg |-> s, ok |-> ok]>>]

OnClaim(w) ==
  LET s == Arg(w)
      S == resolveRequestedNames(hs[s])
      c == hs[s].owner
  IN
  /\ Next1(w, "CLAIM_HOSTS")
  /\ IF CanClaim(primary.claims, S, c)
       THEN Handled(w, ClaimHosts(primary, w, S, c, s), Reply(w, s, TRUE))
       ELSE \E P \in RefusalPurges(primary.claims, S) :
              Handled(w, [primary EXCEPT !.claims = Purge(@, P)], Reply(w, s, FALSE))

OnRelease(w) ==
  LET s == Arg(w) IN
  /\ Next1(w, "RELEASE_HOSTS")
  /\ Handled(w, ReleaseHosts(primary, w, granted[s], s), Nothing)

OnForget(w) ==
  \/ Next1(w, "FORGET_HOST") /\ Handled(w, ForgetHost(primary, Arg(w)), Nothing)
  \/ Next1(w, "FORGET_NAME") /\ Handled(w, ForgetName(primary, Arg(w)), Nothing)
  \/ Next1(w, "FORGET_CLIENT")
       /\ Handled(w, ForgetClientEntry(primary, Arg(w)), Nothing)

\* Mutated form: only hosts that still have an entry in clusterSockets.
OrdersListed(K) ==
  [v \in Workers |->
     LET mine == SetToSeq({k \in K : primary.hostToWorker[k] = v
                                      /\ primary.sockets[k] # None})
     IN  [i \in DOMAIN mine |-> Message("DO_DISCONNECT_SOCKET", mine[i])]]

\* The workers that serve the hosts K are asked to disconnect them.
Orders(K) ==
  [v \in Workers |->
     LET mine == SetToSeq({k \in K : primary.hostToWorker[k] = v})
     IN  [i \in DOMAIN mine |-> Message("DO_DISCONNECT_SOCKET", mine[i])]]

OnDisconnect(w) ==
  \/ /\ Next1(w, "DISCONNECT_SOCKET_CLUSTER")
     /\ Handled(w, Forgotten(primary, {Arg(w)}), Orders({Arg(w)}))
  \/ /\ Next1(w, "DISCONNECT_CLIENT_CLUSTER")
     /\ LET K == HostsOfClient(primary, hs, Arg(w))
        IN  Handled(w, Forgotten(primary, K), Orders(K))

Receive(w) ==
  OnRegister(w) \/ OnUnregister(w) \/ OnClaim(w) \/ OnRelease(w) \/ OnForget(w)
    \/ OnDisconnect(w)

-----------------------------------------------------------------------------
(* Crashes, and the clock.                                                 *)

Having(st) == {w \in Workers : status[w] = st}

\* Worker w dies: its sockets and its tables are gone, and so is the end of
\* what it was sending.
Dies(w) ==
  /\ status[w] = "up"
  /\ status' = [status EXCEPT ![w] = "dead"]
  /\ phase' = [s \in Sockets |->
       IF at[s] = w /\ phase[s] \in {"asked", "open"} THEN "gone" ELSE phase[s]]
  /\ tab' = [tab EXCEPT ![w] = NoTables]
  /\ toWorker' = [toWorker EXCEPT ![w] = <<>>]
  /\ \E i \in 0..Len(toPrimary[w]) :
       toPrimary' = [toPrimary EXCEPT ![w] = SubSeq(@, 1, i)]
  /\ UNCHANGED <<hs, granted, at, slots, primary, removals, stopping>>

\* Workers bounds the crashes: each needs a successor.
Crash(w) ==
  /\ Cardinality(Having("unborn")) > Cardinality(Having("dead"))
  /\ Dies(w)

\* The primary learns that w exited, and forks v into its slot, or nobody (v is None).
ExitTo(w, v) ==
  /\ status[w] = "dead"
  /\ LateMessages \/ toPrimary[w] = <<>>
  /\ status' = [u \in Workers |->
                 IF u = w THEN "exited" ELSE IF u = v THEN "up" ELSE status[u]]
  /\ slots' = [i \in Slots |-> IF slots[i] = w THEN v ELSE slots[i]]
  /\ LET p == WorkerExited(primary, w)
     IN  primary' = [p EXCEPT !.workerHosts =
                       [u \in Workers |-> IF u = v THEN {} ELSE @[u]]]
  /\ UNCHANGED <<socketVars, tab, toPrimary, toWorker, removals, stopping>>

\* Mutated form: a successor is forked whatever goes on.
HeirsAlways == Having("unborn")

\* Who may succeed a worker: nobody, once the primary stops.
Heirs == IF stopping THEN {None} ELSE Having("unborn")

Exit(w) == \E v \in Heirs : ExitTo(w, v)

\* SIGTERM or SIGINT: the primary stops listening and tells its workers to stop.
\* The connections whose request is still arriving are left out.
ShutDown ==
  /\ Stops /\ ~stopping
  /\ stopping' = TRUE
  /\ UNCHANGED <<socketVars, workerVars, primary, toPrimary, toWorker, removals>>

\* gracefulShutdown of a worker: it exits once its connections have closed or
\* after 5 seconds, and the primary kills those that are left after 10.
WorkerStops(w) == stopping /\ Dies(w)

Hour ==
  /\ primary' = [primary EXCEPT !.claims = Age(@)]
  /\ UNCHANGED <<socketVars, workerVars, toPrimary, toWorker, removals, stopping>>

Next ==
  \/ \E s \in Sockets, h \in Handshakes, w \in Workers :
       Refuse(s, h, w) \/ Ask(s, h, w) \/ TakeOver(s, h, w)
  \/ \E s \in Sockets : GiveUp(s) \/ Close(s)
  \/ \E w \in Workers :
       \/ Answered(w) \/ DoDisconnect(w) \/ Receive(w) \/ Crash(w) \/ Exit(w)
       \/ WorkerStops(w)
       \/ \E k \in AdminKeys : RemoveTunnel(w, k)
       \/ \E l \in AdminLabels : RemoveClient(w, l)
  \/ Hour \/ ShutDown

\* Channels deliver, exits are noticed, time passes and a worker that was told to
\* stops; nobody promises to connect, to leave or to crash.
Spec ==
  /\ Init /\ [][Next]_vars
  /\ \A w \in Workers : /\ WF_vars(Receive(w))
                        /\ WF_vars(Answered(w) \/ DoDisconnect(w))
                        /\ WF_vars(Exit(w)) /\ WF_vars(WorkerStops(w))
  /\ WF_vars(Hour)

-----------------------------------------------------------------------------
Quiet ==
  \A w \in Workers : /\ toPrimary[w] = <<>> /\ toWorker[w] = <<>>
                     /\ status[w] # "dead"

\* Socket s serves the host it dialled.
Serving(s) == phase[s] = "open" /\ tab[at[s]].routes[hs[s].host] = s

Resting(n, s) == primary.claims[n] # None /\ primary.claims[n].socketId = s

\* A name rests on a socket of its owner that asked for it, and there is a
\* reason for it: the socket serves the name or waits for the answer, its
\* release is on its way, it left before the answer, or its worker died.
ClaimsTraced ==
  \A n \in Names, s \in Sockets : Resting(n, s) =>
    /\ n \in resolveRequestedNames(hs[s])
    /\ hs[s].owner = primary.claims[n].clientId
    /\ \/ phase[s] = "open" /\ n \in granted[s]
       \/ phase[s] = "asked" /\ [type |-> "CLAIM_HOSTS_RES", arg |-> s, ok |-> TRUE]
                                  \in ToSet(toWorker[at[s]])
       \/ Message("RELEASE_HOSTS", s) \in ToSet(toPrimary[at[s]])
       \/ phase[s] = "left"
       \/ status[at[s]] \in {"dead", "exited"}

\* Once the channels are empty, no host is handed to a worker that has no
\* tunnel for it.
NoStaleRoutes ==
  Quiet => \A k \in Hosts : primary.hostToWorker[k] # None =>
    tab[primary.hostToWorker[k]].routes[k] # None

\* No worker has died and nobody was removed.
Undisturbed == removals = 0 /\ Having("dead") \cup Having("exited") = {}

\* The visitors of the tunnels: they name a host, a client's label under a host
\* that nobody dials, or the local host.
Visitors ==
  {[host |-> h, keys |-> <<h>>, near |-> {}, local |-> FALSE] : h \in Hosts}
  \cup [host : Hosts, keys : {<<k>> : k \in Keys \ Hosts}, near : {{}}, local : {FALSE}]
  \cup [host : Hosts, keys : {<<h>> : h \in Hosts \ {g.host : g \in Handshakes}},
       near : SUBSET (Keys \ Hosts), local : BOOLEAN]

\* Where findTunnelSocket has a tunnel for visitor v.
Answering(v) == {w \in Workers : findTunnelSocket(tab[w], hs, v) # {}}

\* Every tunnel that v's keys named was connected to worker w, and so is every tunnel
\* if v asks for the local host, which leads to the only tunnel there is.
OnlyAt(v, w) ==
  /\ \A r \in Sockets :
       hs[r] # None /\ Aliases(hs[r], granted[r]) \cap ToSet(v.keys) # {} => at[r] = w
  /\ v.local => \A u \in Workers \ {w} : tab[u].active = {}

\* README.md:204: "Inbound requests for a given tunnel domain are handed off
\* directly to the worker holding that client's socket connection": once the
\* channels are empty, the worker the primary picks is the one that can answer.
HandedToHolder ==
  Quiet /\ Undisturbed => \A v \in Visitors, w \in Workers :
    Answering(v) = {w} /\ OnlyAt(v, w) => resolveWorker(v) = {w}

\* cluster.js:151: "If a new connection already replaced this host [...], do not evict
\* it!": the same when the administrator removed tunnels.
HandedAfterRemovals ==
  Quiet /\ Having("dead") \cup Having("exited") = {} => \A v \in Visitors, w \in Workers :
    Answering(v) = {w} /\ OnlyAt(v, w) => resolveWorker(v) = {w}

\* Every handshake that waits for its claim gets an answer.
ClaimsAnswered == \A s \in Sockets : phase[s] = "asked" ~> phase[s] # "asked"

\* The removal of socket s's tunnel, or of its client, is next in some channel.
RemovalNext(s) ==
  \E w \in Workers : toPrimary[w] # <<>> /\
    Head(toPrimary[w]) \in {Message("DISCONNECT_SOCKET_CLUSTER", hs[s].host),
                           Message("DISCONNECT_CLIENT_CLUSTER", hs[s].label)}

\* No other socket of its host is connected or has yet to be unregistered.
Alone(s) ==
  \A r \in Sockets \ {s} : hs[r] # None /\ hs[r].host = hs[s].host =>
    /\ phase[r] # "open"
    /\ Message("UNREGISTER_HOST", r) \notin ToSet(toPrimary[at[r]])

\* A removal served by any worker ends the tunnel wherever it is connected:
\* once the primary handles it, a tunnel registered alone stops serving, unless a
\* worker has died or dies.
RemovalsTakeEffect ==
  \A s \in Sockets :
    Serving(s) /\ primary.hostToWorker[hs[s].host] = at[s] /\ Alone(s)
        /\ RemovalNext(s) /\ Having("exited") = {}
      ~> ~Serving(s) \/ Having("dead") # {}

\* A primary that is told to stop ends up without workers, whatever died or was
\* forked meanwhile, so that its process ends.
ShutdownEnds == stopping ~> Having("up") \cup Having("dead") = {}

\* cluster.js:362-363: "A crashed worker cannot send RELEASE_HOSTS; free its
\* names here or they stay pinned to a socket that no longer exists."
ExitFreesNames ==
  [][\A w \in Workers : Exit(w) =>
       \A n \in Names, s \in Sockets : Resting(n, s)' => at[s] # w]_vars

\* hostnames.js:109: "Drop claims whose owner has been gone longer than the
\* TTL": a claim does not rest for ever on a socket that is gone.
GoneOwnersDropped ==
  \A n \in Names, s \in Sockets :
    Resting(n, s) /\ phase[s] \in {"left", "gone"} ~> ~Resting(n, s)
=============================================================================
