# A verification development for HLT

HLT exposes local web servers through a public server: a *tunnel client* opens a
socket.io connection to the server, is granted one or more public names, and from then
on the server hands every visitor of those names to that connection. This directory
models the parts of HLT that decide *who owns a public name*, *which connection a visitor
is handed to*, *what becomes of his request* and *what is counted of it*, together with
the life of the tunnel client and of an administrator's session. The models are checked
with TLC, and the central results about names, keys, routes, the cluster's claims and
routing, identities, streams, back-pressure and the console are proved with TLAPS.

The paths below are relative to the repository root (`src/` in `PROJECT.json`).

## 1. Inventory

| Component | Code | State it keeps | Operations | Here |
|---|---|---|---|---|
| Public-name claims | `server/hostnames.js` `ClaimRegistry` | name -> {clientId, socketId, lastSeen} | claim, release, releaseOwner, deleteName, lazy expiry in owner | modelled, proved |
| Tunnel server process | `server/server.js`, counters of `server/stats.js` | `tunnelSockets`, `aliasToPrimaryHost`, `activePrimaryHosts`, `clientRegistry`, `localClaims`, connection counters | authentication middleware (403 / takeover / claim), `connection`, `onDisconnect`, `DELETE /sockets`, `DELETE /clients` | modelled, proved |
| Visitor lookup | `server.js` `findTunnelSocket` | none | seven-step lookup over the tables | modelled, proved |
| Cluster primary and workers | `server/cluster.js`, IPC part of `server.js` | `hostToWorker`, `workerHosts`, `clusterSockets`, `clusterClients`, `claims`, `workerClaims`, `slots`, `isShuttingDown`; one FIFO channel per worker and direction | REGISTER_HOST, UNREGISTER_HOST, CLAIM_HOSTS, RELEASE_HOSTS, FORGET_*, DISCONNECT_*, `resolveWorker`, worker exit and respawn, shutdown | partly modelled, proved |
| Redis claims | `hostnames.js` `RedisClaimRegistry`, `claimNames` | `hlt:claim:<name>` keys | claim, release, purge, local fallback | modelled, proved |
| Client identities | `hostnames.js` `ClientIdRegistry`, `/api/token`, `client/src/cli.ts`, `api.ts` | known client ids; the profile on disk | exists, reserve, forget; init, forced init, renewal | modelled, proved |
| Stream multiplexing | `server/lib.js`, `client/src/lib.ts` | id -> {request half, response half} per socket | register, data, end, error, destroyAll | modelled, proved |
| Visitor proxying | `server.js` HTTP and upgrade handlers, `client/src/api.ts` | the two halves of a proxied request | forward, tear down, record traffic | modelled, proved |
| Backpressure | `safeEmitWithDrain` of both `lib` files | bytes and waiters per transport | write, drain, timer | modelled, proved |
| Telemetry | `server/stats.js` | buffered deltas, Redis rows, active hosts per node | bump, flush, requeue, forget, heartbeat | modelled |
| Client life cycle | `client/src/api.ts`, `sdk.ts` | socket, keep-alive timer, server index | connect, fail over, heartbeat, disconnect_exit, stop | modelled |
| Admin web console | `web/src/App.tsx`, `lib/api.ts`, `lib/queries.ts`, `/auth/login` and the token check of `server.js` | stored token, queries; `loginAttempts` | log in and out, refresh, remove; throttle | partly modelled, proved |
| Client proxies, file server, command line, configuration, logging | `client/src/*`, `server/config.js` ... | none that matters to a protocol | I/O and presentation | not modelled |

How they interact:

- A client's handshake passes the **middleware**, which asks the **claim registry** for
  the names the client wants. The registry lives in the process itself, or (clustered) in
  the **primary**, where it is reached by the messages CLAIM_HOSTS / CLAIM_HOSTS_RES.
- An accepted connection registers its **aliases** (dialled host, granted hosts, client
  id, endpoint) in the route tables, and with the primary (REGISTER_HOST). `onDisconnect`
  undoes both (UNREGISTER_HOST) and releases the names (RELEASE_HOSTS).
- The **administrator** removes tunnels and clients at any process: locally first, then
  by asking the primary to forget them and to have the right worker disconnect them.
- The **primary** routes tunnel handshakes to workers by a hash of the host and visitors
  by `hostToWorker`; when a worker exits it cleans up after it and forks a successor,
  unless it is shutting down.
- Once a node has reached **Redis**, it claims names, client ids and counters there; while
  Redis fails it falls back to its own memory.
- A visitor's request becomes an **exchange**: a pair of streams at either end of the
  tunnel's connection, whose messages share that connection with all other exchanges and
  pass the **drain gate** on their way out. The bytes are counted by **telemetry**.
- The **tunnel client** redials, goes round its servers and carries its streams from one
  connection to the next; the **console** lists and removes over the admin API.

What is hard here: two tunnels of one client share names and labels, so clean-up must
tell whose entry it removes; the order "delete the route, then close the socket" makes
`onDisconnect` run in the middle of another handler; in a cluster a handshake waits for
its claim while the socket may leave, another may take its place, the administrator may
purge, and a worker may die with messages under way; with Redis every `await` is a point
where another node may change what was just read, and where a command may fail or be
answered too late; the two ends of a connection notice its loss at different moments while
streams live on; answers reach the console in any order. `PROJECT.json` lists each hazard
at its line.

What makes the components correct:

- *claims*: a name has one owner; a connected durable owner cannot lose it; a reservation
  lasts its TTL and no longer; a claim that rests on a socket is backed by a connection.
- *server*: routes lead only to live sockets that registered them; the route of a claimed
  name is the socket of the claim, unless a client announced that host as its own; closing a connection takes no route from another.
- *lookup*: a visitor is handed only to a tunnel that registered what he asked for.
- *cluster*: claims are always answered and always traceable; visitors are handed to the
  worker that holds the tunnel; nothing points at a dead worker; removals arrive; a
  shutdown ends with no worker left.
- *Redis claims*: a connected client keeps its keys, a grace period is honoured, and every
  key has a connection or a time to live that will end it.
- *identities*: an issued id goes only to its holder or an operator; a profile keeps its id.
- *exchanges*: a body that ends cleanly is complete; no registered stream is left behind; an
  exchange is recorded once; a visitor is answered; a visitor who leaves stops the local application.
- *drain gate*: every write is called back exactly once and does not wait on an idle
  transport.
- *telemetry*: what is counted arrives, once, in all the rows it belongs to, or was lost in
  one of the ways the books name.
- *client*: it ends up connected to a server that answers, or has ended for good.
- *console*: a session ends with its token, by its user or by the late refusal of a request
  that carried another token, and by no other answer; no answer brings a removed tunnel
  back; failed logins are limited.

## 2. Modules

| Module | What it models |
|---|---|
| `NameClaims` | `ClaimRegistry`'s methods as pure operators on a claim table |
| `NameOwnership` | the abstract promise: a name is free, held or reserved |
| `ClaimRegistry` | the registry as a state machine; refines `NameOwnership` |
| `TunnelTables` | the tables of one server process as a record, and what connecting, closing, removing and looking up do to them |
| `TunnelServer` | one server process: handshakes, closes, admin removals, time |
| `PrimaryTables` | the primary's tables as a record, and what each message does to them |
| `TunnelCluster` | primary, workers, channels, routing, crashes, shutdown, admin removals, time |
| `RedisClaims` | the claims of several nodes in one Redis, one command per action |
| `Identities` | client ids, their tokens and the profiles that ask for them |
| `Exchange` | a visitor's request or upgrade from the visitor to the local application and back |
| `DrainGate` | `safeEmitWithDrain` over either end's engine.io |
| `Telemetry` | batches, requeues, heartbeats and purges of `stats.js` |
| `ClientLife` | one tunnel client and its servers |
| `AdminConsole` | one tab of the console and the server's login |
| `ClaimRegistryProofs`, `TunnelServerProofs`, `TunnelClusterProofs`, `RedisClaimsProofs` | theorems on names, routes, the cluster's claims and routing, and keys |
| `IdentitiesProofs`, `ExchangeProofs`, `DrainGateProofs`, `AdminConsoleProofs` | theorems on identities, streams, back-pressure and the console |
| `MC...` | instances for TLC |

`TunnelTables` extends `NameClaims`; `TunnelServer` and `PrimaryTables` extend
`TunnelTables`; `TunnelCluster` extends `PrimaryTables` and drives the same `Connect`
and `Drop` as `TunnelServer`, one table record per worker. `RedisClaims` extends
`NameClaims` and uses its `CanClaim` and `AfterClaim` for the fall back. The other modules
stand for themselves: what they need of their neighbours is an action of their
environment.

Definitions introduced as "Mutated form" are plausible mistakes in the code they precede.
No specification uses them: substituting one for its original must break the property
`PROJECT.json` pairs it with, which shows that the property depends on the code.

### Correspondence with the code

- **Claims.** `cl[n]` is `this.claims.get(n)`. `Date.now() - lastSeen` of an entry without
  a socket is `idle`, in hours, advanced by `Hour` and capped at `IdleCap`, beyond which
  `_expired` cannot change its answer. The list of names is a set; because `claim` purges
  the expired names it meets before the first taken one, a refusal purges any subset of
  the expired names asked for.
- **Server.** One action is one turn of the event loop. Without Redis, `claimNames`
  resolves in the same turn, and so do the promises in the admin handlers, so a handshake
  or a removal is atomic in `TunnelServer`. `TakeOver` includes the old socket's
  `onDisconnect`, which `disconnect(true)` runs synchronously. `Drop(t, V, first, ...)`
  is the closing of the sockets in `V`, where `first[s]` is the key a handler deleted (and
  recorded as a disconnect) before it closed `s`. The loop of `DELETE /clients` meets the
  keys of a socket in the order of insertion, which is abstracted: `first` is any of them.
- **Cluster.** `toPrimary[w]` and `toWorker[w]` are the IPC channels. `Ask` is the
  middleware up to the claim, `Answered` what follows the answer, `GiveUp` a transport that
  closes or a `clusterRequest` that times out in between. A message names a socket; host,
  aliases and names are what that socket's handshake and grant say. UNREGISTER_BARE is the
  administrator's UNREGISTER_HOST, which names no socket. `Crash` loses the worker's
  memory and any tail of what it was sending, `Exit` is the primary's handler, with the
  fork that ends it or, once `stopping`, without. `resolveWorker(v)` is the primary's choice
  for a visitor, of which the worker's own `findTunnelSocket` is asked again.
- **Redis claims.** `claim[s]` and `release[s]` are the programs of one connection, at the
  command they will send next; every command is one action, which over-approximates the
  order in which one node's commands reach Redis. `disturbed` collects the names on which a
  command acted after what it had read was no longer so, `orphaned` those whose holder ended
  without a release; both are history variables, used by properties only.
- **Identities.** `job[p]` is a request between its lookup (`Check`), its record (`Issue`)
  and its answer (`Granted`, `Taken`, `AnswerLost`). `reserve`'s result is ignored, as the
  handler does. `Operators` are the profiles with the server's API key.
- **Exchange.** `srv[x]` is the visitor, the `TunnelRequest` and the `TunnelResponse` of
  exchange `x`, `cli[x]` the streams of the client and the local application; a stream is
  in its manager's map while it is "open". `link` is the connection each end believes in;
  `toClient` and `toServer` are its two directions, and what the client emits while it is
  disconnected waits in `held`, as socket.io's send buffer does. The client's manager
  destroys its streams at the first disconnect only (`once`), so later ones live on. An
  upgraded visitor that closes its sending side ends the response stream's writable side,
  whose "finish" takes it out of the server's map (`Finishes`, state "finished"): what the
  client says of it and the loss of the connection do not reach it any more. An HTTP
  visitor's upload goes on after the response has ended and been recorded (`early`), as
  `req.pipe` does; `sent` counts what was relayed of it, `bytes` is what was recorded.
- **Drain gate.** `bytes` and `waiters` are `connStates`' entry, `queue` and `flight` what
  engine.io holds; `timers` and `ticks` are callbacks due. The server's engine emits "drain"
  when the buffer is handed to the transport, the client's when it is out.
- **Telemetry.** A command in `wire[n]` is one EXEC, DEL or read; Redis answers a node in
  order. `OutageAfter` loses an answer whose command was applied. A node has a Redis client
  (`wired`) from the first time Redis was reached (`Wire`); before, `flush` swaps the batch
  out, tells the primary and drops it (`Unsent`), and a disconnect flushes nothing.
- **Client.** `Tick` is the heartbeat's interval; `silent` counts it instead of the clock.
  `host` is the name the manager will dial, as a sequence of labels; `nextServer` keeps it
  when it ends with the next server's name (`endsWith`), and `Dialled` is the server it then
  leads to. `stop()` does nothing while `start()` has no socket yet.
- **Console.** One query stands for the four, one kind of removal for tunnels and clients,
  any number of which may be under way, one for each row. The refresh buttons are disabled
  while a fetch is under way. A refused request keeps the token it carried, for
  `SessionKept`. A fetch whose query was cleared or replaced is "stale". Ages are in ticks, up to one past the
  window. The query library is modelled from its use: one fetch of a query at a time, an
  invalidated one replaced unless it is the first.
- **Abstractions.** A host, its port-less and its lower-case form are one value;
  `NameOf`/`HostFor` stand for `parseName` + `normalizeName` and `buildHost`, and the
  legacy mode without a tunnel domain is `NameOf` one-to-one. Tokens are the pair (claim
  owner, label) they yield. `keys` are the aliases a handshake announces (`clientEndpoint`,
  `clientId`, and host and label of `serverUrl`), any keys at all; `ids` are its client
  labels, by which alone visitors find it. A process restart is a fresh `Init`. Bodies are numbers of
  chunks. Formatting, logging and timestamps are left out.

## 3. Runs

| Run | Instance | What it shows |
|---|---|---|
| `claims` | 2 names, 3 owners (1 ephemeral), 3 sockets, TTL 1 h | the registry's properties and the refinement of `NameOwnership` |
| `server_shared` | 4 handshakes of 3 clients; two dial hosts of one name and share labels, one announces another's public host | routes and claims agree but for announced hosts; a closing connection takes no route from another |
| `server_disjoint` | 5 handshakes, 4 sockets, removals by host | `VisitorsReachTheirTunnel`, exact `active_sockets` |
| `cluster_races` | 2 sockets, 2 slots, 3 workers, no reservations (negative TTL), a shutdown | without a crash, visitors are handed to the worker that holds the tunnel they reach there; every claim is answered; a shutdown ends with no worker |
| `cluster_faults` | 2 sockets, 2 slots, 3 workers (one crash), one admin call | claims are traceable, no host stays with a worker that lost it, removals take effect |
| `redis_claims` | 2 nodes, 3 connections of 3 owners, 2 names, 1 fault | `NamesKept`, `GraceKept`, `NotPinned` at every await |
| `identities` | 2 nodes, 2 profiles (1 operator), 1 name, 2 uuids, 2 requests, 1 fault | issued ids are protected, profiles keep their ids, forced inits yield |
| `exchange` | 1 exchange, 3 chunks, 3 connections | clean ends are complete, no registered stream left behind, traffic recorded once, answers arrive |
| `drain_gate` | 2 streams of 3 writes of 1 or 2 bytes, mark 2, either end | exactly one callback, no idle wait |
| `telemetry` | 1 node that reaches Redis at some time, 1 tunnel, 2 requests, 2 faults, 1 purge or read | the books balance and what they do not call lost arrives |
| `client_life` | 3 servers, one's name the parent domain of another's, 3 faults | ends connected if a server stays up that can be dialled, does not leave one that answers |
| `admin_console` | 2 logins, 4 failures, 2 removals | sessions, lists and the throttle under answers in any order |

The `.cfg` of a run ends with the properties that also hold of its instance and are not
repeated every time: the type invariant of its module, and those that another property of
the run or a theorem implies.

**Known disagreements.** Reading the code against its own comments turned up statements
that are not true of it. Each is a definition of its module, and the configuration named,
or the one it says to add it to, shows the counterexample:

| Statement | Quoted from | Why the code breaks it | Configuration |
|---|---|---|---|
| `ZeroTtlReleasesAtOnce` | `server/config.js:54-55` | `parseInt(...) \|\| 24` turns 0 into 24 hours | `MCClaimRegistryZero` |
| `UrlsExclusive` | `server/server.js:489-490` | a takeover claims nothing, so the live tunnel's reservation runs out | `MCTunnelServerTwoOwners` |
| `ActiveTunnelsAlive` | `server/server.js:156-157` | an admin removal deletes the route first, so `onDisconnect` skips the clean-up | `MCTunnelServerPhantom` |
| `UrlsAreTheOwners` | `server/server.js:448-449` | announced aliases are routed without a claim (`server.js:161-192`, `529-536`), so a client that announces another's public host takes its route | add it to `MCTunnelServerShared` |
| `HandedAfterRemovals` | `server/cluster.js:151` | a removal erased the entry that tells old from new | `MCTunnelClusterEvicted` |
| `HandedToHolder`, two hosts of a worker sharing a label | `README.md:204` | the label's entry goes with the first of the two tunnels that closes, though `findTunnelSocket` would find the other | `MCTunnelClusterLabel` |
| `HandedToHolder`, labels that change | `README.md:204` | two claims of one owner for one host are both granted; the later tunnel's close erases the label under which the earlier is still found | `MCTunnelClusterRelabel` |
| `HandedToHolder`, an anonymous client and a rival | `README.md:204` | a name granted to an anonymous client is granted to the next one before the first has its tunnel; the later tunnel's close erases the host and leaves the earlier one listed by its label only | `MCTunnelClusterRivals` |
| `NoStaleRoutes`, a tunnel granted a second host | `server/cluster.js:151` | two claims of one owner for one host are both granted; the end of the earlier tunnel is taken for a stale one, and its second host stays listed | `MCTunnelClusterAsked` |
| `ExitFreesNames` | `server/cluster.js:362-363` | a stale RELEASE_HOSTS made the primary forget that the worker holds them | `MCTunnelClusterExit` |
| `GoneOwnersDropped` | `server/hostnames.js:109` | a claim granted to a client that left is never released | `MCTunnelClusterPinned` |
| `LoserIsRefused` | `server/hostnames.js:200-201` | GET and SET of two takeovers interleave and both are granted | `MCRedisClaimsRace` |
| `NoLandGrab` | `server/hostnames.js:301-304` | two first requests for one id both pass `exists()` | `MCIdentitiesRace` |
| `PullStopsForAll` | `client/src/api.ts:538-540` | "aborted" cleans up without an error (`server.js:1326`), so the client is not told | `MCExchangeAborted` |
| `UpgradesGoWithConnection` | `README.md:11` | a visitor that half-closed has been unregistered (`lib.js:180-188`), so `destroyAll` and later chunks miss it | add it to `MCExchange` |
| `UploadsCounted` | `server/server.js:1354-1355` | the bytes are recorded when the response closes, while the upload may go on | add it to `MCExchange` |
| `KeptUpToLimit` | `server/stats.js:16` | before Redis was first reached a flush drops its batch (`stats.js:166-167`), whatever the limit | add it to `MCTelemetry` |
| `EveryServerServes` | `client/src/api.ts:69-74` | a server whose name ends the current one's is never dialled (`endsWith`, `api.ts:117`) | add it to `MCClientLife` |
| `NoGoodSessionEnds` | `web/src/lib/api.ts:148` | any 401 clears the token, whichever token the refused request had carried | add it to `MCAdminConsole` |
| `SurvivesDeploys` | `client/src/api.ts:320-321` | "claim registry unavailable" is sent as [409-HOSTNAME], which ends the client | `MCClientLifeDeploy` |
| `PrimaryCountsOnce` | `server/stats.js:9-11` | a requeued batch is announced to the primary again | add it to `MCTelemetry` |
| `FetchesSignedIn` | `web/src/App.tsx:28` | an interval of `false` does not disable a query: the login page fetches too | add it to `MCAdminConsole` |

Others are visible in the models without a statement of their own. A later
tunnel of the same client that is granted the same name takes the granted host's route
from the first (`Connect`), although "granted public hosts route exactly like the dialled
host" (`server/server.js:519`). `RemoveClientThrows`: `DELETE /clients/anonymous`
fails half way through its loop when it meets a key of a socket it has just closed, and
leaves the client's record behind. In a cluster, a client's label stops leading to his
other tunnel when the one at another worker closes (`OnlyAt`). Names of a refused or
abandoned Redis claim stay persisted until the same client comes back (`orphaned`), and
local fall-back claims are not released once the node is wired. An id issued while Redis
could not be reached is not protected once it can (`Exists`). The limit of a requeue tests
only what came in since. A visitor is never answered when the tunnel is lost, or the
response breaks off, in mid-answer; an upgrade whose visitor leaves before the 101 is not
noticed; `response-pipe-error` is ignored when the response is not registered. A client
with servers of different domains loses its label on fail-over, and one whose autoinit
fails throws, and a `stop()` while `start()` still waits for an answer is without effect.
A mistyped password in a second tab of the console signs all tabs out; entries of
`loginAttempts` go only when their address comes back.

**Bounds.** Two names suffice for all-or-nothing grants and for a name that is taken next
to one that is free; three owners give durable/durable and durable/ephemeral contention;
three sockets are the least for "old, new and a third party" (takeover, then somebody
else). A TTL of one hour makes reservations last two ticks of `Hour`; a larger one only
adds waiting. In the cluster two slots separate "same worker" from "other worker" and one
spare worker allows one crash; with two sockets the second is the rival, the successor or
the other tunnel of one client. `Sockets` bounds the connections, each used once, `Workers`
the processes, and so the crashes, `MaxRemovals` the administrator's calls; a removal and a
crash are combined in `cluster_faults`. One fault in `redis_claims` and `identities` is a
failed command, a timeout, a crash or an outage at any point of the programs. One exchange
is enough: exchanges meet only in the count of the drain gate, which has a model of its
own; three connections make "first disconnect" and "later disconnect" different, and three
chunks are split between the two bodies. Two streams with three writes let a callback write
again while another waits. In `telemetry` one node is enough for what is its own memory and
its own key, two faults for an outage on top of a requeue. Two faults break a client's
first server and its successor, the third leaves a verdict. In the console two tokens are an
old and a new session, two removals may be under way at once, four failures two windows' worth with two attempts each. Every run
explores all reachable states of its instance.

`server_disjoint` lists no two dialled hosts for one name because otherwise
`VisitorsReachTheirTunnel`, `OneSocketPerHost` and `LiveCount` are not true of the code, and
removes by dialled hosts for the same reason: a removal by a client label leaves a stale
alias, and counts a disconnect twice. `HandedToHolder` speaks of a cluster that lost no
worker and where nobody was removed, and of visitors that only one worker could serve
(`OnlyAt`; for the local host, that no other worker has a tunnel at all):
after a crash a host may be served by two workers (its slot's and the fallback's), and a
label shared by tunnels at two workers leads to either. `cluster_faults` assumes that
the primary handles what a worker wrote before it handles its exit (`LateMessages` =
FALSE); with TRUE, `NoStaleRoutes` fails, because a REGISTER_HOST handled after the exit
is never undone. Whether Node can deliver in that order is a matter of its event loop, so
it is recorded as a hazard only. `NamesKept` and `NotPinned` except the names in `disturbed`
and `orphaned`: what is left is that no *other* order of commands loses or pins a name.

**Deadlock** is checked where time can always pass (claims, server, cluster); the other
systems may come to rest when their bounds are used up.

**Fairness.** `WF(Hour)`, `WF(Tick)`: time passes. In the cluster, `WF(Receive(w))` and
`WF(Answered(w) \/ DoDisconnect(w))`: Node's IPC channel is reliable and ordered as long as
both ends live, and their event loops keep turning; `WF(Exit(w))`: the operating
system reports a child's death; `WF(WorkerStops(w))`: a worker exits by itself after 5
seconds at the latest. No fairness is assumed of clients, administrators or
crashes: nobody has to connect, leave, remove or die, and in particular a client need not
give up (`GiveUp`) for its claim to be answered. In `Identities`, `WF(Handler(p))`: a
handler goes on or the answer is lost. In `Exchange`, `WF` of the two receivers (socket.io
delivers while both ends believe in one connection) and of `UploadEnds`; that the
application answers is a premise of `AnswerArrives`, not of the specification, and
`LocalPullStops` does without it. In `DrainGate`, `WF` of ticks, timers and of a transport
that becomes writable. In `Telemetry`, `WF` of timers, heartbeats, expiry and answers, and
`SF(Recover)`: Redis does not stay away for ever, though it may fail again each time. In
`ClientLife`, `WF` of dialling, of heartbeats and their answers, and of a dead transport
being noticed. In the console `SF` of a refresh being served and answered: again and again
one gets through, though others may be lost.

## 4. Proofs

All for every value of the constants that satisfies the named assumptions.

`ClaimRegistryProofs` (`NameClaimsAssumption`):

- `TypeCorrect`, `ClaimsStayBacked`: `ClaimsBacked` is inductive together with `TypeOK`.
- `HeldNamesAreKept`, `ReservationsAreHonoured`: action properties, one step per action;
  the claim of a *taken* name fails, so a `Grant` can move a held or reserved name only to
  its own owner.
- `RegistryImplementsOwnership`: under `OwnerMap` (what `owner()` reports) and `HeldNames`
  every step is an abstract `Grant`, `Depart`, `Lapse` or `Revoke`, or a stutter. The point
  is lazy expiry: an entry that has expired but is still in the map is free already, so
  purging it is a stutter and the hour that expires it is the `Lapse`.

`TunnelServerProofs` (`NameClaimsAssumption`, `TunnelTablesAssumption`,
`HandshakesAssumption`):

- `ServerTypeCorrect`: the counters need `Sockets` finite, as `Drop` counts records.
- `RoutesStayLive`, `ServerClaimsStayBacked`, `UrlsStayLive`, `RoutesStayWithOwners` are
  the four conjuncts of the inductive invariant `RouteInv`. None is inductive alone:
  `RoutesLive` says that only the open socket that registered a key is found there, and
  makes `Drop` remove exactly the routes of the sockets it closes; `ClaimsBacked` says that
  a claim with a socket ends when that socket closes; with both, a close parks a claim
  and removes its route in one step, which is what keeps `UrlIsLive`; and
  `RouteMatchesClaim` needs `UrlIsLive` for held names and the owner test of the takeover
  for the others. The last two except the names whose host a tunnel has announced without
  dialling it or being granted it (`Announcers`); that there the route may be another's is
  the known disagreement `UrlsAreTheOwners`.
- `RoutesAreKept` follows from `RouteInv` step by step.
- `RoutedPrimariesAreActive` holds of all handshakes and administrators: the entry of
  `activePrimaryHosts` goes only with the tunnel's own route (`StillPrimary`).
- `VisitorsAlwaysReachTheirTunnel` is proved from `AliasInv`, which says that the alias map
  agrees with the routes except where a dialled host lost its route, and assumes
  `DialledKeysOnly`: the administrator removes tunnels by the host they dialled. It is
  needed: a removal by another alias leaves stale entries of the alias map behind.
- `LiveCountIsRight` and `OneSocketServesAHost` assume `NamesDisjoint` too (nobody's aliases
  include a host that another tunnel dials) and rest on `DialledRouted`: an open socket is
  always found under the host it dialled. Then a removal meets each socket under one key
  and counts it once. Without the hypotheses a removal by label counts a socket twice, and
  two sockets serve one host, as section 3 says of `server_disjoint`, whose instance
  satisfies both.

`TunnelClusterProofs` (`NameClaimsAssumption`, `TunnelTablesAssumption`,
`ClusterAssumption`; any number of workers, sockets, slots, crashes and removals):

- `ClaimsAreTraced`, by the inductive invariant `CInv`. `TalksOK` is its core: of the
  messages about a socket's names between its worker and the primary, the claim is under
  way once at most, the answer once at most and never beside the claim, and a release only
  when the socket is gone, and only if it had been granted what it asked for. `SocketsOK`
  puts every socket that has arrived at a worker, which lives as long as the socket waits:
  a waiting socket whose worker died is gone and its claim is "lost". `RoutesOK` lets
  `Drop` close the worker's own open sockets only, so that a close of a granted socket
  emits its RELEASE_HOSTS in the same step in which the socket stops serving the name.
  `RestsOK` keeps new claims apart from the claims of sockets yet to come. `Shape` says
  that the primary knows finitely many hosts, so that its purges send finitely many
  messages.
- Handling a worker's exit can free claims but not create any; that it need not free all of
  them is the known disagreement `ExitFreesNames`. With `LateMessages` either way.
- `RoutesAreServed` follows registrations as `TalksOK` follows claims. `RInv` says that a
  REGISTER_HOST on its way (`RegsOK`), and a host that the primary lists (`EntriesOK`), is
  followed by a later registration of the host, or still true at the worker, or followed by
  the UNREGISTER_HOST that ends it; in the last case the socket the primary knows is not
  another one, or `isCurrentSocket` would ignore that end. `HeldOK` makes the exit handler
  find every host of the worker in `workerHosts`. It assumes `OwnHosts`, that no handshake
  is granted a host other than the one it dials, and an exit that is handled after the
  worker's last message; without either the property is false (`MCTunnelClusterAsked`,
  `LateMessages`).
- `VisitorsReachHolder`: as long as `Undisturbed` holds, `UInv` says where every key is.
  `SaidOK` is its core: the registration of the socket that a worker routes a host to is the
  last one of that host, under way or already in the primary's tables, so that at rest the
  primary lists exactly the hosts that are routed. `TogetherOK` ties a tunnel's labels to its
  host at the worker, `ListedOK` at the primary; there a label may also be listed for a
  tunnel at another worker, which is the case `OnlyAt` excludes. `HomesOK` and `UsualOK` are
  what "undisturbed" buys: sockets are at their slot's worker, and no admin message is under
  way. `EpochsOK` says that the labels of a host change only after an UNREGISTER_HOST, so
  that `isCurrentSocket` cannot keep the primary from erasing the old ones. Why that is so
  when clients with different labels compete for a host is the claim protocol, in
  `ContestOK`: as long as a host has its tunnel, or the answer that grants it is under way,
  its name rests on a socket of that client (`GrantedOK`), also when a rival's claim is
  looked at before the release (`BarredOK`), so no rival is granted it (`UnrivalledOK`).
- `VisitorsReachHolder` assumes `OwnHosts` and `OwnKeys`: the hosts of one worker have
  different labels, and a host the same ones each time, unless the clients are different,
  none of them is anonymous and the host has a name to claim; and nobody announces or is
  granted a host that another dials. It is false of hosts that
  share a label, of one client whose labels change, and of an anonymous rival
  (`MCTunnelClusterLabel`, `MCTunnelClusterRelabel`, `MCTunnelClusterRivals`); without a name
  no claim keeps rivals apart. The clients of `cluster_races` and `cluster_faults` satisfy it.
- `ClusterAssumption` takes `Slots` finite: the number of workers is.

`DrainGateProofs` (`DrainGateAssumption`, any number of streams and writes):

- `GateTypeCorrect`, `CallbacksRunOnce`, `NobodyWaitsIdle`, `TheCountCovers` follow from one
  inductive invariant: `Bookkeeping` says that callbacks are due, and have run, only for
  writes that were made, each once; `Engine` ties the count to what engine.io holds, and is
  why nobody waits idle: at the client the count is zero when the transport has nothing, and
  at the server a count that was not reset since the buffer was last empty is one write's.

`RedisClaimsProofs` (`NameClaimsAssumption`, `RedisClaimsAssumption`; any number of nodes,
connections, names per handshake, faults and crashes):

- `ClaimsStaySound`: the inductive invariant. `ProgramsOK` places the two programs of a
  connection in its life (a release starts when the connection is over, a claim is done only
  while it is open, a takeover has seen an ephemeral owner, a DEL a missing or an ephemeral
  one unless there is no grace period). `Keeps` says what `NamesKept` says of the names a
  claim is done with already, also while it is still at its later ones; without that a claim
  of two names could be granted without its first. `Supported` names, for every key without
  a time to live, the connection that will give it one: one whose claim is done with the
  name or has just set it, or whose release has not come to it.
- `NamesAreKept`, `KeysAreNotPinned` follow. The step that matters is the command that hits
  a key: unless the name is `disturbed` the key is what the program had read, so a SET
  replaces an ephemeral owner's key, and a DEL or PEXPIRE one that nobody connected holds.
- `GraceIsKept` assumes `claim_ttl > 0`: without a grace period a release deletes at once.

`IdentitiesProofs` (`IdentitiesAssumption`):

- `IssuedIdsAreProtected`: inductive with `WillBeFound`: as long as Redis stays up, the node
  that is asked will find there an id that was there when it was asked.
- `IdentitiesAreKept`: from `Loyal`, which follows a profile from its first request, made
  for its own id and with its own token, to the second one of a forced init, made for none.

`ExchangeProofs` (`ExchangeAssumption`; any exchanges and connections):

- `NoStreamIsLeft`, `TrafficIsFinal`: the invariant is about the server's side of one
  exchange and holds whatever the messages say: a registered stream belongs to the
  connection the server believes in and to a visitor who is there, or still uploads; a
  "finished" one is not registered, and only its visitor ends it. `Final` says that once
  recorded the bytes are those of the whole response, and of the upload up to then: all of
  it, unless the visitor was still sending when the response to an HTTP request was done.
- `CleanEndsAreComplete`: `FInv` relates the two ends through the messages under way. `Down`
  says of the response that what the visitor got and what is still under way (also in
  `held`, the client's send buffer) make up what the application produced, and that no data
  follow the end; `Upload` says the same of the request, as long as the server and the
  client are on the exchange's connection; `Announced` says that a client knows an exchange
  only from its one request, which precedes its data. `LinksOK` is why a reconnect cannot
  mix them: what is under way to the client belongs to the connection it believes in, and
  nothing is held while it is connected. `Ids` is assumed finite, as a disconnect emits an
  error for every open stream in one step.

`AdminConsoleProofs` (`AdminConsoleAssumption`):

- `TabStaysSound`: at most one answer on its way can change the lists, because clearing or
  replacing a query makes the others stale; it is no older than what is shown.
- `ListsAreNeverOlder` follows.
- `SessionsAreKept` by `SInv`: at most one login is under way, and none while the tab is
  signed in (`OneLogin`), so that its refusal cannot meet a session; and a token that was
  refused is not good, nor will be (`Refusals`), so that no refusal of the stored token is
  under way in a good session. What is left is the refusal of another token or of none,
  which does end a good session (`NoGoodSessionEnds`).
- `AttemptsAreLimited`: by `FailuresInv`, which relates the failures still in the window to
  the entry that counts them. While the entry lives its own failures come last, and the
  first of them is as old as the entry; fewer than a full count of the entry before it
  precede them. An entry that lapses has outlived its first failure and all before it.

Not proved, only checked:

- Liveness, as the prover does not handle fairness: `ReservationEnds`, `ClaimsAnswered`,
  `ShutdownEnds`, `RemovalsTakeEffect`, `ForcedInitYields`, `WritesResume`, `AnswerArrives`,
  `LocalPullStops`, `PhantomsExpire`, `CountsArrive`, `EndsConnected`, `HealthyServerKept`.
- `CountsAddUp` and `RowsAgree` of `Telemetry`: sums over queues of batches, which would
  need induction over sequences; and `BacklogBounded` of `DrainGate`, which counts writers.
- The safety of `ClientLife`.

## 5. Plan

1. Done: every component of section 1 that keeps protocol state has its module and run.
2. Proofs next: the sums of `Telemetry`.
3. Pure functions against a reference: `hostSlot` (32-bit arithmetic), `parseName` against
   `buildHost`.
4. Two nodes in `Telemetry`'s liveness, which is beyond TLC at the present bounds.

## 6. Not modelled

- *Cluster*: GET_CLUSTER_STATE and the counters of the primary (they influence no decision;
  what workers report to them is in `Telemetry`); the connections whose request head is
  still being peeked at, during routing and shutdown (one whose head stalls after its first
  bytes is kept, `cluster.js:470-472`); the moment between the choice of a worker for a
  handshake and the handshake's arrival there (it is one step, so a handshake on its way to
  a fallback worker arrives before the successor is up); forwarded-host headers and explicit
  client ids, which the primary's router does not look at; the throwing case of `DELETE
  /clients/anonymous` (it is in `TunnelServer`). The hash of a host is the constant
  `hostSlot`.
- *Redis claims*: loss of Redis's own data.
- *Identities*: `options.token`, `config token <value>`, servers without a token endpoint,
  and `public_token_registration` switched off.
- *Exchange*: what is inside a body or a header; trailers; an upgrade that is answered
  otherwise than with 101 is not recorded by the code, nor here.
- *Client*: a laptop that sleeps, `keep_connection` = false, the traffic statistics.
- *Console*: rendering, filters, the token form, the theme.
- TLS, HTTP parsing, the local proxies and file server, the command line, the webhook,
  configuration and logging.
