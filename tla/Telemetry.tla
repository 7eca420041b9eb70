------------------------------ MODULE Telemetry ------------------------------
(***************************************************************************)
(* The telemetry of a cluster with Redis (stats.js): every node counts the *)
(* traffic of its tunnels in memory, drains the counts in batches to Redis *)
(* and to the cluster primary, and publishes the tunnels it holds under a  *)
(* key that expires.                                                       *)
(*                                                                         *)
(* One counter stands for the four of a batch, which move together.  Redis *)
(* answers a node's commands in order; while it cannot be reached every    *)
(* command is rejected (disableOfflineQueue), and until a node has reached *)
(* it for the first time it sends none and drops its batches.  A row holds *)
(* the counts of a host or a client; what else a connect writes is left    *)
(* out.  The total in Redis is kept per node that contributed to it.       *)
(***************************************************************************)
EXTENDS Naturals, Sequences, Bags, BagsExt, SequencesExt

CONSTANTS
  Nodes, Hosts, Clients,
  Client,       \* Client[h]: whose tunnel h is
  RequeueLimit, \* REQUEUE_LIMIT
  MaxHits,      \* bound: requests of all hosts
  MaxFaults,    \* bound: outages of Redis and crashes of nodes
  MaxAdmin,     \* bound: purges and reads by the administrator
  MaxConnects   \* bound: connections of tunnels

ASSUME TelemetryAssumption ==
  /\ Client \in [Hosts -> Clients] /\ Hosts \cap Clients = {}
  /\ {RequeueLimit, MaxHits, MaxFaults, MaxAdmin, MaxConnects} \subseteq Nat

VARIABLES
  pend,    \* pend[n]: _pending, the counts not yet flushed
  timer,   \* timer[n]: the flush timer is set
  live,    \* live[n]: the tunnels node n holds (activePrimaryHosts)
  seen,    \* seen[n]: the tunnels whose traffic node n may still record
  wire,    \* wire[n]: commands of n that Redis has not answered
  up, on,  \* Redis can be reached; the nodes that run
  wired,   \* the nodes that have a Redis client (setRedisClient)
  row,     \* row: the counters of the hosts and clients that have one in Redis
  total,   \* total[n]: what n has added to the global counter
  beat,    \* beat[n]: the tunnels under n's key, None without one
  primary, \* primary[n]: what n has reported to the primary
  hits, lost, twice, \* counted by n; dropped unflushed; applied but rejected
  faults, admin, connects

redis == <<row, total, beat>>
ghosts == <<hits, lost, twice>>
bounds == <<faults, admin, connects>>
vars == <<pend, timer, live, seen, wire, up, on, wired, redis, primary, ghosts, bounds>>

None == {"no key"}
Rows == UNION {[S -> 1..(MaxHits * (1 + MaxFaults))] : S \in SUBSET (Hosts \cup Clients)}
Batch == [all : 0..(MaxHits * (1 + MaxFaults)), rows : Rows]
Empty == [all |-> 0, rows |-> EmptyBag]
OneHit(h) == [all |-> 1, rows |-> SetToBag({h, Client[h]})]

Merged(b, c) == [all |-> b.all + c.all, rows |-> b.rows (+) c.rows]
Dropping(rows, k) == Restrict(rows, DOMAIN rows \ {k})
Of(rows, S) == SumFunctionOnSet(rows, DOMAIN rows \cap S)

\* own: what a read has to find in Redis of its node's counts.
Command(kind, key, batch, own) == [kind |-> kind, key |-> key, batch |-> batch, own |-> own]

InFlight(n) == FoldSeq(LAMBDA c, b : Merged(c.batch, b), Empty, wire[n])

TypeOK ==
  /\ pend \in [Nodes -> Batch] /\ timer \in [Nodes -> BOOLEAN]
  /\ live \in [Nodes -> SUBSET Hosts] /\ seen \in [Nodes -> SUBSET Hosts]
  /\ \A n \in Nodes : \A i \in 1..Len(wire[n]) :
       wire[n][i].kind = "flush" <=> wire[n][i].batch.rows # EmptyBag
  /\ up \in BOOLEAN /\ on \subseteq Nodes /\ wired \subseteq Nodes /\ row \in Rows
  /\ \A n \in Nodes : beat[n] \subseteq Hosts \/ beat[n] = None
  /\ {total, primary, hits, lost, twice} \subseteq [Nodes -> Nat]

Init ==
  /\ pend = [n \in Nodes |-> Empty] /\ timer = [n \in Nodes |-> FALSE]
  /\ live = [n \in Nodes |-> {}] /\ seen = [n \in Nodes |-> {}]
  /\ wire = [n \in Nodes |-> <<>>] /\ up = TRUE /\ on = Nodes /\ wired = {}
  /\ row = EmptyBag /\ total = [n \in Nodes |-> 0]
  /\ beat = [n \in Nodes |-> None] /\ primary = [n \in Nodes |-> 0]
  /\ hits = [n \in Nodes |-> 0] /\ lost = [n \in Nodes |-> 0] /\ twice = [n \in Nodes |-> 0]
  /\ faults = 0 /\ admin = 0 /\ connects = 0

-----------------------------------------------------------------------------
\* Mutated form: a flush leaves the counts it sent in the buffer.
AfterFlushKept(n) == pend[n]

\* flush() swaps the buffer for a new one, unless it holds no row.
AfterFlush(n) == IF pend[n].rows = EmptyBag THEN pend[n] ELSE Empty

Flush(n) == IF pend[n].rows = EmptyBag \/ n \notin wired THEN <<>>
            ELSE <<Command("flush", "", pend[n], 0)>>

\* Without a client the new buffer is in place and the old one goes nowhere.
Unsent(n) == IF pend[n].rows = EmptyBag \/ n \in wired THEN 0 ELSE pend[n].all

\* RECORD_STATS: the primary adds up the rows of the hosts.
Reported(n) == Of(pend[n].rows, Hosts)

\* Bound: beyond one more than all requests the primary's sum is not told apart.
Capped(i) == IF i > MaxHits THEN MaxHits + 1 ELSE i

\* flush() and the command its caller sends next.
FlushThen(n, commands) ==
  /\ lost' = [lost EXCEPT ![n] = @ + Unsent(n)]
  /\ wire' = [wire EXCEPT ![n] = @ \o Flush(n) \o commands]
  /\ primary' = [primary EXCEPT ![n] = Capped(@ + Reported(n))]
  /\ pend' = [pend EXCEPT ![n] = AfterFlush(n)]

\* Rejections are immediate: the node does nothing else until it has seen them.
Settled(n) == n \in on /\ (up \/ wire[n] = <<>>)

\* recordHttp, recordWs, recordTraffic: counts of a tunnel that may have gone.
Hit(n, h) ==
  /\ Settled(n) /\ h \in seen[n] /\ SumFunction(hits) < MaxHits
  /\ pend' = [pend EXCEPT ![n] = Merged(@, OneHit(h))]
  /\ timer' = [timer EXCEPT ![n] = TRUE]
  /\ hits' = [hits EXCEPT ![n] = @ + 1]
  /\ UNCHANGED <<live, seen, wire, up, on, wired, redis, primary, lost, twice, bounds>>

TimerFires(n) ==
  /\ Settled(n) /\ timer[n]
  /\ timer' = [timer EXCEPT ![n] = FALSE]
  /\ FlushThen(n, <<>>)
  /\ UNCHANGED <<live, seen, up, on, wired, redis, hits, twice, bounds>>

\* onReady: Redis is reached for the first time.
Wire(n) ==
  /\ n \in on \ wired /\ up
  /\ wired' = wired \cup {n}
  /\ UNCHANGED <<pend, timer, live, seen, wire, up, on, redis, primary, ghosts, bounds>>

\* recordConnect, for a tunnel that no node holds.
Connect(n, h) ==
  /\ Settled(n) /\ h \notin UNION {live[m] : m \in Nodes}
  /\ connects < MaxConnects /\ connects' = connects + 1
  /\ live' = [live EXCEPT ![n] = @ \cup {h}] /\ seen' = [seen EXCEPT ![n] = @ \cup {h}]
  /\ UNCHANGED <<pend, timer, wire, up, on, wired, redis, primary, ghosts, faults, admin>>

\* recordDisconnect: flushed first, "so counters for this host are not lost"; both
\* only with a Redis client.
Disconnect(n, h) ==
  /\ Settled(n) /\ h \in live[n]
  /\ live' = [live EXCEPT ![n] = @ \ {h}]
  /\ IF n \in wired THEN FlushThen(n, <<Command("delete", h, Empty, 0)>>)
     ELSE UNCHANGED <<pend, wire, primary, lost>>
  /\ UNCHANGED <<timer, seen, up, on, wired, redis, hits, twice, bounds>>

\* forgetHost, forgetClient: the buffered row goes at once, Redis' with the command.
Forget(n, k) ==
  /\ Settled(n) /\ admin < MaxAdmin /\ admin' = admin + 1
  /\ pend' = [pend EXCEPT ![n].rows = Dropping(@, k)]
  /\ wire' = [wire EXCEPT ![n] = IF n \in wired THEN Append(@, Command("delete", k, Empty, 0)) ELSE @]
  /\ UNCHANGED <<timer, live, seen, up, on, wired, redis, primary, ghosts, faults, connects>>

\* getClients, getGlobalStats; without a client they answer from memory.
Read(n) ==
  /\ Settled(n) /\ n \in wired /\ admin < MaxAdmin /\ admin' = admin + 1
  /\ FlushThen(n, <<Command("read", "", Empty, hits[n] - lost[n] - AfterFlush(n).all)>>)
  /\ UNCHANGED <<timer, live, seen, up, on, wired, redis, hits, twice, faults, connects>>

\* _publishNode, with a client: at once, after a connect or disconnect, on its timer.  A refresh that
\* changes nothing is not a step; one that is rejected is made up by the next.
Beats(n) ==
  /\ n \in on \cap wired /\ up /\ beat[n] # live[n]
  /\ beat' = [beat EXCEPT ![n] = live[n]]
  /\ UNCHANGED <<pend, timer, live, seen, wire, up, on, wired, row, total, primary, ghosts, bounds>>

-----------------------------------------------------------------------------
\* EXEC, GET and DEL at Redis, which runs each as a whole.
Redis(n, c) ==
  /\ row' = CASE c.kind = "flush" -> row (+) c.batch.rows
              [] c.kind = "delete" -> Dropping(row, c.key)
              [] OTHER -> row
  /\ total' = [total EXCEPT ![n] = @ + c.batch.all]
  /\ UNCHANGED beat

Answer(n) ==
  /\ up /\ wire[n] # <<>>
  /\ Redis(n, Head(wire[n]))
  /\ wire' = [wire EXCEPT ![n] = Tail(@)]
  /\ UNCHANGED <<pend, timer, live, seen, up, on, wired, primary, ghosts, bounds>>

\* _requeue drops the batch when what came in since is over the limit.
Full(n) == Cardinality(DOMAIN pend[n].rows) > RequeueLimit

\* Mutated form: the clients' rows are not put back.
RequeuedHosts(n, b) ==
  IF Full(n) THEN pend[n]
  ELSE Merged(pend[n], [b EXCEPT !.rows = Restrict(@, DOMAIN @ \cap Hosts)])

Requeued(n, b) == IF Full(n) THEN pend[n] ELSE Merged(pend[n], b)

\* Mutated form: a requeued batch waits for the next request.
RescheduledNot(n) == timer[n]
Rescheduled(n) == timer[n] \/ ~Full(n)

\* The next command is rejected; a batch is put back.
Rejected(n) ==
  /\ ~up /\ wire[n] # <<>>
  /\ LET c == Head(wire[n]) IN
       IF c.kind = "flush"
         THEN /\ pend' = [pend EXCEPT ![n] = Requeued(n, c.batch)]
              /\ timer' = [timer EXCEPT ![n] = Rescheduled(n)]
              /\ lost' = [lost EXCEPT ![n] = IF Full(n) THEN @ + c.batch.all ELSE @]
         ELSE UNCHANGED <<pend, timer, lost>>
  /\ wire' = [wire EXCEPT ![n] = Tail(@)]
  /\ UNCHANGED <<live, seen, up, on, wired, redis, primary, hits, twice, bounds>>

Outage ==
  /\ up /\ up' = FALSE /\ faults < MaxFaults /\ faults' = faults + 1
  /\ UNCHANGED <<pend, timer, live, seen, wire, on, wired, redis, primary, ghosts, admin, connects>>

\* The connection is lost after Redis ran a command and before it answered.
OutageAfter(n) ==
  /\ up /\ up' = FALSE /\ faults < MaxFaults /\ faults' = faults + 1
  /\ wire[n] # <<>>
  /\ Redis(n, Head(wire[n]))
  /\ twice' = [twice EXCEPT ![n] = @ + Head(wire[n]).batch.all]
  /\ UNCHANGED <<pend, timer, live, seen, wire, on, wired, primary, hits, lost, admin, connects>>

\* No rejection is outstanding when Redis is back.
Recover ==
  /\ ~up /\ \A n \in Nodes : wire[n] = <<>>
  /\ up' = TRUE
  /\ UNCHANGED <<pend, timer, live, seen, wire, on, wired, redis, primary, ghosts, bounds>>

\* A node dies with what it had not flushed; its key stays for a while.
Crash(n) ==
  /\ n \in on /\ faults < MaxFaults /\ faults' = faults + 1
  /\ on' = on \ {n} /\ wire' = [wire EXCEPT ![n] = <<>>]
  /\ pend' = [pend EXCEPT ![n] = Empty] /\ timer' = [timer EXCEPT ![n] = FALSE]
  /\ live' = [live EXCEPT ![n] = {}] /\ seen' = [seen EXCEPT ![n] = {}]
  /\ lost' = [lost EXCEPT ![n] = @ + pend[n].all + InFlight(n).all]
  /\ UNCHANGED <<up, wired, redis, primary, hits, twice, admin, connects>>

\* Mutated form: the key has no time to live.
LapsesNever(n) == FALSE

\* NODE_TTL_MS passes without a refresh.
Lapses(n) == beat[n] # None /\ (n \notin on \/ ~up)

Expire(n) ==
  /\ Lapses(n)
  /\ beat' = [beat EXCEPT ![n] = None]
  /\ UNCHANGED <<pend, timer, live, seen, wire, up, on, wired, row, total, primary, ghosts, bounds>>

NodeStep(n) == TimerFires(n) \/ Beats(n) \/ Answer(n) \/ Rejected(n) \/ Expire(n)

Next ==
  \/ \E n \in Nodes :
       \/ NodeStep(n) \/ Wire(n) \/ Read(n) \/ OutageAfter(n) \/ Crash(n)
       \/ \E h \in Hosts : Hit(n, h) \/ Connect(n, h) \/ Disconnect(n, h)
       \/ \E k \in Hosts \cup Clients : Forget(n, k)
  \/ Outage \/ Recover

\* Timers fire, commands are answered or rejected, keys expire; Redis comes back
\* although commands are tried and rejected meanwhile (SF).
Spec == /\ Init /\ [][Next]_vars /\ SF_vars(Recover)
        /\ \A n \in Nodes : /\ WF_vars(TimerFires(n)) /\ WF_vars(Beats(n)) /\ WF_vars(Expire(n))
                            /\ WF_vars(Answer(n) \/ Rejected(n))

-----------------------------------------------------------------------------
\* stats.js:200-204: a request is counted once.  What Redis holds of a node, what
\* is buffered and what is in flight add up to what the node counted, but for
\* batches dropped at the limit, flushed before the node had a Redis client or lost
\* with the process, and those applied and yet rejected.
CountsAddUp ==
  \A n \in Nodes : total[n] + pend[n].all + InFlight(n).all + lost[n] = hits[n] + twice[n]

\* stats.js:168-191: a batch reaches Redis whole.  Until something is purged, the
\* clients' rows add up to the global counter.
RowsAgree == admin = 0 => Of(row, Clients) = SumFunction(total)

\* Buffered rows are never left without a timer to flush them, whatever became of
\* the batch before them.
BufferIsScheduled == \A n \in Nodes : pend[n].rows # EmptyBag => timer[n]

\* The primary is told of every count, also while Redis cannot be reached.
PrimaryIsTold ==
  \A n \in on : admin = 0 => primary[n] + Of(pend[n].rows, Hosts) >= hits[n]

\* stats.js:450 "Make this worker's buffered deltas visible before reading
\* back": an answered read finds all its node counted before, the requeued included.
ReadSeesOwn ==
  [][\A n \in Nodes : Answer(n) /\ Head(wire[n]).kind = "read" => total[n] >= Head(wire[n]).own]_vars

\* stats.js:84-90: a tunnel that no running node holds does not stay among the
\* active ones: the node publishes again, or its key expires.
PhantomsExpire ==
  \A n \in Nodes, h \in Hosts : h \in beat[n] /\ h \notin live[n] ~> h \notin beat[n] \/ h \in live[n]

\* stats.js:202 "a Redis blip costs no counters": what a node that stays up has
\* counted reaches Redis, unless it was dropped at the limit, flushed before the node
\* had a Redis client, or its rows purged.
CountsArrive ==
  \A n \in Nodes :
    hits[n] > total[n] + lost[n]
      ~> \/ hits[n] <= total[n] + lost[n] \/ n \notin on
         \/ admin > 0 /\ pend[n].rows = EmptyBag /\ wire[n] = <<>>

\* stats.js:16 "Cap on how much unflushed telemetry is kept while Redis is unreachable":
\* below the cap a node that stays up drops nothing.
KeptUpToLimit == [][\A n \in on : lost'[n] > lost[n] => n \notin on' \/ Full(n)]_vars

\* stats.js:9-11 "Redis writes and cluster IPC happen once per window": the primary
\* adds up what its workers counted, not more.
PrimaryCountsOnce == \A n \in Nodes : primary[n] <= hits[n]
=============================================================================
