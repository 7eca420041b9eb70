---------------------------- MODULE PrimaryTables ----------------------------
(***************************************************************************)
(* The tables of the cluster primary (cluster.js:39-99) as a record p, and *)
(* what each message of a worker does to them:                             *)
(*    hostToWorker  key -> the worker its visitors are handed to           *)
(*    workerHosts   worker -> the keys it registered; None once it exited  *)
(*    sockets       clusterSockets: dialled host -> socket id              *)
(*    activeHosts   client label -> the activeHosts of its entry           *)
(*    claims        the cluster's one ClaimRegistry                        *)
(*    workerClaims  worker -> the names granted through it                 *)
(* Counters and timestamps are left out.                                   *)
(***************************************************************************)
EXTENDS TunnelTables

CONSTANT Workers   \* worker processes, each forked once

PrimaryRecord ==
  [hostToWorker : [Keys -> Workers \cup {None}],
   workerHosts : [Workers -> SUBSET Keys \cup {None}],
   sockets : [Keys -> Sockets \cup {None}],
   activeHosts : [Labels -> SUBSET Keys],
   claims : ClaimTable,
   workerClaims : [Workers -> SUBSET Names]]

\* The primary has just forked the workers in W.
FreshPrimary(W) ==
  [hostToWorker |-> [k \in Keys |-> None],
   workerHosts |-> [w \in Workers |-> IF w \in W THEN {} ELSE None],
   sockets |-> [k \in Keys |-> None],
   activeHosts |-> [l \in Labels |-> {}],
   claims |-> NoClaims,
   workerClaims |-> [w \in Workers |-> {}]]

-----------------------------------------------------------------------------
\* workerHosts.get(w)?.add / .delete
Noted(p, w, A) ==
  [p.workerHosts EXCEPT ![w] = IF @ = None THEN None ELSE @ \cup A]

Unnoted(p, w, A) ==
  [p.workerHosts EXCEPT ![w] = IF @ = None THEN None ELSE @ \ A]

\* The host k leaves the activeHosts of every client.
Inactive(p, K) == [l \in Labels |-> p.activeHosts[l] \ K]

\* REGISTER_HOST: socket s, of handshake h granted G, connected to w.
Register(p, w, s, h, G) ==
  LET A == Aliases(h, G) IN
  [p EXCEPT
     !.hostToWorker = [k \in Keys |-> IF k \in A THEN w ELSE @[k]],
     !.workerHosts = Noted(p, w, A),
     !.sockets = [@ EXCEPT ![h.host] = s],
     !.activeHosts[h.label] = @ \cup {h.host}]

\* UNREGISTER_HOST of host k with aliases A by w; s is None when the message
\* names no socket.  A newer socket of the host makes the message stale.
IsCurrentSocket(p, k, s) == s = None \/ p.sockets[k] \in {None, s}

Unregister(p, w, k, A, s) ==
  IF ~IsCurrentSocket(p, k, s) THEN p
  ELSE [p EXCEPT
          !.hostToWorker = [j \in Keys |->
             IF j \in A \cup {k} /\ @[j] = w THEN None ELSE @[j]],
          !.workerHosts = Unnoted(p, w, A \cup {k}),
          !.sockets = [@ EXCEPT ![k] = None],
          !.activeHosts = Inactive(p, {k})]

\* CLAIM_HOSTS: the names S for socket s of owner c are granted.
ClaimHosts(p, w, S, c, s) ==
  [p EXCEPT !.claims = AfterClaim(p.claims, S, c, s),
            !.workerClaims[w] = @ \cup S]

\* RELEASE_HOSTS: the names of a socket that closed.
ReleaseHosts(p, w, G, s) ==
  [p EXCEPT !.claims = AfterRelease(p.claims, G, s),
            !.workerClaims[w] = @ \ G]

\* FORGET_HOST, FORGET_CLIENT, FORGET_NAME: the administrator's purges.
ForgetHost(p, k) ==
  [p EXCEPT !.sockets = [@ EXCEPT ![k] = None],
            !.activeHosts = Inactive(p, {k})]

ForgetClientEntry(p, l) ==
  [p EXCEPT !.sockets = [k \in Keys |-> IF k \in p.activeHosts[l] THEN None ELSE @[k]],
            !.activeHosts = [@ EXCEPT ![l] = {}],
            !.claims = AfterReleaseOwner(p.claims, l)]

ForgetName(p, n) == [p EXCEPT !.claims = AfterDeleteName(p.claims, n)]

\* The tunnels DISCONNECT_SOCKET_CLUSTER and DISCONNECT_CLIENT_CLUSTER forget
\* before they ask the workers in hostToWorker to disconnect them.
Forgotten(p, K) ==
  [p EXCEPT !.sockets = [k \in Keys |-> IF k \in K THEN None ELSE @[k]]]

HostsOfClient(p, hs, l) ==
  {k \in Keys : p.sockets[k] # None /\ hs[p.sockets[k]].label = l}

\* Mutated form: the primary forgets nothing.
MineNone(p, w) == {}

\* A worker exited: its keys that nobody re-registered and the names granted
\* through it are freed.  release() is called without a socket id here.
Mine(p, w) == {k \in p.workerHosts[w] : p.hostToWorker[k] = w}

WorkerExited(p, w) ==
  LET K == Mine(p, w) IN
  [hostToWorker |-> [k \in Keys |-> IF k \in K THEN None ELSE p.hostToWorker[k]],
   workerHosts |-> [p.workerHosts EXCEPT ![w] = None],
   sockets |-> [k \in Keys |-> IF k \in K THEN None ELSE p.sockets[k]],
   activeHosts |-> Inactive(p, K),
   claims |-> AfterRelease(p.claims, p.workerClaims[w], None),
   workerClaims |-> [p.workerClaims EXCEPT ![w] = {}]]
=============================================================================
