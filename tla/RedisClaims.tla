----------------------------- MODULE RedisClaims -----------------------------
(***************************************************************************)
(* The name claims of several server nodes in one Redis                    *)
(* (RedisClaimRegistry), with the fall back to each node's own             *)
(* ClaimRegistry.  A claim and a release are short programs of commands    *)
(* with an await after each; every command is one action here, so the      *)
(* programs of several connections interleave at every await.  Redis       *)
(* itself is external: keys, SET NX, GET, SET, PERSIST, PEXPIRE and DEL    *)
(* are modelled by their effect, and a lease is a flag that says the key   *)
(* has a time to live and may expire at any moment.                        *)
(***************************************************************************)
EXTENDS NameClaims, Sequences, FiniteSets

CONSTANTS
  Nodes,        \* server processes
  NodeOf,       \* NodeOf[s]: the node connection s reaches
  Handshakes,   \* Handshakes[s]: the claim owner and the names, in order, s may come with
  MaxFaults     \* bound: failed commands, timed-out claims, crashes and removals

ASSUME RedisClaimsAssumption ==
  /\ NodeOf \in [Sockets -> Nodes]
  /\ Handshakes \in [Sockets -> SUBSET [owner : Owners, names : Seq(Names)]]
  /\ \A s \in Sockets : \A h \in Handshakes[s] : h # None /\ h.names # <<>>
  /\ None \notin [owner : Owners, lease : BOOLEAN]
  /\ MaxFaults \in Nat

VARIABLES
  store,        \* store[n]: the key hlt:claim:<n>, its owner and whether it has a TTL
  wired,        \* wired[m]: node m has reached Redis once (redisClaims # null)
  local,        \* local[m]: localClaims of node m
  hs,           \* hs[s]: the handshake of s, or None before it
  phase,        \* phase[s]: where the handshake or connection of s stands
  claim,        \* claim[s]: the claim program of s, the next command and its name
  release,      \* release[s]: the release program of s
  purge,        \* the keys an administrator's releaseOwner has read and will delete
  faults,       \* faults so far
  disturbed,    \* history: names a command hit after what it relied on had changed
  orphaned      \* history: names whose holder ended without a release reaching Redis

vars == <<store, wired, local, hs, phase, claim, release, purge, faults,
          disturbed, orphaned>>

Idle == [at |-> "idle", i |-> 1, saw |-> None]
NoPurge == [at |-> "idle", names |-> {}]

TypeOK ==
  /\ store \in [Names -> [owner : Owners, lease : BOOLEAN] \cup {None}]
  /\ wired \in [Nodes -> BOOLEAN]
  /\ local \in [Nodes -> ClaimTable]
  /\ \A s \in Sockets : hs[s] \in Handshakes[s] \cup {None}
  /\ phase \in [Sockets -> {"new", "claiming", "open", "gone"}]
  /\ claim \in [Sockets -> [at : {"idle", "setnx", "get", "set", "persist", "done"},
                         i : Nat, saw : Owners \cup {None}]]
  /\ release \in [Sockets -> [at : {"idle", "get", "del", "expire"}, i : Nat,
                           saw : Owners \cup {None}]]
  /\ purge \in [at : {"idle", "del"}, names : SUBSET Names]
  /\ faults \in 0..MaxFaults
  /\ disturbed \subseteq Names
  /\ orphaned \subseteq Names

Init ==
  /\ store = [n \in Names |-> None]
  /\ wired = [m \in Nodes |-> FALSE]
  /\ local = [m \in Nodes |-> NoClaims]
  /\ hs = [s \in Sockets |-> None]
  /\ phase = [s \in Sockets |-> "new"]
  /\ claim = [s \in Sockets |-> Idle]
  /\ release = [s \in Sockets |-> Idle]
  /\ purge = NoPurge
  /\ faults = 0
  /\ disturbed = {}
  /\ orphaned = {}

-----------------------------------------------------------------------------
Running(program) == program.at \notin {"idle", "done"}
Connections == {s \in Sockets : hs[s] # None}
OwnerOf(s) == hs[s].owner
FirstNames(s, k) == {hs[s].names[i] : i \in 1..k}
NamesOf(s) == FirstNames(s, Len(hs[s].names))
ClaimName(s) == hs[s].names[claim[s].i]
ReleaseName(s) == hs[s].names[release[s].i]
Durable(o) == ~isEphemeralOwner(o)
Held(n) == IF store[n] = None THEN None ELSE store[n].owner
HeldBy(n, o) == Held(n) = o
Fault == faults < MaxFaults /\ faults' = faults + 1

\* Connections that rely on Redis holding n for them: their claim program has
\* run to its end.
Holders(n) == {s \in Connections : phase[s] = "open" /\ n \in NamesOf(s)
                                 /\ claim[s].at = "done"}

\* claimLocally, for a connection that is still waiting for its answer.
ClaimLocally(s, h) ==
  LET cl == local[NodeOf[s]]
      S == {h.names[i] : i \in DOMAIN h.names}
  IN
  IF CanClaim(cl, S, h.owner)
    THEN /\ local' = [local EXCEPT ![NodeOf[s]] = AfterClaim(cl, S, h.owner, s)]
         /\ phase' = [phase EXCEPT ![s] = "open"]
    ELSE /\ phase' = [phase EXCEPT ![s] = "gone"]
         /\ UNCHANGED local

\* The handshake of s reaches claimNames: Redis first, if it was ever reached.
Start(s, h) ==
  /\ phase[s] = "new"
  /\ hs' = [hs EXCEPT ![s] = h]
  /\ IF wired[NodeOf[s]]
       THEN /\ phase' = [phase EXCEPT ![s] = "claiming"]
            /\ claim' = [claim EXCEPT ![s].at = "setnx"]
            /\ UNCHANGED local
       ELSE ClaimLocally(s, h) /\ UNCHANGED claim
  /\ UNCHANGED <<store, wired, release, purge, faults, disturbed, orphaned>>

\* onReady: from here on the node claims in Redis.
Wire(m) ==
  /\ ~wired[m]
  /\ wired' = [wired EXCEPT ![m] = TRUE]
  /\ UNCHANGED <<hs, store, local, phase, claim, release, purge, faults,
                 disturbed, orphaned>>

\* Nobody is left to release what the claim of s holds: the connection is
\* not coming, or not for these names.
Abandons(s, S) ==
  orphaned' = orphaned \cup {n \in S : HeldBy(n, OwnerOf(s))}

ClaimRest == <<wired, local, hs, release, purge, faults>>

\* SET key owner NX.
SetNX(s) ==
  LET n == ClaimName(s) IN
  /\ claim[s].at = "setnx"
  /\ IF store[n] = None
       THEN /\ store' = [store EXCEPT ![n] = [owner |-> OwnerOf(s), lease |-> FALSE]]
            /\ claim' = [claim EXCEPT ![s].at = "persist"]
       ELSE /\ claim' = [claim EXCEPT ![s].at = "get"]
            /\ UNCHANGED store
  /\ UNCHANGED <<phase, disturbed, orphaned, ClaimRest>>

\* Mutated form: any other owner's key is taken over.
GetHeldByAnyone(s) ==
  LET n == ClaimName(s) IN
  /\ claim[s].at = "get"
  /\ IF Held(n) \in {None, OwnerOf(s)}
       THEN claim' = [claim EXCEPT ![s].at = "persist"]
       ELSE claim' = [claim EXCEPT ![s].at = "set", ![s].saw = Held(n)]
  /\ UNCHANGED <<store, phase, disturbed, orphaned, ClaimRest>>

\* GET key: refused when a durable client has it, taken over when an
\* ephemeral owner does.  A refused claim keeps the names it already has.
GetHeld(s) ==
  LET n == ClaimName(s) IN
  /\ claim[s].at = "get"
  /\ IF Held(n) \in {None, OwnerOf(s)}
       THEN /\ claim' = [claim EXCEPT ![s].at = "persist"]
            /\ UNCHANGED <<phase, orphaned>>
     ELSE IF isEphemeralOwner(Held(n))
       THEN /\ claim' = [claim EXCEPT ![s].at = "set", ![s].saw = Held(n)]
            /\ UNCHANGED <<phase, orphaned>>
     ELSE /\ claim' = [claim EXCEPT ![s] = Idle]
          /\ phase' = IF phase[s] = "claiming" THEN [phase EXCEPT ![s] = "gone"] ELSE phase
          /\ Abandons(s, FirstNames(s, claim[s].i - 1))
  /\ UNCHANGED <<store, disturbed, ClaimRest>>

\* SET key owner: the takeover, of whatever the key holds by now.
SetOwner(s) ==
  LET n == ClaimName(s) IN
  /\ claim[s].at = "set"
  /\ store' = [store EXCEPT ![n] = [owner |-> OwnerOf(s), lease |-> FALSE]]
  /\ claim' = [claim EXCEPT ![s].at = "persist", ![s].saw = None]
  /\ disturbed' = IF HeldBy(n, claim[s].saw) THEN disturbed ELSE disturbed \cup {n}
  /\ UNCHANGED <<phase, orphaned, ClaimRest>>

\* Mutated form: the TTL of a name the owner reconnects to is left running.
PersistNothing(s) == UNCHANGED store

\* PERSIST key, on whatever the key holds by now.
PersistKey(s) ==
  LET n == ClaimName(s) IN
  store' = IF store[n] = None THEN store ELSE [store EXCEPT ![n].lease = FALSE]

\* The command after which the name counts as granted; after the last one the
\* handshake goes on, unless it has been answered or has gone away meanwhile.
Persist(s) ==
  LET n == ClaimName(s)
      last == claim[s].i = Len(hs[s].names)
  IN
  /\ claim[s].at = "persist"
  /\ PersistKey(s)
  /\ disturbed' = IF HeldBy(n, OwnerOf(s)) THEN disturbed ELSE disturbed \cup {n}
  /\ claim' = [claim EXCEPT ![s] = IF ~last THEN [Idle EXCEPT !.at = "setnx", !.i = claim[s].i + 1]
                                   ELSE IF phase[s] = "gone" THEN Idle
                                   ELSE [Idle EXCEPT !.at = "done"]]
  /\ phase' = IF last /\ phase[s] = "claiming" THEN [phase EXCEPT ![s] = "open"] ELSE phase
  /\ IF last /\ phase[s] = "gone"
       THEN Abandons(s, NamesOf(s)) ELSE UNCHANGED orphaned
  /\ UNCHANGED ClaimRest

\* A command of the claim rejects, applied or not: {unavailable} sends a
\* waiting handshake to the local registry.
ClaimFails(s) ==
  LET n == ClaimName(s) IN
  /\ Running(claim[s])
  /\ Fault
  /\ \/ UNCHANGED store
     \/ /\ claim[s].at = "set" \/ (claim[s].at = "setnx" /\ store[n] = None)
        /\ store' = [store EXCEPT ![n] = [owner |-> OwnerOf(s), lease |-> FALSE]]
  /\ disturbed' = IF store' = store \/ store[n] = None \/ HeldBy(n, claim[s].saw)
                    THEN disturbed ELSE disturbed \cup {n}
  /\ claim' = [claim EXCEPT ![s] = Idle]
  /\ orphaned' = orphaned \cup {m \in NamesOf(s) : store'[m] # None}
  /\ IF phase[s] = "claiming" THEN ClaimLocally(s, hs[s])
     ELSE UNCHANGED <<phase, local>>
  /\ UNCHANGED <<hs, wired, release, purge>>

\* CLAIM_TIMEOUT_MS passes first; the claim program runs on by itself.
ClaimTimesOut(s) ==
  /\ phase[s] = "claiming"
  /\ Fault
  /\ ClaimLocally(s, hs[s])
  /\ UNCHANGED <<hs, store, wired, claim, release, purge, disturbed, orphaned>>

\* The client goes away during the handshake; next() is then a no-op.
Leave(s) ==
  /\ phase[s] = "claiming"
  /\ phase' = [phase EXCEPT ![s] = "gone"]
  /\ UNCHANGED <<hs, store, wired, local, claim, release, purge, faults,
                 disturbed, orphaned>>

-----------------------------------------------------------------------------
\* onDisconnect: releaseNames goes to Redis once the node is wired, whoever
\* granted the names.
Close(s) ==
  /\ phase[s] = "open"
  /\ phase' = [phase EXCEPT ![s] = "gone"]
  /\ IF wired[NodeOf[s]]
       THEN release' = [release EXCEPT ![s].at = "get"] /\ UNCHANGED local
       ELSE /\ local' = [local EXCEPT ![NodeOf[s]] = AfterRelease(@, NamesOf(s), s)]
            /\ UNCHANGED release
  /\ claim' = IF Running(claim[s]) THEN claim ELSE [claim EXCEPT ![s] = Idle]
  /\ orphaned' = IF Running(claim[s]) THEN orphaned \cup NamesOf(s) ELSE orphaned
  /\ UNCHANGED <<hs, store, wired, purge, faults, disturbed>>

ReleaseRest == <<wired, local, hs, phase, claim, purge>>

\* Mutated form: the loop ends with its first name.
AfterFirstRelease(s) == [release EXCEPT ![s] = Idle]

AfterReleaseStep(s) ==
  IF release[s].i < Len(hs[s].names)
    THEN [release EXCEPT ![s] = [Idle EXCEPT !.at = "get", !.i = release[s].i + 1]]
    ELSE [release EXCEPT ![s] = Idle]

\* GET key of the release: what is held decides between DEL and PEXPIRE; who
\* holds it is not looked at.
ReleaseGet(s) ==
  LET n == ReleaseName(s) IN
  /\ release[s].at = "get"
  /\ release' = [release EXCEPT ![s].saw = Held(n), ![s].at =
       IF claim_ttl <= 0 \/ Held(n) = None \/ isEphemeralOwner(Held(n)) THEN "del" ELSE "expire"]
  /\ UNCHANGED <<store, faults, disturbed, orphaned, ReleaseRest>>

\* The name is somebody's by now: another connection holds it or is claiming it.
InUse(n, s) ==
  \E r \in Connections \ {s} :
    /\ n \in NamesOf(r)
    /\ r \in Holders(n) \/ Running(claim[r])
    /\ HeldBy(n, OwnerOf(r))

\* DEL key or PEXPIRE key ttl.
ReleaseKey(s) ==
  LET n == ReleaseName(s) IN
  /\ release[s].at \in {"del", "expire"}
  /\ store' = IF release[s].at = "del" THEN [store EXCEPT ![n] = None]
              ELSE IF store[n] = None THEN store
              ELSE [store EXCEPT ![n].lease = TRUE]
  /\ disturbed' =
       IF InUse(n, s) \/ ~HeldBy(n, release[s].saw) THEN disturbed \cup {n} ELSE disturbed
  /\ release' = AfterReleaseStep(s)
  /\ UNCHANGED <<faults, orphaned, ReleaseRest>>

\* A command of the release rejects: the loop goes on with the next name.
ReleaseFails(s) ==
  /\ release[s].at # "idle"
  /\ Fault
  /\ release' = AfterReleaseStep(s)
  /\ orphaned' = orphaned \cup {ReleaseName(s)}
  /\ UNCHANGED <<store, disturbed, ReleaseRest>>

-----------------------------------------------------------------------------
\* A key with a time to live runs out.
Expire(n) ==
  /\ IF store[n] = None THEN FALSE ELSE store[n].lease
  /\ store' = [store EXCEPT ![n] = None]
  /\ UNCHANGED <<hs, wired, local, phase, claim, release, purge, faults,
                 disturbed, orphaned>>

\* deleteName, for DELETE /admin/api/sockets/:host.
DeleteName(n) ==
  /\ Fault
  /\ store' = [store EXCEPT ![n] = None]
  /\ disturbed' = disturbed \cup {n}
  /\ UNCHANGED <<hs, wired, local, phase, claim, release, purge, orphaned>>

\* releaseOwner, for DELETE /admin/api/clients/:clientId: SCAN and MGET find
\* the owner's keys ...
FindOwned(o) ==
  /\ purge.at = "idle"
  /\ Fault
  /\ purge' = [at |-> "del", names |-> {n \in Names : HeldBy(n, o)}]
  /\ UNCHANGED <<hs, store, wired, local, phase, claim, release, disturbed, orphaned>>

\* ... and DEL deletes them, whoever holds them by then.
DeleteOwned ==
  /\ purge.at = "del"
  /\ store' = [n \in Names |-> IF n \in purge.names THEN None ELSE store[n]]
  /\ disturbed' = disturbed \cup purge.names
  /\ purge' = NoPurge
  /\ UNCHANGED <<hs, wired, local, phase, claim, release, faults, orphaned>>

\* A node dies with its connections, and starts again.
Crash(m) ==
  LET dying == {s \in Connections : NodeOf[s] = m} IN
  /\ Fault
  /\ phase' = [s \in Sockets |-> IF s \in dying THEN "gone" ELSE phase[s]]
  /\ claim' = [s \in Sockets |-> IF s \in dying THEN Idle ELSE claim[s]]
  /\ release' = [s \in Sockets |-> IF s \in dying THEN Idle ELSE release[s]]
  /\ orphaned' = orphaned \cup UNION {NamesOf(s) : s \in dying}
  /\ local' = [local EXCEPT ![m] = NoClaims]
  /\ wired' = [wired EXCEPT ![m] = FALSE]
  /\ UNCHANGED <<hs, store, purge, disturbed>>

ClaimStep(s) == SetNX(s) \/ GetHeld(s) \/ SetOwner(s) \/ Persist(s)

Next ==
  \/ \E s \in Sockets :
       \/ \E h \in Handshakes[s] : Start(s, h)
       \/ ClaimStep(s) \/ ClaimFails(s) \/ ClaimTimesOut(s) \/ Leave(s)
       \/ Close(s) \/ ReleaseGet(s) \/ ReleaseKey(s) \/ ReleaseFails(s)
  \/ \E n \in Names : Expire(n) \/ DeleteName(n)
  \/ \E o \in Owners : FindOwned(o)
  \/ DeleteOwned
  \/ \E m \in Nodes : Wire(m) \/ Crash(m)

Spec == Init /\ [][Next]_vars

-----------------------------------------------------------------------------
\* While no command has hit a name after what it relied on had changed, a
\* durable client that is connected with a granted name has its key, without a
\* time to live: nobody else can be granted the name and it does not run out.
\* (hostnames.js:197 "Held names are persisted (no TTL) while the owner is
\* connected"; the exceptions are what a Lua script would close.)
NamesKept ==
  \A n \in Names \ disturbed : \A s \in Holders(n) :
    Durable(OwnerOf(s)) => store[n] = [owner |-> OwnerOf(s), lease |-> FALSE]

\* A durable client's key is lost only by running out during its grace period,
\* or by an administrator, or by a command whose ground had changed: no claim,
\* release or fall back takes it otherwise.
GraceKept ==
  [][\A n \in Names :
       /\ store[n] # None
       /\ Durable(store[n].owner)
       /\ ~(IF store'[n] = None THEN FALSE ELSE store'[n].owner = store[n].owner)
       => n \in disturbed' \/ (store[n].lease /\ store'[n] = None)]_vars

\* A key without a time to live has a connection that will give it one: a
\* client that holds it, or a claim or release of its owner still under way.
\* The exceptions are a claimant that ended without its release reaching Redis
\* (a crash, an outage, a refused or abandoned claim) and a disturbed name;
\* those names are never free again until the same client comes back.
NotPinned ==
  \A n \in Names \ (orphaned \cup disturbed) :
    store[n] # None =>
      \/ store[n].lease
      \/ \E s \in Connections :
           /\ n \in NamesOf(s) /\ OwnerOf(s) = store[n].owner
           /\ \/ phase[s] = "open"
              \/ Running(claim[s])
              \/ Running(release[s]) /\ n \notin FirstNames(s, release[s].i - 1)

\* hostnames.js:200-201: "The race window is one round trip and the loser sees
\* 'already taken'".
LoserIsRefused ==
  \A n \in Names : \A s, r \in Holders(n) :
    Durable(OwnerOf(s)) /\ Durable(OwnerOf(r)) => OwnerOf(s) = OwnerOf(r)
=============================================================================
