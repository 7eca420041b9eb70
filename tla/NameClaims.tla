----------------------------- MODULE NameClaims -----------------------------
(***************************************************************************)
(* The arithmetic of public-name claims: what each method of               *)
(* hostnames.js's ClaimRegistry does to its map  name -> entry, as pure    *)
(* operators.  ClaimRegistry drives them on their own; TunnelServer and    *)
(* TunnelCluster embed them in one process and in a cluster.               *)
(*                                                                         *)
(* A claim table is a function cl on Names; cl[n] is an entry, or None     *)
(* where the map has no key.  The code keeps the instant lastSeen and      *)
(* compares Date.now() - lastSeen with the TTL, only for an entry without  *)
(* a socket; here that difference is the field idle, in hours, which Age   *)
(* advances and which stops at the first value that exceeds the TTL.       *)
(***************************************************************************)
EXTENDS Integers

CONSTANTS
  Names,            \* public names, normalised and validated
  Owners,           \* claim owners: client ids and "token:<hash>" owners
  EphemeralOwners,  \* the "token:" ones
  Sockets,          \* socket ids, each used by one connection
  None,             \* null / no entry
  ClaimTtlHours     \* TUNNEL_CLAIM_TTL_HOURS; 0 also stands for unset or unparsable

\* `(parseInt(env, 10) || 24)` hours: zero is falsy, so it means the default.
claim_ttl == IF ClaimTtlHours = 0 THEN 24 ELSE ClaimTtlHours

\* IdleCap bounds idle: past it, _expired no longer changes its answer.
IdleCap == IF claim_ttl >= 0 THEN claim_ttl + 1 ELSE 0

Entry == [clientId : Owners, socketId : Sockets \cup {None}, idle : 0..IdleCap]

ASSUME NameClaimsAssumption ==
  /\ EphemeralOwners \subseteq Owners
  /\ ClaimTtlHours \in Int
  /\ None \notin Owners \cup Sockets
  /\ None \notin Entry

ClaimTable == [Names -> Entry \cup {None}]

NoClaims == [n \in Names |-> None]

-----------------------------------------------------------------------------
isEphemeralOwner(c) == c \in EphemeralOwners

\* Mutated form: compares with the wrong unit, so the TTL never runs out.
_expiredNever(entry) ==
  /\ entry.socketId = None
  /\ claim_ttl >= 0
  /\ entry.idle > 24 * claim_ttl

_expired(entry) ==
  /\ entry.socketId = None
  /\ claim_ttl >= 0
  /\ entry.idle > claim_ttl

\* The entry owner(name) returns: null when there is none or it has expired.
owner(cl, n) ==
  IF cl[n] = None THEN None ELSE IF _expired(cl[n]) THEN None ELSE cl[n]

\* Expired entries are deleted as owner() meets them.
Purge(cl, P) == [n \in Names |-> IF n \in P THEN None ELSE cl[n]]

ExpiredNames(cl) == {n \in Names : cl[n] # None /\ owner(cl, n) = None}

\* Mutated forms: only a name in use counts as taken / only one that is not.
TakenWhileInUse(cl, n, c) ==
  /\ owner(cl, n) # None
  /\ cl[n].socketId # None
  /\ cl[n].clientId # c
  /\ ~isEphemeralOwner(cl[n].clientId)

TakenWhileReserved(cl, n, c) ==
  /\ owner(cl, n) # None
  /\ cl[n].socketId = None
  /\ cl[n].clientId # c
  /\ ~isEphemeralOwner(cl[n].clientId)

\* The test that makes claim() answer "already taken".
TakenFrom(cl, n, c) ==
  /\ owner(cl, n) # None
  /\ cl[n].clientId # c
  /\ ~isEphemeralOwner(cl[n].clientId)

\* Mutated form: grants what it can instead of all or nothing.
CanClaimSome(cl, S, c) ==
  \E n \in S : ~TakenFrom(cl, n, c)

\* claim(names, clientId, socketId) is all-or-nothing over the set S of names.
CanClaim(cl, S, c) ==
  /\ S # {}
  /\ \A n \in S : ~TakenFrom(cl, n, c)

AfterClaim(cl, S, c, s) ==
  [n \in Names |->
     IF n \in S THEN [clientId |-> c, socketId |-> s, idle |-> 0] ELSE cl[n]]

\* A refused claim stops at the first taken name.  The list's order is
\* abstracted, so the expired names met before it are any of those in S.
RefusalPurges(cl, S) == SUBSET (S \cap ExpiredNames(cl))

\* release(names, socketId); s = None is the call without a socket id.
ReleasedBy(cl, n, s) == cl[n] # None /\ (s = None \/ cl[n].socketId = s)

AfterReleaseDurable(cl, S, s) ==
  [n \in Names |->
     IF ~(n \in S /\ ReleasedBy(cl, n, s)) \/ isEphemeralOwner(cl[n].clientId)
       THEN cl[n]
     ELSE IF claim_ttl <= 0 THEN None
     ELSE [clientId |-> cl[n].clientId, socketId |-> None, idle |-> 0]]

AfterRelease(cl, S, s) ==
  [n \in Names |->
     IF ~(n \in S /\ ReleasedBy(cl, n, s)) THEN cl[n]
     ELSE IF claim_ttl <= 0 \/ isEphemeralOwner(cl[n].clientId) THEN None
     ELSE [clientId |-> cl[n].clientId, socketId |-> None, idle |-> 0]]

AfterReleaseOwner(cl, c) ==
  [n \in Names |-> IF cl[n] # None /\ cl[n].clientId = c THEN None ELSE cl[n]]

AfterDeleteName(cl, m) == [cl EXCEPT ![m] = None]

\* An hour passes for the entries that wait for their owner.
Age(cl) ==
  [n \in Names |->
     IF cl[n] = None THEN None
     ELSE IF cl[n].socketId = None /\ cl[n].idle < IdleCap
       THEN [cl[n] EXCEPT !.idle = @ + 1]
       ELSE cl[n]]

-----------------------------------------------------------------------------
\* Used by properties: the name waits for its owner to come back.
Reserved(cl, n) == owner(cl, n) # None /\ cl[n].socketId = None
=============================================================================
