--------------------------- MODULE ClaimRegistry ----------------------------
(***************************************************************************)
(* hostnames.js's ClaimRegistry under the calls the server makes: a        *)
(* connection claims names once, releases what it was granted when it      *)
(* closes, and the administrator may drop a name or an owner at any time.  *)
(***************************************************************************)
EXTENDS NameClaims

VARIABLES
  claims,      \* the registry's map
  phase,       \* phase[s]: "new", "open" or "gone"
  caller,      \* caller[s]: the owner socket s claimed for
  granted      \* granted[s]: the names its claim returned

vars == <<claims, phase, caller, granted>>

TypeOK ==
  /\ claims \in ClaimTable
  /\ phase \in [Sockets -> {"new", "open", "gone"}]
  /\ caller \in [Sockets -> Owners \cup {None}]
  /\ granted \in [Sockets -> SUBSET Names]

Init ==
  /\ claims = NoClaims
  /\ phase = [s \in Sockets |-> "new"]
  /\ caller = [s \in Sockets |-> None]
  /\ granted = [s \in Sockets |-> {}]

-----------------------------------------------------------------------------
\* claim(S, c, s) succeeds.
Grant(s, c, S) ==
  /\ phase[s] = "new"
  /\ CanClaim(claims, S, c)
  /\ claims' = AfterClaim(claims, S, c, s)
  /\ phase' = [phase EXCEPT ![s] = "open"]
  /\ caller' = [caller EXCEPT ![s] = c]
  /\ granted' = [granted EXCEPT ![s] = S]

\* claim(S, c, s) answers "already taken" or "no usable name requested".
Refuse(s, c, S) ==
  /\ phase[s] = "new"
  /\ ~CanClaim(claims, S, c)
  /\ \E P \in RefusalPurges(claims, S) : claims' = Purge(claims, P)
  /\ phase' = [phase EXCEPT ![s] = "gone"]
  /\ UNCHANGED <<caller, granted>>

\* The connection closes: release(grantedNames, socket.id).
Release(s) ==
  /\ phase[s] = "open"
  /\ claims' = AfterRelease(claims, granted[s], s)
  /\ phase' = [phase EXCEPT ![s] = "gone"]
  /\ UNCHANGED <<caller, granted>>

\* The administrator removes a client, or a tunnel's name.
ReleaseOwner(c) ==
  /\ claims' = AfterReleaseOwner(claims, c)
  /\ UNCHANGED <<phase, caller, granted>>

DeleteName(n) ==
  /\ claims' = AfterDeleteName(claims, n)
  /\ UNCHANGED <<phase, caller, granted>>

Hour ==
  /\ claims' = Age(claims)
  /\ UNCHANGED <<phase, caller, granted>>

Next ==
  \/ \E s \in Sockets, c \in Owners, S \in SUBSET Names :
       Grant(s, c, S) \/ Refuse(s, c, S)
  \/ \E s \in Sockets : Release(s)
  \/ \E c \in Owners : ReleaseOwner(c)
  \/ \E n \in Names : DeleteName(n)
  \/ Hour

\* Only the clock is sure to move: nobody promises to connect or to leave.
Spec == Init /\ [][Next]_vars /\ WF_vars(Hour)

-----------------------------------------------------------------------------
\* A claim with a socket is backed by an open connection that was granted the
\* name under the same owner: no name is pinned to a connection that ended.
ClaimsBacked ==
  \A n \in Names :
    claims[n] # None /\ claims[n].socketId # None =>
      LET s == claims[n].socketId IN
        /\ phase[s] = "open"
        /\ n \in granted[s]
        /\ caller[s] = claims[n].clientId

\* A connected durable owner cannot lose its names to another client: while
\* the claim rests on its socket it ends only by the administrator, by that
\* very connection closing, or by the same owner claiming it again.
HeldNamesKept ==
  [][\A n \in Names :
       owner(claims, n) # None /\ claims[n].socketId # None
         /\ ~isEphemeralOwner(claims[n].clientId) =>
           \/ owner(claims', n) # None /\ claims'[n].clientId = claims[n].clientId
           \/ ReleaseOwner(claims[n].clientId) \/ DeleteName(n)
           \/ claim_ttl <= 0 /\ Release(claims[n].socketId)]_vars

\* A reservation is honoured: until its TTL has run out only the owner (or the
\* administrator) can move a reserved name (hostnames.js:8-9).
ReservationHonoured ==
  [][\A n \in Names :
       Reserved(claims, n) =>
           \/ owner(claims', n) # None /\ claims'[n].clientId = claims[n].clientId
           \/ ReleaseOwner(claims[n].clientId) \/ DeleteName(n)
           \/ Hour /\ claims[n].idle = claim_ttl]_vars

\* No reservation lasts for ever: its owner comes back or the name is free.
ReservationEnds ==
  \A n \in Names : Reserved(claims, n) ~> ~Reserved(claims, n)

\* config.js:55 says of the TTL setting "0 releases it immediately".
ZeroTtlReleasesAtOnce ==
  [][\A s \in Sockets :
       ClaimTtlHours = 0 /\ Release(s) =>
         \A n \in granted[s] : claims[n] # None /\ claims[n].socketId = s
           => owner(claims', n) = None]_vars

-----------------------------------------------------------------------------
\* The registry implements NameOwnership: a name's owner is the one owner()
\* reports, and a name is held while its entry has a socket.
OwnerMap ==
  [n \in Names |-> IF owner(claims, n) = None THEN None ELSE claims[n].clientId]

HeldNames == {n \in Names : claims[n] # None /\ claims[n].socketId # None}

Ownership == INSTANCE NameOwnership WITH
  ownerOf <- OwnerMap, held <- HeldNames, Reserves <- claim_ttl > 0

OwnershipSpec == Ownership!Spec
=============================================================================
