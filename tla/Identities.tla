------------------------------ MODULE Identities ------------------------------
(***************************************************************************)
(* Client ids and their tokens: ClientIdRegistry (hostnames.js), the token *)
(* handler and the two admin operations on ids (server.js), and the client *)
(* profiles that ask for tokens (api.ts initConfigFile, cli.ts config).    *)
(*                                                                         *)
(* With Redis every await is a round trip, so the lookup and the recording *)
(* of an id are two steps of a handler; without it both happen at once.    *)
(* A token is the id it was signed for; "" is no id and no token.          *)
(***************************************************************************)
EXTENDS Naturals, FiniteSets

CONSTANTS
  Nodes, Profiles,
  Operators,  \* the profiles that have the server's API key
  Names,      \* ids somebody may ask for
  Uuids,      \* ids the server mints
  MaxAsks,    \* bound: token requests of all profiles
  MaxFaults   \* bound: outages of Redis, restarts and lost answers

Ids == Names \cup Uuids

ASSUME IdentitiesAssumption ==
  /\ Operators \subseteq Profiles
  /\ Names \cap Uuids = {} /\ "" \notin Ids
  /\ IsFiniteSet(Uuids) /\ Cardinality(Uuids) >= MaxAsks
  /\ MaxAsks \in Nat /\ MaxFaults \in Nat

VARIABLES
  up,       \* Redis can be reached
  redis,    \* the ids Redis knows
  wired,    \* the nodes that have connected to Redis since they started
  local,    \* local[n]: the ids node n knows
  cfg,      \* cfg[p]: the profile on disk
  job,      \* job[p]: the token request p has under way
  used,     \* uuids that were minted
  asks, faults

vars == <<up, redis, wired, local, cfg, job, used, asks, faults>>

Profile == [id : Ids \cup {""}, token : Ids \cup {""}, valid : BOOLEAN]

\* known: Redis knew the id when the request was sent, and neither an
\* administrator nor an outage has come between.
Job == [phase : {"idle", "sent", "checked", "granted", "taken"}, node : Nodes \cup {""},
        id : Ids \cup {""}, proof : Ids \cup {""}, force : BOOLEAN,
        second : BOOLEAN, known : BOOLEAN]

Idle == [phase |-> "idle", node |-> "", id |-> "", proof |-> "",
         force |-> FALSE, second |-> FALSE, known |-> FALSE]

TypeOK ==
  /\ up \in BOOLEAN /\ redis \subseteq Ids /\ wired \subseteq Nodes
  /\ local \in [Nodes -> SUBSET Ids]
  /\ cfg \in [Profiles -> Profile] /\ job \in [Profiles -> Job]
  /\ \A p \in Profiles : job[p].phase \in {"checked", "granted"} => job[p].id # ""
  /\ used \subseteq Uuids /\ asks \in 0..MaxAsks /\ faults \in 0..MaxFaults

Init ==
  /\ up = TRUE /\ redis = {} /\ wired = Nodes /\ used = {} /\ asks = 0 /\ faults = 0
  /\ local = [n \in Nodes |-> {}]
  /\ cfg = [p \in Profiles |-> [id |-> "", token |-> "", valid |-> FALSE]]
  /\ job = [p \in Profiles |-> Idle]

-----------------------------------------------------------------------------
Reaches(n) == up /\ n \in wired

\* Mutated form: what Redis says is not asked.
ExistsLocally(n, i) == i \in local[n]

\* exists(): Redis decides; the local map does when Redis cannot be reached.
Exists(n, i) == IF Reaches(n) THEN i \in redis ELSE i \in local[n]

\* reserve(): both.  Its result, whether the id was fresh, is used by nobody.
Reserve(n, i) ==
  /\ redis' = IF Reaches(n) THEN redis \cup {i} ELSE redis
  /\ local' = [local EXCEPT ![n] = @ \cup {i}]

\* A valid token for the very id, or the operator's key.
Proven(p) == p \in Operators \/ job[p].proof = job[p].id

Request(p, i, force, proof, second) ==
  \E n \in Nodes :
    job' = [job EXCEPT ![p] = [phase |-> "sent", node |-> n, id |-> i, proof |-> proof,
                               force |-> force, second |-> second, known |-> Reaches(n) /\ i \in redis]]

\* Mutated form: init --force sends no proof.
ProofNone(p) == ""

\* Renewing one's own id: the token the profile holds goes with the request.
Proof(p) == IF cfg[p].valid THEN cfg[p].token ELSE ""

\* `init` without a token, or with --force, and `config token generate`, which
\* does not ask again for another id.  The profile's own id comes first.
Ask(p, client, force) ==
  /\ job[p].phase = "idle" /\ asks < MaxAsks /\ asks' = asks + 1
  /\ Request(p, IF cfg[p].id = "" THEN client ELSE cfg[p].id, force, Proof(p), FALSE)
  /\ UNCHANGED <<up, redis, wired, local, cfg, used, faults>>

\* `config client`: the profile may name an id its token is not for.
SetClientId(p, i) ==
  /\ job[p].phase = "idle" /\ cfg[p].id # i
  /\ cfg' = [cfg EXCEPT ![p].id = i]
  /\ UNCHANGED <<up, redis, wired, local, job, used, asks, faults>>

\* The id that is decided on: a fresh one when none was asked for.
IdOf(p) == IF job[p].id = "" THEN CHOOSE u \in Uuids \ used : TRUE ELSE job[p].id

\* The handler up to reserve(): exists() is asked of a named id only.  There are
\* uuids enough: IdentitiesAssumption.
Check(p) ==
  LET r == job[p] IN
  /\ r.phase = "sent" /\ (r.id = "" => used # Uuids)
  /\ job' = [job EXCEPT ![p].id = IdOf(p),
                        ![p].phase = IF r.id # "" /\ Exists(r.node, r.id) /\ ~Proven(p)
                                     THEN "taken" ELSE "checked"]
  /\ used' = used \cup ({IdOf(p)} \cap Uuids)
  /\ UNCHANGED <<up, redis, wired, local, cfg, asks, faults>>

\* reserve() and the answer.
Issue(p) ==
  /\ job[p].phase = "checked"
  /\ Reserve(job[p].node, job[p].id)
  /\ job' = [job EXCEPT ![p].phase = "granted"]
  /\ UNCHANGED <<up, wired, cfg, used, asks, faults>>

\* Mutated form: a forced profile keeps the id it could not prove.
SavedOwn(p) == [cfg[p] EXCEPT !.id = IF @ = "" THEN job[p].id ELSE @,
                              !.token = job[p].id, !.valid = TRUE]

\* The profile a granted token is saved with: the server's word on the id.
Saved(p) == [id |-> job[p].id, token |-> job[p].id, valid |-> TRUE]

Granted(p) ==
  /\ job[p].phase = "granted"
  /\ cfg' = [cfg EXCEPT ![p] = Saved(p)]
  /\ job' = [job EXCEPT ![p] = Idle]
  /\ UNCHANGED <<up, redis, wired, local, used, asks, faults>>

\* CLIENT_ID_TAKEN: with --force a fresh id is asked for, otherwise init fails.
Taken(p) ==
  /\ job[p].phase = "taken"
  /\ IF job[p].force THEN Request(p, "", TRUE, "", TRUE)
     ELSE job' = [job EXCEPT ![p] = Idle]
  /\ UNCHANGED <<up, redis, wired, local, cfg, used, asks, faults>>

\* The answer is lost: the profile is not saved, the id stays issued.
AnswerLost(p) ==
  /\ job[p].phase \in {"granted", "taken"} /\ faults < MaxFaults /\ faults' = faults + 1
  /\ job' = [job EXCEPT ![p] = Idle]
  /\ UNCHANGED <<up, redis, wired, local, cfg, used, asks>>

\* A token lasts 30 days, the one in a request included.
TokenExpires(p) ==
  /\ cfg[p].valid
  /\ cfg' = [cfg EXCEPT ![p].valid = FALSE]
  /\ job' = [job EXCEPT ![p].proof = IF job[p].phase = "sent" THEN "" ELSE @]
  /\ UNCHANGED <<up, redis, wired, local, used, asks, faults>>

-----------------------------------------------------------------------------
\* The administrator mints a token for an id, whoever holds it.
AdminGenerate(n, i) ==
  /\ Reserve(n, i)
  /\ UNCHANGED <<up, wired, cfg, job, used, asks, faults>>

\* DELETE /clients frees the id, at this node and in Redis if it can be reached.
Forget(n, i) ==
  /\ i \in redis \cup local[n]
  /\ local' = [local EXCEPT ![n] = @ \ {i}]
  /\ redis' = IF Reaches(n) THEN redis \ {i} ELSE redis
  /\ job' = [p \in Profiles |-> [job[p] EXCEPT !.known = @ /\ job[p].id # i]]
  /\ UNCHANGED <<up, wired, cfg, used, asks, faults>>

\* A node's first connection to Redis.
Wire(n) ==
  /\ up /\ n \notin wired
  /\ wired' = wired \cup {n}
  /\ UNCHANGED <<up, redis, local, cfg, job, used, asks, faults>>

Outage ==
  /\ up /\ faults < MaxFaults /\ faults' = faults + 1
  /\ up' = FALSE
  /\ job' = [p \in Profiles |-> [job[p] EXCEPT !.known = FALSE]]
  /\ UNCHANGED <<redis, wired, local, cfg, used, asks>>

Recover ==
  /\ ~up /\ up' = TRUE
  /\ UNCHANGED <<redis, wired, local, cfg, job, used, asks, faults>>

\* A node restarts and fails the requests it was answering.
Restart(n) ==
  /\ faults < MaxFaults /\ faults' = faults + 1
  /\ wired' = wired \ {n} /\ local' = [local EXCEPT ![n] = {}]
  /\ job' = [p \in Profiles |-> IF job[p].node = n THEN Idle ELSE job[p]]
  /\ UNCHANGED <<up, redis, cfg, used, asks>>

Handler(p) == Check(p) \/ Issue(p) \/ Granted(p) \/ Taken(p)

Next ==
  \/ \E p \in Profiles :
       \/ \E client \in Names \cup {""}, force \in BOOLEAN : Ask(p, client, force)
       \/ \E i \in Names : SetClientId(p, i)
       \/ Handler(p) \/ AnswerLost(p) \/ TokenExpires(p)
  \/ \E n \in Nodes : \/ Wire(n) \/ Restart(n)
                      \/ \E i \in Names : AdminGenerate(n, i)
                      \/ \E i \in Ids : Forget(n, i)
  \/ Outage \/ Recover

\* Handlers and clients go on once a request was sent.
Spec == Init /\ [][Next]_vars /\ \A p \in Profiles : WF_vars(Handler(p))

-----------------------------------------------------------------------------
\* server.js:63-64 "the rule survives restarts and holds across nodes": an id that
\* had been issued when a request was sent is issued again only against a token
\* for it or the operator's key.
IssuedIdsProtected ==
  \A p \in Profiles :
    job[p].phase \in {"checked", "granted"} /\ job[p].known
      => p \in Operators \/ job[p].proof = job[p].id

\* api.ts:198-200: a profile loses its id only to a forced init whose id was
\* refused, and never while it holds a valid token for it, whatever the node or
\* Redis has forgotten.
IdentityKept ==
  [][\A p \in Profiles :
       Granted(p) /\ cfg[p].id # "" /\ cfg[p].id # cfg'[p].id
         => job[p].second /\ ~(cfg[p].valid /\ cfg[p].token = cfg[p].id)]_vars

\* api.ts:198-199 "--force means give me a new identity, so take one rather than
\* leaving the profile unusable": a forced init that is answered ends with a
\* profile whose token is valid for its id.
ForcedInitYields ==
  \A p \in Profiles :
    job[p].phase = "sent" /\ job[p].force
      ~> \/ job[p].phase = "idle" /\ faults > 0
         \/ cfg[p].valid /\ cfg[p].token = cfg[p].id

\* hostnames.js:301-304: "Once an id has been issued it is only re-issued to a
\* caller that can present a valid token for it (a renewal) or to an operator".
NoLandGrab ==
  [][\A p \in Profiles : Issue(p) /\ job[p].id \in redis => Proven(p)]_vars
=============================================================================
