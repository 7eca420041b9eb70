--------------------------- MODULE IdentitiesProofs ---------------------------
(***************************************************************************)
(* For any nodes, profiles and faults: an issued id is issued again only   *)
(* against proof, and a profile does not lose its id against its will.     *)
(***************************************************************************)
EXTENDS Identities, TLAPS

\* The part of TypeOK that the rest depends on.
Types ==
  /\ redis \subseteq Ids /\ used \subseteq Uuids
  /\ cfg \in [Profiles -> Profile] /\ job \in [Profiles -> Job]
  /\ \A p \in Profiles : job[p].phase \in {"checked", "granted"} => job[p].id # ""

\* The node that is asked will find the id it is asked for in Redis.
WillBeFound ==
  \A p \in Profiles :
    job[p].known /\ job[p].phase = "sent" =>
      job[p].id # "" /\ up /\ job[p].node \in wired /\ job[p].id \in redis

\* A first request is for the profile's id and carries the token it holds.
First ==
  \A p \in Profiles :
    job[p].phase # "idle" /\ ~job[p].second =>
      /\ cfg[p].id # "" => job[p].id = cfg[p].id
      /\ cfg[p].valid => job[p].proof = cfg[p].token

\* Only a first request is refused, for want of a proof.
Refused ==
  \A p \in Profiles : job[p].phase = "taken" => ~job[p].second /\ job[p].proof # job[p].id

\* A second request asks for no id, and its profile could not prove its own.
Second ==
  \A p \in Profiles :
    job[p].phase # "idle" /\ job[p].second =>
      /\ job[p].phase = "sent" => job[p].id = ""
      /\ cfg[p].id # "" => ~(cfg[p].valid /\ cfg[p].token = cfg[p].id)

Loyal == First /\ Refused /\ Second

IInv == Types /\ WillBeFound /\ IssuedIdsProtected /\ Loyal

LEMMA IdFacts == "" \notin Ids /\ Names \subseteq Ids /\ Uuids \subseteq Ids
BY IdentitiesAssumption DEF IdentitiesAssumption, Ids

LEMMA InitIInv == ASSUME Init PROVE IInv
<1>1. /\ redis = {} /\ used = {}
      /\ cfg = [p \in Profiles |-> [id |-> "", token |-> "", valid |-> FALSE]]
      /\ job = [p \in Profiles |-> Idle]
  BY DEF Init
<1>2. Types
  BY <1>1 DEF Types, Profile, Job, Idle
<1>3. \A p \in Profiles : job[p].phase = "idle"
  BY <1>1 DEF Idle
<1>4. WillBeFound /\ IssuedIdsProtected
  BY <1>3 DEF WillBeFound, IssuedIdsProtected
<1>5. Loyal
  BY <1>3 DEF Loyal, First, Refused, Second
<1> QED BY <1>2, <1>4, <1>5 DEF IInv

\* The first request: for the profile's own id, with the token it holds.
LEMMA AskIInv ==
  ASSUME IInv, NEW p \in Profiles, NEW client \in Names \cup {""}, NEW force \in BOOLEAN,
         Ask(p, client, force)
  PROVE  IInv'
<1>1. UNCHANGED <<up, redis, wired, cfg, used>> /\ cfg[p] \in Profile
  BY DEF Ask, IInv, Types
<1> DEFINE i == IF cfg[p].id = "" THEN client ELSE cfg[p].id
<1>2. PICK n \in Nodes :
        job' = [job EXCEPT ![p] = [phase |-> "sent", node |-> n, id |-> i, proof |-> Proof(p),
                                   force |-> force, second |-> FALSE,
                                   known |-> Reaches(n) /\ i \in redis]]
  BY DEF Ask, Request
<1> DEFINE k == Reaches(n) /\ i \in redis
           r == [phase |-> "sent", node |-> n, id |-> i, proof |-> Proof(p),
                 force |-> force, second |-> FALSE, known |-> k]
<1>3. k \in BOOLEAN /\ (k => up /\ n \in wired /\ i \in redis)
  BY DEF Reaches
<1>4. i \in Ids \cup {""} /\ Proof(p) \in Ids \cup {""}
  BY <1>1, IdFacts DEF Profile, Proof
<1>5. (cfg[p].id # "" => i = cfg[p].id) /\ (cfg[p].valid => Proof(p) = cfg[p].token)
  BY DEF Proof
<1>6. job' = [job EXCEPT ![p] = r]
  BY <1>2
<1> HIDE DEF k, i
<1>7. r \in Job /\ r.phase = "sent" /\ r.id = i /\ r.proof = Proof(p) /\ ~r.second
      /\ (r.known => up /\ r.node \in wired /\ i \in redis)
  BY <1>3, <1>4 DEF Job
<1> HIDE DEF r
<1>8. job' \in [Profiles -> Job] /\ job'[p] = r /\ \A q \in Profiles \ {p} : job'[q] = job[q]
  BY <1>6, <1>7 DEF IInv, Types
<1>9. Types'
  BY <1>1, <1>7, <1>8 DEF IInv, Types
<1>10. WillBeFound'
  BY <1>1, <1>7, <1>8, IdFacts DEF IInv, WillBeFound, Types
<1>11. IssuedIdsProtected'
  BY <1>7, <1>8 DEF IInv, IssuedIdsProtected
<1>12. Loyal'
  <2>1. First'
    BY <1>1, <1>5, <1>7, <1>8 DEF IInv, Loyal, First
  <2>2. Refused'
    BY <1>7, <1>8 DEF IInv, Loyal, Refused
  <2>3. Second'
    BY <1>1, <1>7, <1>8 DEF IInv, Loyal, Second
  <2> QED BY <2>1, <2>2, <2>3 DEF Loyal
<1> QED BY <1>9, <1>10, <1>11, <1>12 DEF IInv

\* A request that is over leaves nothing behind.
LEMMA DropIInv ==
  ASSUME IInv, NEW S \in SUBSET Profiles,
         job' = [q \in Profiles |-> IF q \in S THEN Idle ELSE job[q]],
         UNCHANGED <<up, redis, cfg, used>>, 
         \A q \in Profiles \ S : job[q].node \in wired => job[q].node \in wired'
  PROVE  IInv'
<1>1. Idle \in Job /\ Idle.phase = "idle"
  BY DEF Idle, Job
<1>2. /\ job' \in [Profiles -> Job] /\ \A q \in S : job'[q].phase = "idle"
      /\ \A q \in Profiles \ S : job'[q] = job[q]
  BY <1>1 DEF IInv, Types
<1>3. Types' /\ WillBeFound' /\ IssuedIdsProtected'
  BY <1>2 DEF IInv, Types, WillBeFound, IssuedIdsProtected
<1>4. Loyal'
  BY <1>2 DEF IInv, Loyal, First, Refused, Second
<1> QED BY <1>3, <1>4 DEF IInv

\* The second one, after a refusal: for a fresh id.
LEMMA TakenIInv ==
  ASSUME IInv, NEW p \in Profiles, Taken(p)
  PROVE  IInv'
<1>1. UNCHANGED <<up, redis, wired, cfg, used>> /\ job[p].phase = "taken"
  BY DEF Taken
<1>2. CASE Request(p, "", TRUE, "", TRUE)
  <2>1. PICK n \in Nodes :
          job' = [job EXCEPT ![p] = [phase |-> "sent", node |-> n, id |-> "", proof |-> "",
                                     force |-> TRUE, second |-> TRUE,
                                     known |-> Reaches(n) /\ "" \in redis]]
    BY <1>2 DEF Request
  <2>2. "" \notin redis
    BY IdFacts DEF IInv, Types
  <2> DEFINE r == [phase |-> "sent", node |-> n, id |-> "", proof |-> "",
                   force |-> TRUE, second |-> TRUE, known |-> FALSE]
  <2>3. job' = [job EXCEPT ![p] = r]
    BY <2>1, <2>2
  <2>4. r \in Job /\ r.phase = "sent" /\ r.id = "" /\ r.second /\ ~r.known
    BY DEF Job
  <2> HIDE DEF r
  <2>5. job' \in [Profiles -> Job] /\ job'[p] = r /\ \A q \in Profiles \ {p} : job'[q] = job[q]
    BY <2>3, <2>4 DEF IInv, Types
  <2>6. cfg[p].id # "" => ~(cfg[p].valid /\ cfg[p].token = cfg[p].id)
    BY <1>1 DEF IInv, Loyal, First, Refused
  <2>7. Types' /\ WillBeFound' /\ IssuedIdsProtected'
    BY <1>1, <2>4, <2>5 DEF IInv, Types, WillBeFound, IssuedIdsProtected
  <2>8. Loyal'
    <3>1. First'
      BY <1>1, <2>4, <2>5 DEF IInv, Loyal, First
    <3>2. Refused'
      BY <2>4, <2>5 DEF IInv, Loyal, Refused
    <3>3. Second'
      BY <1>1, <2>4, <2>5, <2>6 DEF IInv, Loyal, Second
    <3> QED BY <3>1, <3>2, <3>3 DEF Loyal
  <2> QED BY <2>7, <2>8 DEF IInv
<1>3. CASE job' = [job EXCEPT ![p] = Idle]
  <2>1. job' = [q \in Profiles |-> IF q \in {p} THEN Idle ELSE job[q]]
    BY <1>3 DEF IInv, Types
  <2> QED BY <1>1, <2>1, DropIInv
<1> QED BY <1>2, <1>3 DEF Taken

-----------------------------------------------------------------------------
\* The id that is decided on is one.
LEMMA DecidedId ==
  ASSUME IInv, NEW p \in Profiles, Check(p)
  PROVE  IdOf(p) \in Ids /\ (job[p].id # "" => IdOf(p) = job[p].id)
<1>1. CASE job[p].id # ""
  <2>1. job[p].id \in Ids \cup {""}
    BY DEF IInv, Types, Job
  <2> QED BY <1>1, <2>1 DEF IdOf
<1>2. CASE job[p].id = ""
  <2>1. \E u \in Uuids \ used : TRUE
    BY <1>2 DEF Check, IInv, Types
  <2>2. (CHOOSE u \in Uuids \ used : TRUE) \in Uuids
    BY <2>1
  <2> QED BY <1>2, <2>2, IdFacts DEF IdOf
<1> QED BY <1>1, <1>2

LEMMA CheckIInv ==
  ASSUME IInv, NEW p \in Profiles, Check(p)
  PROVE  IInv'
<1>1. /\ job[p].phase = "sent" /\ UNCHANGED <<up, redis, wired, cfg>>
      /\ used' = used \cup ({IdOf(p)} \cap Uuids)
  BY DEF Check
<1>2. PICK phase \in {"taken", "checked"} :
        /\ job' = [job EXCEPT ![p].id = IdOf(p), ![p].phase = phase]
        /\ phase = "taken" <=> job[p].id # "" /\ Exists(job[p].node, job[p].id) /\ ~Proven(p)
  BY DEF Check
<1> DEFINE i == IdOf(p)
           r == [job[p] EXCEPT !.id = i, !.phase = phase]
<1>3. i \in Ids /\ (job[p].id # "" => i = job[p].id)
  BY DecidedId
<1> HIDE DEF i
<1>4. job' = [job EXCEPT ![p] = r] /\ job[p] \in Job
  BY <1>2 DEF IInv, Types, i
<1>5. /\ r \in Job /\ r.phase = phase /\ r.id = i /\ r.proof = job[p].proof
      /\ (r.second <=> job[p].second) /\ (r.known <=> job[p].known)
  BY <1>3, <1>4 DEF Job
<1> HIDE DEF r
<1>6. job' \in [Profiles -> Job] /\ job'[p] = r /\ \A q \in Profiles \ {p} : job'[q] = job[q]
  BY <1>4, <1>5 DEF IInv, Types
<1>7. Types'
  BY <1>1, <1>3, <1>5, <1>6, IdFacts DEF IInv, Types
<1>8. WillBeFound'
  BY <1>1, <1>2, <1>5, <1>6 DEF IInv, WillBeFound
<1>9. IssuedIdsProtected'
  <2>1. job[p].known /\ phase = "checked" => Proven(p) /\ i = job[p].id
    BY <1>1, <1>2, <1>3 DEF IInv, WillBeFound, Exists, Reaches
  <2>2. r.known /\ r.phase = "checked" => p \in Operators \/ r.proof = r.id
    BY <1>5, <2>1 DEF Proven
  <2>3. r.phase # "granted"
    BY <1>2, <1>5
  <2> QED BY <1>6, <2>2, <2>3 DEF IInv, IssuedIdsProtected
<1>10. Loyal'
  <2>1. First'
    BY <1>1, <1>3, <1>5, <1>6, IdFacts DEF IInv, Loyal, First
  <2>2. r.phase = "taken" => ~r.second /\ r.proof # r.id
    <3>1. phase = "taken" => job[p].id # "" /\ ~Proven(p)
      BY <1>2
    <3>2. phase = "taken" => ~job[p].second
      BY <1>1, <3>1 DEF IInv, Loyal, Second
    <3>3. phase = "taken" => job[p].proof # i
      BY <1>3, <3>1 DEF Proven
    <3> QED BY <1>5, <3>2, <3>3
  <2>3. Refused'
    BY <1>6, <2>2 DEF IInv, Loyal, Refused
  <2>4. Second'
    BY <1>1, <1>2, <1>5, <1>6 DEF IInv, Loyal, Second
  <2> QED BY <2>1, <2>3, <2>4 DEF Loyal
<1> QED BY <1>7, <1>8, <1>9, <1>10 DEF IInv

LEMMA IssueIInv ==
  ASSUME IInv, NEW p \in Profiles, Issue(p)
  PROVE  IInv'
<1>1. /\ job[p].phase = "checked" /\ UNCHANGED <<up, wired, cfg, used>>
      /\ redis \subseteq redis' /\ redis' \subseteq redis \cup {job[p].id}
      /\ job' = [job EXCEPT ![p].phase = "granted"]
  BY DEF Issue, Reserve
<1> DEFINE r == [job[p] EXCEPT !.phase = "granted"]
<1>2. job' = [job EXCEPT ![p] = r] /\ job[p] \in Job
  BY <1>1 DEF IInv, Types
<1>3. /\ r \in Job /\ r.phase = "granted" /\ r.id = job[p].id /\ r.proof = job[p].proof
      /\ (r.second <=> job[p].second) /\ (r.known <=> job[p].known)
  BY <1>2 DEF Job
<1> HIDE DEF r
<1>4. job' \in [Profiles -> Job] /\ job'[p] = r /\ \A q \in Profiles \ {p} : job'[q] = job[q]
  BY <1>2, <1>3 DEF IInv, Types
<1>5. Types'
  <2>1. job[p].id # "" /\ job[p].id \in Ids \cup {""}
    BY <1>1, <1>2 DEF IInv, Types, Job
  <2>2. redis' \subseteq Ids /\ r.id # ""
    BY <1>1, <1>3, <2>1 DEF IInv, Types
  <2> QED BY <1>1, <1>4, <2>2 DEF IInv, Types
<1>6. WillBeFound'
  BY <1>1, <1>3, <1>4 DEF IInv, WillBeFound
<1>7. IssuedIdsProtected'
  BY <1>1, <1>3, <1>4 DEF IInv, IssuedIdsProtected
<1>8. Loyal'
  <2>1. First'
    BY <1>1, <1>3, <1>4 DEF IInv, Loyal, First
  <2>2. Refused'
    BY <1>3, <1>4 DEF IInv, Loyal, Refused
  <2>3. Second'
    BY <1>1, <1>3, <1>4 DEF IInv, Loyal, Second
  <2> QED BY <2>1, <2>2, <2>3 DEF Loyal
<1> QED BY <1>5, <1>6, <1>7, <1>8 DEF IInv

\* The profile is saved, and its request is over.
LEMMA GrantedIInv ==
  ASSUME IInv, NEW p \in Profiles, Granted(p)
  PROVE  IInv'
<1>1. /\ job[p].phase = "granted" /\ UNCHANGED <<up, redis, wired, used>>
      /\ cfg' = [cfg EXCEPT ![p] = Saved(p)] /\ job' = [job EXCEPT ![p] = Idle]
  BY DEF Granted
<1>2. Idle \in Job /\ Idle.phase = "idle"
  BY DEF Idle, Job
<1>3. job' \in [Profiles -> Job] /\ job'[p] = Idle /\ \A q \in Profiles \ {p} : job'[q] = job[q]
  BY <1>1, <1>2 DEF IInv, Types
<1>4. Saved(p) \in Profile
  <2>1. job[p].id \in Ids \cup {""}
    BY DEF IInv, Types, Job
  <2> QED BY <2>1 DEF Saved, Profile
<1>5. cfg' \in [Profiles -> Profile] /\ \A q \in Profiles \ {p} : cfg'[q] = cfg[q]
  BY <1>1, <1>4 DEF IInv, Types
<1>6. Types' /\ WillBeFound' /\ IssuedIdsProtected'
  BY <1>1, <1>2, <1>3, <1>5 DEF IInv, Types, WillBeFound, IssuedIdsProtected
<1>7. Loyal'
  <2>1. First'
    BY <1>2, <1>3, <1>5 DEF IInv, Loyal, First
  <2>2. Refused'
    BY <1>2, <1>3 DEF IInv, Loyal, Refused
  <2>3. Second'
    BY <1>2, <1>3, <1>5 DEF IInv, Loyal, Second
  <2> QED BY <2>1, <2>2, <2>3 DEF Loyal
<1> QED BY <1>6, <1>7 DEF IInv

\* A profile that is edited has no request under way.
LEMMA SetClientIdIInv ==
  ASSUME IInv, NEW p \in Profiles, NEW i \in Names, SetClientId(p, i)
  PROVE  IInv'
<1>1. /\ job[p].phase = "idle" /\ UNCHANGED <<up, redis, wired, job, used>>
      /\ cfg' = [cfg EXCEPT ![p].id = i] /\ i \in Ids
  BY IdFacts DEF SetClientId
<1>2. cfg' \in [Profiles -> Profile] /\ \A q \in Profiles \ {p} : cfg'[q] = cfg[q]
  BY <1>1 DEF IInv, Types, Profile
<1>3. Types' /\ WillBeFound' /\ IssuedIdsProtected'
  BY <1>1, <1>2 DEF IInv, Types, WillBeFound, IssuedIdsProtected
<1>4. First' /\ Refused' /\ Second'
  BY <1>1, <1>2 DEF IInv, Loyal, First, Refused, Second
<1> QED BY <1>3, <1>4 DEF IInv, Loyal

\* A token that runs out proves nothing in the request that carries it either.
LEMMA TokenExpiresIInv ==
  ASSUME IInv, NEW p \in Profiles, TokenExpires(p)
  PROVE  IInv'
<1>1. UNCHANGED <<up, redis, wired, used>> /\ cfg' = [cfg EXCEPT ![p].valid = FALSE]
  BY DEF TokenExpires
<1> DEFINE proof == IF job[p].phase = "sent" THEN "" ELSE job[p].proof
           r == [job[p] EXCEPT !.proof = proof]
<1>2. job' = [job EXCEPT ![p] = r] /\ job[p] \in Job
  BY DEF TokenExpires, IInv, Types
<1>3. proof \in Ids \cup {""} /\ (job[p].phase # "sent" => proof = job[p].proof)
  BY <1>2 DEF Job
<1> HIDE DEF proof
<1>4. /\ r \in Job /\ r.phase = job[p].phase /\ r.id = job[p].id /\ r.proof = proof
      /\ (r.second <=> job[p].second) /\ (r.known <=> job[p].known) /\ r.node = job[p].node
  BY <1>2, <1>3 DEF Job
<1> HIDE DEF r
<1>5. job' \in [Profiles -> Job] /\ job'[p] = r /\ \A q \in Profiles \ {p} : job'[q] = job[q]
  BY <1>2, <1>4 DEF IInv, Types
<1>6. /\ cfg' \in [Profiles -> Profile] /\ \A q \in Profiles \ {p} : cfg'[q] = cfg[q]
      /\ ~cfg'[p].valid /\ cfg'[p].id = cfg[p].id
  BY <1>1 DEF IInv, Types, Profile
<1>7. Types'
  <2>1. r.phase \in {"checked", "granted"} => r.id # ""
    BY <1>4 DEF IInv, Types
  <2> QED BY <1>1, <1>5, <1>6, <2>1 DEF IInv, Types
<1>8. WillBeFound'
  BY <1>1, <1>4, <1>5 DEF IInv, WillBeFound
<1>9. IssuedIdsProtected'
  BY <1>3, <1>4, <1>5 DEF IInv, IssuedIdsProtected
<1>10. Loyal'
  <2>1. First'
    BY <1>4, <1>5, <1>6 DEF IInv, Loyal, First
  <2>2. Refused'
    BY <1>3, <1>4, <1>5 DEF IInv, Loyal, Refused
  <2>3. Second'
    BY <1>4, <1>5, <1>6 DEF IInv, Loyal, Second
  <2> QED BY <2>1, <2>2, <2>3 DEF Loyal
<1> QED BY <1>7, <1>8, <1>9, <1>10 DEF IInv

\* Requests that are no longer known to ask for an id Redis has keep the rest.
LEMMA ForgottenIInv ==
  ASSUME IInv, redis' \subseteq Ids, UNCHANGED <<wired, cfg, used>>, job' \in [Profiles -> Job],
         \A p \in Profiles :
           /\ job'[p].phase = job[p].phase /\ job'[p].id = job[p].id
           /\ job'[p].proof = job[p].proof /\ job'[p].node = job[p].node
           /\ job'[p].second <=> job[p].second
           /\ job'[p].known => job[p].known /\ (up => up') /\ (job[p].id \in redis => job[p].id \in redis')
  PROVE  IInv'
<1>1. Types'
  BY DEF IInv, Types
<1>2. WillBeFound'
  BY DEF IInv, WillBeFound
<1>3. IssuedIdsProtected'
  BY DEF IInv, IssuedIdsProtected
<1>4. First'
  BY DEF IInv, Loyal, First
<1>5. Refused'
  BY DEF IInv, Loyal, Refused
<1>6. Second'
  BY DEF IInv, Loyal, Second
<1> QED BY <1>1, <1>2, <1>3, <1>4, <1>5, <1>6 DEF IInv, Loyal

LEMMA ServerIInv ==
  ASSUME IInv,
         \/ \E n \in Nodes : Wire(n) \/ \E i \in Names : AdminGenerate(n, i)
         \/ Recover \/ UNCHANGED vars
  PROVE  IInv'
<1>1. /\ UNCHANGED <<cfg, used, job>> /\ redis \subseteq redis' /\ redis' \subseteq Ids
      /\ wired \subseteq wired' /\ (up => up')
  <2>1. redis \subseteq Ids
    BY DEF IInv, Types
  <2>2. CASE \E n \in Nodes : Wire(n)
    <3>1. UNCHANGED <<up, redis, cfg, used, job>> /\ wired \subseteq wired'
      BY <2>2 DEF Wire
    <3> QED BY <2>1, <3>1
  <2>3. CASE \E n \in Nodes, i \in Names : AdminGenerate(n, i)
    <3>1. PICK i \in Names : redis' = redis \cup {i} \/ redis' = redis
      BY <2>3 DEF AdminGenerate, Reserve
    <3>2. UNCHANGED <<up, wired, cfg, used, job>>
      BY <2>3 DEF AdminGenerate
    <3> QED BY <2>1, <3>1, <3>2, IdFacts
  <2>4. CASE Recover \/ UNCHANGED vars
    <3>1. UNCHANGED <<redis, wired, cfg, used, job>> /\ (up => up')
      BY <2>4 DEF Recover, vars
    <3> QED BY <2>1, <3>1
  <2> QED BY <2>2, <2>3, <2>4
<1>2. Types' /\ WillBeFound' /\ IssuedIdsProtected'
  BY <1>1 DEF IInv, Types, WillBeFound, IssuedIdsProtected
<1>3. First' /\ Refused' /\ Second'
  BY <1>1 DEF IInv, Loyal, First, Refused, Second
<1> QED BY <1>2, <1>3 DEF IInv, Loyal

LEMMA ForgetIInv ==
  ASSUME IInv, NEW n \in Nodes, NEW i \in Ids, Forget(n, i)
  PROVE  IInv'
<1>1. UNCHANGED <<up, wired, cfg, used>> /\ redis \ {i} \subseteq redis' /\ redis' \subseteq redis
  BY DEF Forget
<1>2. job' = [p \in Profiles |-> [job[p] EXCEPT !.known = job[p].known /\ job[p].id # i]]
  BY DEF Forget
<1>3. \A p \in Profiles :
        /\ job'[p] \in Job
        /\ job'[p].phase = job[p].phase /\ job'[p].id = job[p].id
        /\ job'[p].proof = job[p].proof /\ job'[p].node = job[p].node
        /\ job'[p].second <=> job[p].second
        /\ job'[p].known => job[p].known /\ job[p].id # i
  <2> SUFFICES ASSUME NEW p \in Profiles
               PROVE  /\ job'[p] \in Job
                      /\ job'[p].phase = job[p].phase /\ job'[p].id = job[p].id
                      /\ job'[p].proof = job[p].proof /\ job'[p].node = job[p].node
                      /\ job'[p].second <=> job[p].second
                      /\ job'[p].known => job[p].known /\ job[p].id # i
    OBVIOUS
  <2> DEFINE k == job[p].known /\ job[p].id # i
  <2>1. k \in BOOLEAN /\ (k => job[p].known /\ job[p].id # i)
    OBVIOUS
  <2>2. job'[p] = [job[p] EXCEPT !.known = k] /\ job[p] \in Job
    BY <1>2 DEF IInv, Types
  <2> HIDE DEF k
  <2> QED BY <2>1, <2>2 DEF Job
<1>4. job' \in [Profiles -> Job]
  BY <1>2, <1>3
<1> QED BY <1>1, <1>3, <1>4, ForgottenIInv DEF IInv, Types

LEMMA OutageIInv == ASSUME IInv, Outage PROVE IInv'
<1>1. /\ UNCHANGED <<redis, wired, cfg, used>>
      /\ job' = [p \in Profiles |-> [job[p] EXCEPT !.known = FALSE]]
  BY DEF Outage
<1>2. \A p \in Profiles :
        /\ job'[p] \in Job
        /\ job'[p].phase = job[p].phase /\ job'[p].id = job[p].id
        /\ job'[p].proof = job[p].proof /\ job'[p].node = job[p].node
        /\ job'[p].second <=> job[p].second
        /\ ~job'[p].known
  BY <1>1 DEF IInv, Types, Job
<1>3. job' \in [Profiles -> Job]
  BY <1>1, <1>2
<1> QED BY <1>1, <1>2, <1>3, ForgottenIInv DEF IInv, Types

LEMMA RestartIInv ==
  ASSUME IInv, NEW n \in Nodes, Restart(n)
  PROVE  IInv'
<1> DEFINE S == {p \in Profiles : job[p].node = n}
<1>1. /\ UNCHANGED <<up, redis, cfg, used>> /\ wired' = wired \ {n}
      /\ job' = [p \in Profiles |-> IF p \in S THEN Idle ELSE job[p]]
  BY DEF Restart
<1>2. S \in SUBSET Profiles /\ \A p \in Profiles \ S : job[p].node # n
  OBVIOUS
<1> HIDE DEF S
<1> QED BY <1>1, <1>2, DropIInv

\* Every step keeps the invariant.
LEMMA StepIInv == ASSUME IInv, [Next]_vars PROVE IInv'
<1>1. ASSUME NEW p \in Profiles, NEW client \in Names \cup {""}, NEW force \in BOOLEAN, Ask(p, client, force)
      PROVE  IInv'
  BY <1>1, AskIInv
<1>2. ASSUME NEW p \in Profiles, NEW i \in Names, SetClientId(p, i) PROVE IInv'
  BY <1>2, SetClientIdIInv
<1>3. ASSUME NEW p \in Profiles, Handler(p) \/ TokenExpires(p) PROVE IInv'
  BY <1>3, CheckIInv, IssueIInv, GrantedIInv, TakenIInv, TokenExpiresIInv DEF Handler
<1>4. ASSUME NEW p \in Profiles, AnswerLost(p) PROVE IInv'
  <2>1. job' = [q \in Profiles |-> IF q \in {p} THEN Idle ELSE job[q]]
    BY <1>4 DEF AnswerLost, IInv, Types
  <2>2. UNCHANGED <<up, redis, wired, cfg, used>>
    BY <1>4 DEF AnswerLost
  <2> QED BY <2>1, <2>2, DropIInv
<1>5. ASSUME NEW n \in Nodes, Restart(n) PROVE IInv'
  BY <1>5, RestartIInv
<1>6. ASSUME NEW n \in Nodes, NEW i \in Ids, Forget(n, i) PROVE IInv'
  BY <1>6, ForgetIInv
<1>7. CASE Outage
  BY <1>7, OutageIInv
<1>8. CASE \/ \E n \in Nodes : Wire(n) \/ \E i \in Names : AdminGenerate(n, i)
           \/ Recover \/ UNCHANGED vars
  BY <1>8, ServerIInv
<1> QED BY <1>1, <1>2, <1>3, <1>4, <1>5, <1>6, <1>7, <1>8 DEF Next

-----------------------------------------------------------------------------
LEMMA IInvHolds == Spec => []IInv
<1>1. Init => IInv
  BY InitIInv
<1>2. IInv /\ [Next]_vars => IInv'
  BY StepIInv
<1> QED BY <1>1, <1>2, PTL DEF Spec

\* server.js:63-64 and hostnames.js:301-304: in every state, whatever the nodes, an id
\* that was known when the request was sent is decided on only against proof.
THEOREM IssuedIdsAreProtected == Spec => []IssuedIdsProtected
<1>1. IInv => IssuedIdsProtected
  BY DEF IInv
<1> QED BY <1>1, IInvHolds, PTL

\* api.ts:198-200: a profile gives its id up only to a forced init whose id was refused
\* and that held no valid token for it.
THEOREM IdentitiesAreKept == Spec => IdentityKept
<1>1. IInv => (\A p \in Profiles :
         Granted(p) /\ cfg[p].id # "" /\ cfg[p].id # cfg'[p].id
           => job[p].second /\ ~(cfg[p].valid /\ cfg[p].token = cfg[p].id))
  <2> SUFFICES ASSUME IInv, NEW p \in Profiles, Granted(p), cfg[p].id # "", cfg[p].id # cfg'[p].id
               PROVE  job[p].second /\ ~(cfg[p].valid /\ cfg[p].token = cfg[p].id)
    OBVIOUS
  <2>1. job[p].phase = "granted" /\ cfg' = [cfg EXCEPT ![p] = Saved(p)]
    BY DEF Granted
  <2>2. cfg'[p].id = job[p].id
    BY <2>1 DEF Saved, IInv, Types
  <2>3. job[p].second
    BY <2>1, <2>2 DEF IInv, Loyal, First
  <2> QED BY <2>1, <2>3 DEF IInv, Loyal, Second
<1> QED BY <1>1, IInvHolds, PTL DEF IdentityKept
=============================================================================
