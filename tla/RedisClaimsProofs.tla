--------------------------- MODULE RedisClaimsProofs ---------------------------
(***************************************************************************)
(* The claims of any number of connections and nodes in one Redis: what a  *)
(* command that hits a name nobody changed meanwhile can rely on.          *)
(***************************************************************************)
EXTENDS RedisClaims, TLAPS

Key == [owner : Owners, lease : BOOLEAN]
Shake == {h \in [owner : Owners, names : Seq(Names)] : h.names # <<>>}
ClaimProgram == [at : {"idle", "setnx", "get", "set", "persist", "done"},
                 i : Nat, saw : Owners \cup {None}]
ReleaseProgram == [at : {"idle", "get", "del", "expire"}, i : Nat, saw : Owners \cup {None}]

Types ==
  /\ store \in [Names -> Key \cup {None}] /\ wired \in [Nodes -> BOOLEAN]
  /\ hs \in [Sockets -> Shake \cup {None}]
  /\ phase \in [Sockets -> {"new", "claiming", "open", "gone"}]
  /\ claim \in [Sockets -> ClaimProgram] /\ release \in [Sockets -> ReleaseProgram]

\* The programs of a connection with handshake h in phase ph, its node having reached
\* Redis (w) or not.
Programs(h, ph, c, r, w) ==
  /\ ph = "new" <=> h = None
  /\ ph = "new" => c = Idle
  /\ ph # "gone" => r = Idle
  /\ c.at # "idle" => h # None /\ w
  /\ c.at = "done" => ph = "open"
  /\ ph = "claiming" => c.at # "idle"
  /\ c.at \notin {"idle", "done"} => c.i \in 1..Len(h.names)
  /\ c.at = "set" => c.saw \in EphemeralOwners
  /\ r.at # "idle" => h # None /\ r.i \in 1..Len(h.names)
  /\ r.at = "del" /\ claim_ttl > 0 => r.saw = None \/ r.saw \in EphemeralOwners

ProgramsOK ==
  \A s \in Sockets : Programs(hs[s], phase[s], claim[s], release[s], wired[NodeOf[s]])

\* The names a connection's claim is done with, the one it has just set, and those
\* its release has not come to yet.
Settled(s) ==
  IF claim[s].at = "done" THEN NamesOf(s)
  ELSE IF Running(claim[s]) THEN FirstNames(s, claim[s].i - 1) ELSE {}
Current(s) == IF claim[s].at = "persist" THEN {ClaimName(s)} ELSE {}
Unreleased(s) ==
  IF Running(release[s]) THEN NamesOf(s) \ FirstNames(s, release[s].i - 1) ELSE {}

\* A durable connection that is not gone has the keys its claim is done with.
Keeps ==
  \A n \in Names \ disturbed : \A s \in Sockets :
    phase[s] \in {"claiming", "open"} /\ n \in Settled(s) /\ Durable(OwnerOf(s))
      => store[n] = [owner |-> OwnerOf(s), lease |-> FALSE]

\* Connection s will see to it that n gets a time to live.
Supports(n, s) ==
  /\ hs[s] # None /\ OwnerOf(s) = store[n].owner
  /\ n \in Settled(s) \cup Current(s) \cup Unreleased(s)

Supported ==
  \A n \in Names \ (orphaned \cup disturbed) :
    store[n] # None => store[n].lease \/ \E s \in Sockets : Supports(n, s)

IInv == Types /\ ProgramsOK /\ Keeps /\ Supported

LEMMA NoneFacts ==
  /\ None \notin Key /\ None \notin Owners /\ EphemeralOwners \subseteq Owners
  /\ \A s \in Sockets : Handshakes[s] \subseteq Shake /\ None \notin Handshakes[s]
  /\ \A s \in Sockets : NodeOf[s] \in Nodes
BY NameClaimsAssumption, RedisClaimsAssumption DEF NameClaimsAssumption, RedisClaimsAssumption, Key, Shake

LEMMA IdleFacts == /\ Idle \in ClaimProgram /\ Idle \in ReleaseProgram
                   /\ Idle.at = "idle" /\ Idle.i = 1
BY DEF Idle, ClaimProgram, ReleaseProgram

LEMMA NextProgram ==
  ASSUME NEW j \in Nat
  PROVE  LET c == [Idle EXCEPT !.at = "setnx", !.i = j] IN
         c.at = "setnx" /\ c.i = j /\ c \in ClaimProgram
BY DEF Idle, ClaimProgram

LEMMA NextRelease ==
  ASSUME NEW j \in Nat
  PROVE  LET r == [Idle EXCEPT !.at = "get", !.i = j] IN
         r.at = "get" /\ r.i = j /\ r \in ReleaseProgram
BY DEF Idle, ReleaseProgram

LEMMA InitIInv == ASSUME Init PROVE IInv
<1>1. /\ store = [n \in Names |-> None] /\ wired = [m \in Nodes |-> FALSE]
      /\ hs = [s \in Sockets |-> None] /\ phase = [s \in Sockets |-> "new"]
      /\ claim = [s \in Sockets |-> Idle] /\ release = [s \in Sockets |-> Idle]
  BY DEF Init
<1>2. Types
  BY <1>1, IdleFacts DEF Types
<1>3. \A s \in Sockets : Programs(None, "new", Idle, Idle, wired[NodeOf[s]])
  BY IdleFacts DEF Programs
<1>4. ProgramsOK
  BY <1>1, <1>3 DEF ProgramsOK
<1>5. Keeps /\ Supported
  BY <1>1 DEF Keeps, Supported
<1> QED BY <1>2, <1>4, <1>5 DEF IInv

\* A handshake's names.
LEMMA FirstNamesParts ==
  ASSUME NEW s \in Sockets, hs[s] \in Shake
  PROVE  /\ OwnerOf(s) \in Owners /\ Len(hs[s].names) \in Nat \ {0}
         /\ FirstNames(s, 0) = {} /\ FirstNames(s, 1 - 1) = {}
         /\ \A k \in 1..Len(hs[s].names) :
              /\ hs[s].names[k] \in Names
              /\ FirstNames(s, k) = FirstNames(s, k - 1) \cup {hs[s].names[k]}
              /\ FirstNames(s, k) \subseteq NamesOf(s) /\ FirstNames(s, k - 1) \subseteq NamesOf(s)
              /\ FirstNames(s, (k + 1) - 1) = FirstNames(s, k)
<1>1. /\ hs[s].owner \in Owners /\ hs[s].names \in Seq(Names) /\ hs[s].names # <<>>
  BY DEF Shake
<1>2. Len(hs[s].names) \in Nat \ {0}
  BY <1>1
<1>3. FirstNames(s, 0) = {} /\ FirstNames(s, 1 - 1) = {}
  BY DEF FirstNames
<1>4. ASSUME NEW k \in 1..Len(hs[s].names)
      PROVE  /\ hs[s].names[k] \in Names
             /\ FirstNames(s, k) = FirstNames(s, k - 1) \cup {hs[s].names[k]}
             /\ FirstNames(s, k) \subseteq NamesOf(s) /\ FirstNames(s, k - 1) \subseteq NamesOf(s)
             /\ FirstNames(s, (k + 1) - 1) = FirstNames(s, k)
  <2>1. hs[s].names[k] \in Names
    BY <1>1
  <2>2. 1..k = (1..(k - 1)) \cup {k} /\ 1..k \subseteq 1..Len(hs[s].names) /\ (k + 1) - 1 = k
    BY <1>2
  <2>3. FirstNames(s, k) = FirstNames(s, k - 1) \cup {hs[s].names[k]}
    BY <2>2 DEF FirstNames
  <2>4. FirstNames(s, k) \subseteq NamesOf(s)
    BY <2>2 DEF FirstNames, NamesOf
  <2>5. FirstNames(s, (k + 1) - 1) = FirstNames(s, k)
    BY <2>2
  <2> QED BY <2>1, <2>3, <2>4, <2>5
<1> QED BY <1>1, <1>2, <1>3, <1>4 DEF OwnerOf

\* What a connection's programs have done depends on them and its handshake only.
LEMMA SameSets ==
  ASSUME NEW s \in Sockets, hs'[s] = hs[s], claim'[s] = claim[s], release'[s] = release[s]
  PROVE  /\ Settled(s)' = Settled(s) /\ Current(s)' = Current(s) /\ Unreleased(s)' = Unreleased(s)
         /\ OwnerOf(s)' = OwnerOf(s) /\ NamesOf(s)' = NamesOf(s)
BY DEF Settled, Current, Unreleased, OwnerOf, NamesOf, FirstNames, ClaimName, Running

\* Who has n, among the connections that are not gone.
Has(n, s) == phase[s] \in {"claiming", "open"} /\ n \in Settled(s) /\ Durable(OwnerOf(s))

\* The step of one connection keeps the invariant if what the others have is left alone
\* or disturbed, and so is what it has itself.
LEMMA OneConnection ==
  ASSUME IInv, NEW s \in Sockets, Types', UNCHANGED <<hs, wired>>,
         \A q \in Sockets \ {s} : phase'[q] = phase[q] /\ claim'[q] = claim[q] /\ release'[q] = release[q],
         Programs(hs[s], phase'[s], claim'[s], release'[s], wired[NodeOf[s]]),
         disturbed \subseteq disturbed', orphaned \subseteq orphaned',
         \A n \in Names \ disturbed', q \in Sockets \ {s} :
           Has(n, q) => store'[n] = [owner |-> OwnerOf(q), lease |-> FALSE],
         \A n \in Names \ disturbed' :
           Has(n, s)' => store'[n] = [owner |-> OwnerOf(s), lease |-> FALSE],
         \A n \in Names \ (orphaned' \cup disturbed') :
           store'[n] # None =>
             \/ store'[n].lease \/ Supports(n, s)'
             \/ store'[n].owner = store[n].owner /\ \E q \in Sockets \ {s} : Supports(n, q)
  PROVE  IInv'
<1>1. \A q \in Sockets \ {s} :
        /\ Settled(q)' = Settled(q) /\ Current(q)' = Current(q) /\ Unreleased(q)' = Unreleased(q)
        /\ OwnerOf(q)' = OwnerOf(q) /\ phase'[q] = phase[q] /\ hs'[q] = hs[q]
  BY SameSets
<1>2. ProgramsOK'
  BY DEF IInv, ProgramsOK
<1>3. OwnerOf(s)' = OwnerOf(s)
  BY DEF OwnerOf
<1>4. ASSUME NEW n \in Names \ disturbed', NEW q \in Sockets,
             phase'[q] \in {"claiming", "open"}, n \in Settled(q)', Durable(OwnerOf(q)')
      PROVE  store'[n] = [owner |-> OwnerOf(q)', lease |-> FALSE]
  <2>1. CASE q = s
    BY <1>3, <1>4, <2>1 DEF Has
  <2>2. CASE q # s
    BY <1>1, <1>4, <2>2 DEF Has
  <2> QED BY <2>1, <2>2
<1>5. Keeps'
  BY <1>4 DEF Keeps
<1>6. ASSUME NEW n \in Names \ (orphaned' \cup disturbed'), store'[n] # None, ~store'[n].lease
      PROVE  \E q \in Sockets : Supports(n, q)'
  <2>1. CASE Supports(n, s)'
    BY <2>1
  <2>2. CASE store'[n].owner = store[n].owner /\ \E q \in Sockets \ {s} : Supports(n, q)
    BY <1>1, <2>2 DEF Supports
  <2> QED BY <1>6, <2>1, <2>2
<1>7. Supported'
  BY <1>6 DEF Supported
<1> QED BY <1>2, <1>5, <1>7 DEF IInv

-----------------------------------------------------------------------------
\* The commands of a claim.
LEMMA ClaimFacts ==
  ASSUME IInv, NEW s \in Sockets, Running(claim[s])
  PROVE  /\ hs[s] \in Shake /\ hs[s] # None /\ OwnerOf(s) \in Owners /\ ClaimName(s) \in Names
         /\ claim[s] \in ClaimProgram /\ claim[s].i \in 1..Len(hs[s].names)
         /\ Len(hs[s].names) \in Nat /\ wired[NodeOf[s]]
         /\ Settled(s) = FirstNames(s, claim[s].i - 1)
         /\ Settled(s) \subseteq NamesOf(s) /\ ClaimName(s) \in NamesOf(s)
         /\ FirstNames(s, claim[s].i) = Settled(s) \cup {ClaimName(s)}
         /\ phase[s] \in {"claiming", "open", "gone"}
<1>1. claim[s].at \notin {"idle", "done"}
  BY DEF Running
<1>2. /\ hs[s] # None /\ claim[s].i \in 1..Len(hs[s].names) /\ wired[NodeOf[s]]
      /\ hs[s] \in Shake /\ claim[s] \in ClaimProgram
  BY <1>1 DEF IInv, Types, ProgramsOK, Programs
<1>3. Settled(s) = FirstNames(s, claim[s].i - 1)
  BY <1>1 DEF Settled, Running
<1>4. phase[s] # "new"
  BY <1>2 DEF IInv, ProgramsOK, Programs
<1>5. phase[s] \in {"claiming", "open", "gone"}
  BY <1>4 DEF IInv, Types
<1> QED BY <1>2, <1>3, <1>5, FirstNamesParts DEF ClaimName

\* Within one name's commands a claim goes on with the same name.
LEMMA SameName ==
  ASSUME IInv, NEW s \in Sockets, Running(claim[s]), claim[s].at # "persist",
         NEW c \in ClaimProgram, claim' = [claim EXCEPT ![s] = c], c.i = claim[s].i,
         c.at \in {"get", "set", "persist"}, c.at = "set" => c.saw \in EphemeralOwners,
         UNCHANGED <<hs, phase, release, wired>>
  PROVE  /\ claim' \in [Sockets -> ClaimProgram]
         /\ \A q \in Sockets \ {s} : claim'[q] = claim[q]
         /\ Programs(hs[s], phase'[s], claim'[s], release'[s], wired[NodeOf[s]])
         /\ Settled(s)' = Settled(s) /\ Unreleased(s)' = Unreleased(s) /\ Current(s) = {}
         /\ c.at = "persist" => Current(s)' = {ClaimName(s)}
<1>1. /\ claim' \in [Sockets -> ClaimProgram] /\ claim'[s] = c
      /\ \A q \in Sockets \ {s} : claim'[q] = claim[q]
  BY DEF IInv, Types
<1>2. Programs(hs[s], phase[s], claim[s], release[s], wired[NodeOf[s]])
  BY DEF IInv, ProgramsOK
<1>3. Programs(hs[s], phase[s], c, release[s], wired[NodeOf[s]])
  BY <1>2 DEF Programs, Running, Idle
<1>4. Settled(s)' = Settled(s)
  BY <1>1 DEF Settled, Running, FirstNames
<1>5. Unreleased(s)' = Unreleased(s)
  BY DEF Unreleased, NamesOf, FirstNames, Running
<1>6. Current(s) = {} /\ (c.at = "persist" => Current(s)' = {ClaimName(s)})
  BY <1>1 DEF Current, ClaimName
<1> QED BY <1>1, <1>3, <1>4, <1>5, <1>6

\* The key of n is set for s, whose claim has come to PERSIST.
LEMMA SetIInv ==
  ASSUME IInv, NEW s \in Sockets, Running(claim[s]), claim[s].at # "persist",
         NEW c \in ClaimProgram, claim' = [claim EXCEPT ![s] = c], c.i = claim[s].i, c.at = "persist",
         store' = [store EXCEPT ![ClaimName(s)] = [owner |-> OwnerOf(s), lease |-> FALSE]],
         disturbed \subseteq disturbed', UNCHANGED <<hs, phase, release, wired, orphaned>>,
         ClaimName(s) \notin disturbed' =>
           store[ClaimName(s)] = None \/ store[ClaimName(s)].owner \in EphemeralOwners
  PROVE  IInv'
<1>0. PICK n \in Names : n = ClaimName(s)
  BY ClaimFacts
<1> DEFINE k == [owner |-> OwnerOf(s), lease |-> FALSE]
<1>1. OwnerOf(s) \in Owners /\ hs[s] # None
  BY ClaimFacts
<1>2. k \in Key /\ k.owner = OwnerOf(s) /\ store' = [store EXCEPT ![n] = k]
  BY <1>0, <1>1 DEF Key
<1>3. /\ store' \in [Names -> Key \cup {None}] /\ store'[n] = k
      /\ \A m \in Names \ {n} : store'[m] = store[m]
  BY <1>1, <1>2 DEF IInv, Types
<1>4. /\ claim' \in [Sockets -> ClaimProgram]
      /\ \A q \in Sockets \ {s} : claim'[q] = claim[q]
      /\ Programs(hs[s], phase'[s], claim'[s], release'[s], wired[NodeOf[s]])
      /\ Settled(s)' = Settled(s) /\ Unreleased(s)' = Unreleased(s) /\ Current(s) = {}
      /\ Current(s)' = {n}
  BY <1>0, SameName
<1>5. Types'
  BY <1>3, <1>4 DEF IInv, Types
<1>6. n \in Names \ disturbed' => \A q \in Sockets : ~Has(n, q)
  <2> SUFFICES ASSUME n \in Names \ disturbed', NEW q \in Sockets, Has(n, q)
               PROVE  FALSE
    OBVIOUS
  <2>1. store[n] = [owner |-> OwnerOf(q), lease |-> FALSE]
    BY DEF IInv, Keeps, Has
  <2>2. hs[q] \in Shake
    BY DEF Has, IInv, Types, ProgramsOK, Programs
  <2>3. OwnerOf(q) \in Owners \ EphemeralOwners
    BY <2>2, FirstNamesParts DEF Has, Durable, isEphemeralOwner
  <2>4. store[n] \in Key /\ store[n].owner \notin EphemeralOwners
    BY <2>1, <2>3 DEF Key
  <2> QED BY <1>0, <2>4, NoneFacts
<1>7. \A m \in Names \ disturbed', q \in Sockets \ {s} :
        Has(m, q) => store'[m] = [owner |-> OwnerOf(q), lease |-> FALSE]
  BY <1>3, <1>6 DEF IInv, Keeps, Has
<1>8. \A m \in Names \ disturbed' :
        Has(m, s)' => store'[m] = [owner |-> OwnerOf(s), lease |-> FALSE]
  <2>1. \A m \in Names : Has(m, s)' => Has(m, s)
    BY <1>4 DEF Has, OwnerOf
  <2> QED BY <1>3, <1>6, <2>1 DEF IInv, Keeps, Has
<1>9. \A m \in Names \ (orphaned' \cup disturbed') :
        store'[m] # None =>
          \/ store'[m].lease \/ Supports(m, s)'
          \/ store'[m].owner = store[m].owner /\ \E q \in Sockets \ {s} : Supports(m, q)
  <2> SUFFICES ASSUME NEW m \in Names \ (orphaned' \cup disturbed'), store'[m] # None, ~store'[m].lease,
                      ~Supports(m, s)'
               PROVE  store'[m].owner = store[m].owner /\ \E q \in Sockets \ {s} : Supports(m, q)
    OBVIOUS
  <2>1. m # n
    <3>1. Supports(n, s)'
      BY <1>1, <1>2, <1>3, <1>4 DEF Supports, OwnerOf
    <3> QED BY <3>1
  <2>2. store'[m] = store[m]
    BY <1>3, <2>1
  <2>3. PICK q \in Sockets : Supports(m, q)
    BY <2>2 DEF IInv, Supported
  <2>4. q # s
    BY <1>4, <2>2, <2>3 DEF Supports, OwnerOf
  <2> QED BY <2>2, <2>3, <2>4
<1> QED BY <1>4, <1>5, <1>7, <1>8, <1>9, OneConnection

\* A command that only reads, or writes what is there already.
LEMMA ReadIInv ==
  ASSUME IInv, NEW s \in Sockets, Running(claim[s]), claim[s].at # "persist",
         NEW c \in ClaimProgram, claim' = [claim EXCEPT ![s] = c], c.i = claim[s].i,
         c.at \in {"get", "set", "persist"}, c.at = "set" => c.saw \in EphemeralOwners,
         UNCHANGED <<store, hs, phase, release, wired, disturbed, orphaned>>
  PROVE  IInv'
<1>1. /\ claim' \in [Sockets -> ClaimProgram]
      /\ \A q \in Sockets \ {s} : claim'[q] = claim[q]
      /\ Programs(hs[s], phase'[s], claim'[s], release'[s], wired[NodeOf[s]])
      /\ Settled(s)' = Settled(s) /\ Unreleased(s)' = Unreleased(s) /\ Current(s) = {}
  BY SameName
<1>2. Types'
  BY <1>1 DEF IInv, Types
<1>3. \A m \in Names : Has(m, s)' => Has(m, s)
  BY <1>1 DEF Has, OwnerOf
<1>4. \A m \in Names \ disturbed', q \in Sockets :
        Has(m, q) => store'[m] = [owner |-> OwnerOf(q), lease |-> FALSE]
  BY DEF IInv, Keeps, Has
<1>5. \A m \in Names : Supports(m, s) => Supports(m, s)'
  BY <1>1 DEF Supports, OwnerOf
<1>6. \A m \in Names \ (orphaned' \cup disturbed') :
        store'[m] # None =>
          \/ store'[m].lease \/ Supports(m, s)'
          \/ store'[m].owner = store[m].owner /\ \E q \in Sockets \ {s} : Supports(m, q)
  BY <1>5 DEF IInv, Supported
<1>7. \A m \in Names \ disturbed' :
        Has(m, s)' => store'[m] = [owner |-> OwnerOf(s), lease |-> FALSE]
  BY <1>3, <1>4
<1> QED BY <1>1, <1>2, <1>4, <1>6, <1>7, OneConnection

LEMMA SetNXIInv == ASSUME IInv, NEW s \in Sockets, SetNX(s) PROVE IInv'
<1> DEFINE c == [claim[s] EXCEPT !.at = "persist"]
           d == [claim[s] EXCEPT !.at = "get"]
<1>1. /\ claim[s].at = "setnx" /\ UNCHANGED <<phase, disturbed, orphaned, wired, hs, release>>
      /\ Running(claim[s])
  BY DEF SetNX, ClaimRest, Running
<1>2. claim[s] \in ClaimProgram
  BY DEF IInv, Types
<1>3. /\ c \in ClaimProgram /\ c.i = claim[s].i /\ c.at = "persist"
      /\ d \in ClaimProgram /\ d.i = claim[s].i /\ d.at = "get"
  BY <1>2 DEF ClaimProgram
<1>4. /\ [claim EXCEPT ![s].at = "persist"] = [claim EXCEPT ![s] = c]
      /\ [claim EXCEPT ![s].at = "get"] = [claim EXCEPT ![s] = d]
  OBVIOUS
<1> HIDE DEF c, d
<1>5. CASE store[ClaimName(s)] = None
  BY <1>1, <1>3, <1>4, <1>5, SetIInv DEF SetNX
<1>6. CASE store[ClaimName(s)] # None
  BY <1>1, <1>3, <1>4, <1>6, ReadIInv DEF SetNX
<1> QED BY <1>5, <1>6

LEMMA SetOwnerIInv == ASSUME IInv, NEW s \in Sockets, SetOwner(s) PROVE IInv'
<1> DEFINE c == [claim[s] EXCEPT !.at = "persist", !.saw = None]
<1>1. /\ claim[s].at = "set" /\ UNCHANGED <<phase, orphaned, wired, hs, release>>
      /\ store' = [store EXCEPT ![ClaimName(s)] = [owner |-> OwnerOf(s), lease |-> FALSE]]
      /\ disturbed' = IF HeldBy(ClaimName(s), claim[s].saw) THEN disturbed
                      ELSE disturbed \cup {ClaimName(s)}
      /\ Running(claim[s])
  BY DEF SetOwner, ClaimRest, Running
<1>2. claim[s] \in ClaimProgram
  BY DEF IInv, Types
<1>3. c \in ClaimProgram /\ c.i = claim[s].i /\ c.at = "persist"
  BY <1>2 DEF ClaimProgram
<1>4. claim' = [claim EXCEPT ![s] = c]
  BY DEF SetOwner
<1> HIDE DEF c
<1>5. ClaimName(s) \notin disturbed' =>
        store[ClaimName(s)] = None \/ store[ClaimName(s)].owner \in EphemeralOwners
  <2>1. claim[s].saw \in EphemeralOwners
    BY <1>1 DEF IInv, ProgramsOK, Programs
  <2> QED BY <1>1, <2>1 DEF HeldBy, Held
<1>6. disturbed \subseteq disturbed' /\ claim[s].at # "persist"
  BY <1>1
<1> QED BY <1>1, <1>3, <1>4, <1>5, <1>6, SetIInv

\* A step that changes no key: the connection is done with no more than before,
\* and what it would have seen to is orphaned, or it will still see to it.
LEMMA ProgramIInv ==
  ASSUME IInv, NEW s \in Sockets, UNCHANGED <<store, hs, wired>>,
         phase' \in [Sockets -> {"new", "claiming", "open", "gone"}],
         claim' \in [Sockets -> ClaimProgram], release' \in [Sockets -> ReleaseProgram],
         \A q \in Sockets \ {s} : phase'[q] = phase[q] /\ claim'[q] = claim[q] /\ release'[q] = release[q],
         Programs(hs[s], phase'[s], claim'[s], release'[s], wired[NodeOf[s]]),
         disturbed \subseteq disturbed', orphaned \subseteq orphaned',
         \A n \in Names \ disturbed' : Has(n, s)' => Has(n, s),
         \A n \in Names \ (orphaned' \cup disturbed') :
           store[n] # None /\ Supports(n, s) => Supports(n, s)'
  PROVE  IInv'
<1>1. Types'
  BY DEF IInv, Types
<1>2. \A m \in Names \ disturbed', q \in Sockets :
        Has(m, q) => store'[m] = [owner |-> OwnerOf(q), lease |-> FALSE]
  BY DEF IInv, Keeps, Has
<1>3. \A m \in Names \ (orphaned' \cup disturbed') :
        store'[m] # None =>
          \/ store'[m].lease \/ Supports(m, s)'
          \/ store'[m].owner = store[m].owner /\ \E q \in Sockets \ {s} : Supports(m, q)
  BY DEF IInv, Supported
<1>4. \A m \in Names \ disturbed' :
        Has(m, s)' => store'[m] = [owner |-> OwnerOf(s), lease |-> FALSE]
  BY <1>2
<1> QED BY <1>1, <1>2, <1>3, <1>4, OneConnection

\* A claim that ends with nothing: what it has set is orphaned.
LEMMA ClaimEnds ==
  ASSUME IInv, NEW s \in Sockets, Running(claim[s]), UNCHANGED <<store, hs, wired, release>>,
         claim' = [claim EXCEPT ![s] = Idle],
         NEW ph \in {"open", "gone"}, phase' = [phase EXCEPT ![s] = ph],
         phase[s] = "open" => ph = "open", phase[s] = "gone" => ph = "gone",
         disturbed \subseteq disturbed', orphaned \subseteq orphaned',
         \A n \in (Settled(s) \cup Current(s)) \ orphaned' :
           store[n] = None \/ store[n].owner # OwnerOf(s)
  PROVE  IInv'
<1>1. /\ phase' \in [Sockets -> {"new", "claiming", "open", "gone"}] /\ phase'[s] = ph
      /\ claim' \in [Sockets -> ClaimProgram] /\ claim'[s] = Idle
      /\ release' \in [Sockets -> ReleaseProgram]
      /\ \A q \in Sockets \ {s} : phase'[q] = phase[q] /\ claim'[q] = claim[q] /\ release'[q] = release[q]
  BY IdleFacts DEF IInv, Types
<1>2. Programs(hs[s], phase[s], claim[s], release[s], wired[NodeOf[s]])
  BY DEF IInv, ProgramsOK
<1>3. Programs(hs[s], ph, Idle, release[s], wired[NodeOf[s]])
  BY <1>2, IdleFacts, ClaimFacts DEF Programs, IInv, Types
<1>4. Settled(s)' = {} /\ Unreleased(s)' = Unreleased(s)
  BY <1>1, IdleFacts DEF Settled, Unreleased, Running, NamesOf, FirstNames
<1>5. \A n \in Names : ~Has(n, s)'
  BY <1>4 DEF Has
<1>6. \A n \in Names \ (orphaned' \cup disturbed') :
        store[n] # None /\ Supports(n, s) => Supports(n, s)'
  BY <1>4 DEF Supports, OwnerOf
<1> QED BY <1>1, <1>3, <1>5, <1>6, ProgramIInv

LEMMA GetHeldIInv == ASSUME IInv, NEW s \in Sockets, GetHeld(s) PROVE IInv'
<1> DEFINE n == ClaimName(s)
           c == [claim[s] EXCEPT !.at = "persist"]
           d == [claim[s] EXCEPT !.at = "set", !.saw = Held(n)]
<1>1. /\ claim[s].at = "get" /\ UNCHANGED <<store, disturbed, wired, hs, release>>
      /\ Running(claim[s])
  BY DEF GetHeld, ClaimRest, Running
<1>2. claim[s] \in ClaimProgram
  BY DEF IInv, Types
<1>3. /\ c \in ClaimProgram /\ c.i = claim[s].i /\ c.at = "persist"
      /\ d.i = claim[s].i /\ d.at = "set" /\ d.saw = Held(n)
      /\ Held(n) \in EphemeralOwners => d \in ClaimProgram
  BY <1>2, NoneFacts DEF ClaimProgram
<1>4. /\ [claim EXCEPT ![s].at = "persist"] = [claim EXCEPT ![s] = c]
      /\ [claim EXCEPT ![s].at = "set", ![s].saw = Held(n)] = [claim EXCEPT ![s] = d]
  OBVIOUS
<1> HIDE DEF c, d
<1>5. CASE Held(n) \in {None, OwnerOf(s)}
  BY <1>1, <1>3, <1>4, <1>5, ReadIInv DEF GetHeld
<1>6. CASE Held(n) \notin {None, OwnerOf(s)} /\ isEphemeralOwner(Held(n))
  BY <1>1, <1>3, <1>4, <1>6, ReadIInv DEF GetHeld, isEphemeralOwner
<1>7. CASE Held(n) \notin {None, OwnerOf(s)} /\ ~isEphemeralOwner(Held(n))
  <2>1. /\ claim' = [claim EXCEPT ![s] = Idle]
        /\ phase' = IF phase[s] = "claiming" THEN [phase EXCEPT ![s] = "gone"] ELSE phase
        /\ Abandons(s, FirstNames(s, claim[s].i - 1))
    BY <1>7 DEF GetHeld
  <2> DEFINE ph == IF phase[s] = "claiming" THEN "gone" ELSE phase[s]
  <2>2. phase[s] \in {"claiming", "open", "gone"}
    BY <1>1, ClaimFacts
  <2>3. phase' = [phase EXCEPT ![s] = ph] /\ ph \in {"open", "gone"}
    BY <2>1, <2>2 DEF IInv, Types
  <2>4. \A m \in (Settled(s) \cup Current(s)) \ orphaned' :
          store[m] = None \/ store[m].owner # OwnerOf(s)
    <3>1. Current(s) = {} /\ Settled(s) = FirstNames(s, claim[s].i - 1)
      BY <1>1, ClaimFacts DEF Current
    <3> QED BY <2>1, <3>1 DEF Abandons, HeldBy, Held
  <2>5. orphaned \subseteq orphaned'
    BY <2>1 DEF Abandons
  <2> QED BY <1>1, <2>1, <2>2, <2>3, <2>4, <2>5, ClaimEnds
<1> QED BY <1>5, <1>6, <1>7

LEMMA LocalAnswer ==
  ASSUME NEW s, ClaimLocally(s, hs[s])
  PROVE  \E ph \in {"open", "gone"} : phase' = [phase EXCEPT ![s] = ph]
BY DEF ClaimLocally

\* The handshake is answered, or its client leaves, while the claim runs on.
LEMMA AnswerIInv ==
  ASSUME IInv, NEW s \in Sockets, ClaimTimesOut(s) \/ Leave(s)
  PROVE  IInv'
<1>1. phase[s] = "claiming" /\ UNCHANGED <<hs, store, wired, claim, release, disturbed, orphaned>>
  BY DEF ClaimTimesOut, Leave
<1>2. PICK ph \in {"open", "gone"} : phase' = [phase EXCEPT ![s] = ph]
  BY LocalAnswer DEF ClaimTimesOut, Leave
<1>3. /\ phase' \in [Sockets -> {"new", "claiming", "open", "gone"}] /\ phase'[s] = ph
      /\ claim' \in [Sockets -> ClaimProgram] /\ release' \in [Sockets -> ReleaseProgram]
      /\ \A q \in Sockets \ {s} : phase'[q] = phase[q] /\ claim'[q] = claim[q] /\ release'[q] = release[q]
  BY <1>1, <1>2 DEF IInv, Types
<1>4. Programs(hs[s], phase[s], claim[s], release[s], wired[NodeOf[s]])
  BY DEF IInv, ProgramsOK
<1>5. Programs(hs[s], ph, claim[s], release[s], wired[NodeOf[s]])
  BY <1>1, <1>4 DEF Programs
<1>6. /\ Settled(s)' = Settled(s) /\ Current(s)' = Current(s) /\ Unreleased(s)' = Unreleased(s)
      /\ OwnerOf(s)' = OwnerOf(s)
  BY <1>1, SameSets
<1>7. \A n \in Names : (Has(n, s)' => Has(n, s)) /\ (Supports(n, s) => Supports(n, s)')
  BY <1>1, <1>6 DEF Has, Supports
<1> QED BY <1>1, <1>3, <1>5, <1>7, ProgramIInv

LEMMA ClaimFailsIInv == ASSUME IInv, NEW s \in Sockets, ClaimFails(s) PROVE IInv'
<1>1. /\ Running(claim[s]) /\ UNCHANGED <<hs, wired, release>> /\ claim' = [claim EXCEPT ![s] = Idle]
      /\ orphaned' = orphaned \cup {m \in NamesOf(s) : store'[m] # None}
  BY DEF ClaimFails
<1>2. PICK n \in Names : n = ClaimName(s)
  BY <1>1, ClaimFacts
<1>3. /\ phase[s] \in {"claiming", "open", "gone"} /\ OwnerOf(s) \in Owners
      /\ Settled(s) \subseteq NamesOf(s) /\ Current(s) \subseteq NamesOf(s)
  BY <1>1, ClaimFacts DEF Current
<1>4. PICK ph \in {"open", "gone"} :
        /\ phase' = [phase EXCEPT ![s] = ph]
        /\ (phase[s] = "open" => ph = "open") /\ (phase[s] = "gone" => ph = "gone")
  <2>1. CASE phase[s] = "claiming"
    BY <2>1, LocalAnswer DEF ClaimFails
  <2>2. CASE phase[s] # "claiming"
    <3>1. phase' = phase /\ phase[s] \in {"open", "gone"}
      BY <1>3, <2>2 DEF ClaimFails
    <3>2. phase' = [phase EXCEPT ![s] = phase[s]]
      BY <3>1 DEF IInv, Types
    <3> QED BY <3>1, <3>2
  <2> QED BY <2>1, <2>2
<1>5. CASE store' = store
  <2>1. disturbed' = disturbed
    BY <1>5 DEF ClaimFails
  <2> QED BY <1>1, <1>3, <1>4, <1>5, <2>1, ClaimEnds
<1>6. CASE store' # store
  <2> DEFINE k == [owner |-> OwnerOf(s), lease |-> FALSE]
  <2>1. /\ claim[s].at = "set" \/ (claim[s].at = "setnx" /\ store[n] = None)
        /\ store' = [store EXCEPT ![n] = k]
        /\ disturbed' = IF store' = store \/ store[n] = None \/ HeldBy(n, claim[s].saw)
                          THEN disturbed ELSE disturbed \cup {n}
    BY <1>2, <1>6 DEF ClaimFails
  <2>2. k \in Key
    BY <1>3 DEF Key
  <2>3. /\ store' \in [Names -> Key \cup {None}] /\ store'[n] = k
        /\ \A m \in Names \ {n} : store'[m] = store[m]
    BY <2>1, <2>2 DEF IInv, Types
  <2>4. n \in Names \ disturbed' => \A q \in Sockets : ~Has(n, q)
    <3> SUFFICES ASSUME n \in Names \ disturbed', NEW q \in Sockets, Has(n, q)
                 PROVE  FALSE
      OBVIOUS
    <3>1. n \notin disturbed /\ (store[n] = None \/ HeldBy(n, claim[s].saw))
      BY <1>6, <2>1
    <3>2. store[n] = [owner |-> OwnerOf(q), lease |-> FALSE]
      BY <3>1 DEF IInv, Keeps, Has
    <3>3. hs[q] \in Shake
      BY DEF Has, IInv, Types, ProgramsOK, Programs
    <3>4. OwnerOf(q) \in Owners \ EphemeralOwners
      BY <3>3, FirstNamesParts DEF Has, Durable, isEphemeralOwner
    <3>5. store[n] \in Key /\ store[n].owner \notin EphemeralOwners
      BY <3>2, <3>4 DEF Key
    <3>6. claim[s].at = "set" /\ store[n].owner = claim[s].saw
      BY <2>1, <3>1, <3>5, NoneFacts DEF HeldBy, Held
    <3>7. claim[s].saw \in EphemeralOwners
      BY <3>6 DEF IInv, ProgramsOK, Programs
    <3> QED BY <3>5, <3>6, <3>7
  <2>5. /\ claim' \in [Sockets -> ClaimProgram] /\ claim'[s] = Idle
        /\ phase' \in [Sockets -> {"new", "claiming", "open", "gone"}] /\ phase'[s] = ph
        /\ \A q \in Sockets \ {s} : phase'[q] = phase[q] /\ claim'[q] = claim[q] /\ release'[q] = release[q]
    BY <1>1, <1>4, IdleFacts DEF IInv, Types
  <2>6. Types'
    BY <1>1, <2>3, <2>5 DEF IInv, Types
  <2>7. Programs(hs[s], phase[s], claim[s], release[s], wired[NodeOf[s]])
    BY DEF IInv, ProgramsOK
  <2>8. Programs(hs[s], ph, Idle, release[s], wired[NodeOf[s]])
    BY <1>1, <1>4, <2>7, IdleFacts, ClaimFacts DEF Programs, IInv, Types
  <2>9. Settled(s)' = {} /\ Unreleased(s)' = Unreleased(s)
    BY <1>1, <2>5, IdleFacts DEF Settled, Unreleased, Running, NamesOf, FirstNames
  <2>10. \A m \in Names : ~Has(m, s)'
    BY <2>9 DEF Has
  <2>11. \A m \in Names \ disturbed', q \in Sockets \ {s} :
          Has(m, q) => store'[m] = [owner |-> OwnerOf(q), lease |-> FALSE]
    <3>1. disturbed \subseteq disturbed'
      BY <2>1
    <3> QED BY <2>3, <2>4, <3>1 DEF IInv, Keeps, Has
  <2>12. ASSUME NEW m \in Names \ (orphaned' \cup disturbed'), store'[m] # None, ~store'[m].lease,
                ~Supports(m, s)'
         PROVE  store'[m].owner = store[m].owner /\ \E q \in Sockets \ {s} : Supports(m, q)
    <3>1. m \notin NamesOf(s) /\ m \notin orphaned /\ m \notin disturbed
      BY <1>1, <2>1, <2>12
    <3>2. m # n
      BY <1>1, <1>2, <3>1, ClaimFacts
    <3>3. store'[m] = store[m]
      BY <2>3, <3>2
    <3>4. PICK q \in Sockets : Supports(m, q)
      BY <2>12, <3>1, <3>3 DEF IInv, Supported
    <3>5. q # s
      BY <1>1, <1>3, <2>9, <2>12, <3>1, <3>3, <3>4 DEF Supports, OwnerOf
    <3> QED BY <3>3, <3>4, <3>5
  <2>13. disturbed \subseteq disturbed' /\ orphaned \subseteq orphaned'
    BY <1>1, <2>1
  <2>14. Programs(hs[s], phase'[s], claim'[s], release'[s], wired[NodeOf[s]])
    BY <1>1, <2>5, <2>8
  <2>15. UNCHANGED <<hs, wired>>
    BY <1>1
  <2> QED BY <2>5, <2>6, <2>10, <2>11, <2>12, <2>13, <2>14, <2>15, OneConnection
<1> QED BY <1>5, <1>6

\* Where PERSIST leaves the programs of s: with one more name, or at their end.
LEMMA PersistSets ==
  ASSUME IInv, NEW s \in Sockets, Persist(s)
  PROVE  /\ Types' /\ \A q \in Sockets \ {s} :
              phase'[q] = phase[q] /\ claim'[q] = claim[q] /\ release'[q] = release[q]
         /\ Programs(hs[s], phase'[s], claim'[s], release'[s], wired[NodeOf[s]])
         /\ Unreleased(s)' = Unreleased(s) /\ Current(s) = {ClaimName(s)}
         /\ \/ Settled(s)' = Settled(s) \cup {ClaimName(s)}
            \/ /\ Settled(s)' = {} /\ phase'[s] = "gone"
               /\ Abandons(s, NamesOf(s))
<1>1. /\ claim[s].at = "persist" /\ Running(claim[s]) /\ UNCHANGED <<wired, hs, release>>
      /\ PersistKey(s)
  BY DEF Persist, ClaimRest, Running
<1>2. /\ hs[s] \in Shake /\ claim[s].i \in 1..Len(hs[s].names) /\ Len(hs[s].names) \in Nat
      /\ ClaimName(s) \in Names /\ FirstNames(s, claim[s].i) = Settled(s) \cup {ClaimName(s)}
      /\ phase[s] \in {"claiming", "open", "gone"} /\ hs[s] # None
  BY <1>1, ClaimFacts
<1>3. PICK n \in Names : n = ClaimName(s)
  BY <1>2
<1>4. store' \in [Names -> Key \cup {None}]
  <2>1. CASE store[n] = None
    BY <1>1, <1>3, <2>1 DEF PersistKey, IInv, Types
  <2>2. CASE store[n] # None
    <3>1. store[n] \in Key
      BY <2>2 DEF IInv, Types
    <3>2. [store[n] EXCEPT !.lease = FALSE] \in Key
      BY <3>1 DEF Key
    <3>3. store' = [store EXCEPT ![n] = [store[n] EXCEPT !.lease = FALSE]]
      BY <1>1, <1>3, <2>2 DEF PersistKey
    <3> QED BY <3>2, <3>3 DEF IInv, Types
  <2> QED BY <2>1, <2>2
<1>5. Unreleased(s)' = Unreleased(s) /\ Current(s) = {ClaimName(s)}
  BY <1>1 DEF Unreleased, Running, NamesOf, FirstNames, Current
<1>6. Programs(hs[s], phase[s], claim[s], release[s], wired[NodeOf[s]])
  BY DEF IInv, ProgramsOK
<1>7. CASE claim[s].i # Len(hs[s].names)
  <2> DEFINE c == [Idle EXCEPT !.at = "setnx", !.i = claim[s].i + 1]
  <2>1. claim' = [claim EXCEPT ![s] = c] /\ phase' = phase
    BY <1>7 DEF Persist
  <2>2. c.at = "setnx" /\ c.i = claim[s].i + 1 /\ c \in ClaimProgram
    <3>1. claim[s].i + 1 \in Nat
      BY <1>2
    <3> QED BY <3>1, NextProgram
  <2>3. claim[s].i + 1 \in 1..Len(hs[s].names)
    BY <1>2, <1>7
  <2> HIDE DEF c
  <2>4. /\ claim' \in [Sockets -> ClaimProgram] /\ claim'[s] = c
        /\ \A q \in Sockets \ {s} : claim'[q] = claim[q]
    BY <2>1, <2>2 DEF IInv, Types
  <2>5. Programs(hs[s], phase[s], c, release[s], wired[NodeOf[s]])
    BY <1>1, <1>6, <2>2, <2>3 DEF Programs
  <2>6. Settled(s)' = FirstNames(s, (claim[s].i + 1) - 1)
    BY <1>1, <2>2, <2>4 DEF Settled, Running, FirstNames
  <2>7. Settled(s)' = FirstNames(s, claim[s].i)
    BY <1>2, <2>6, FirstNamesParts
  <2>8. Types'
    BY <1>1, <1>4, <2>1, <2>4 DEF IInv, Types
  <2> QED BY <1>1, <1>2, <1>5, <2>1, <2>4, <2>5, <2>7, <2>8
<1>8. CASE claim[s].i = Len(hs[s].names)
  <2> DEFINE c == IF phase[s] = "gone" THEN Idle ELSE [Idle EXCEPT !.at = "done"]
             ph == IF phase[s] = "claiming" THEN "open" ELSE phase[s]
  <2>1. claim' = [claim EXCEPT ![s] = c]
    BY <1>8 DEF Persist
  <2>2. phase' = [phase EXCEPT ![s] = ph] /\ ph \in {"open", "gone"} /\ (ph = "gone" <=> phase[s] = "gone")
    BY <1>2, <1>8 DEF Persist, IInv, Types
  <2>3. c \in ClaimProgram /\ (ph = "gone" => c = Idle) /\ (ph # "gone" => c.at = "done")
    BY <2>2, IdleFacts DEF Idle, ClaimProgram
  <2> HIDE DEF c, ph
  <2>4. /\ claim' \in [Sockets -> ClaimProgram] /\ claim'[s] = c
        /\ phase' \in [Sockets -> {"new", "claiming", "open", "gone"}] /\ phase'[s] = ph
        /\ \A q \in Sockets \ {s} : claim'[q] = claim[q] /\ phase'[q] = phase[q]
    BY <2>1, <2>2, <2>3 DEF IInv, Types
  <2>5. Programs(hs[s], ph, c, release[s], wired[NodeOf[s]])
    BY <1>1, <1>2, <1>6, <2>2, <2>3, IdleFacts DEF Programs
  <2>6. Types'
    BY <1>1, <1>4, <2>4 DEF IInv, Types
  <2>7. CASE ph = "gone"
    <3>1. Settled(s)' = {}
      BY <2>3, <2>4, <2>7, IdleFacts DEF Settled, Running
    <3>2. Abandons(s, NamesOf(s))
      BY <1>8, <2>2, <2>7 DEF Persist
    <3> QED BY <1>1, <1>5, <2>4, <2>5, <2>6, <2>7, <3>1, <3>2
  <2>8. CASE ph # "gone"
    <3>1. Settled(s)' = FirstNames(s, claim[s].i)
      BY <1>1, <1>8, <2>3, <2>4, <2>8 DEF Settled, NamesOf, FirstNames
    <3> QED BY <1>1, <1>2, <1>5, <2>4, <2>5, <2>6, <3>1
  <2> QED BY <2>7, <2>8
<1> QED BY <1>7, <1>8

LEMMA PersistIInv == ASSUME IInv, NEW s \in Sockets, Persist(s) PROVE IInv'
<1>1. /\ Running(claim[s]) /\ UNCHANGED <<wired, hs>> /\ PersistKey(s)
      /\ disturbed' = IF HeldBy(ClaimName(s), OwnerOf(s)) THEN disturbed
                      ELSE disturbed \cup {ClaimName(s)}
      /\ phase[s] = "gone" => phase'[s] = "gone"
      /\ orphaned \subseteq orphaned'
  BY DEF Persist, ClaimRest, Running, Abandons
<1>2. /\ OwnerOf(s) \in Owners /\ OwnerOf(s)' = OwnerOf(s) /\ hs[s] # None
      /\ Settled(s) \subseteq NamesOf(s) /\ ClaimName(s) \in NamesOf(s)
      /\ phase[s] \in {"claiming", "open", "gone"}
  BY <1>1, ClaimFacts DEF OwnerOf
<1>3. PICK n \in Names : n = ClaimName(s)
  BY <1>1, ClaimFacts
<1>4. /\ Types' /\ \A q \in Sockets \ {s} :
           phase'[q] = phase[q] /\ claim'[q] = claim[q] /\ release'[q] = release[q]
      /\ Programs(hs[s], phase'[s], claim'[s], release'[s], wired[NodeOf[s]])
      /\ Unreleased(s)' = Unreleased(s) /\ Current(s) = {n}
      /\ \/ Settled(s)' = Settled(s) \cup {n}
         \/ /\ Settled(s)' = {} /\ phase'[s] = "gone"
            /\ Abandons(s, NamesOf(s))
  BY <1>3, PersistSets
<1>5. \A m \in Names \ {n} : store'[m] = store[m]
  BY <1>1, <1>3 DEF PersistKey, IInv, Types
<1>6. ASSUME store[n] # None
      PROVE  store'[n] = [owner |-> store[n].owner, lease |-> FALSE]
  <2>1. store[n] \in Key
    BY <1>6 DEF IInv, Types
  <2>2. store'[n] = [store[n] EXCEPT !.lease = FALSE]
    BY <1>1, <1>3, <1>6 DEF PersistKey, IInv, Types
  <2> QED BY <2>1, <2>2 DEF Key
<1>7. disturbed \subseteq disturbed'
  BY <1>1
<1>8. n \notin disturbed' => store[n] # None /\ store[n].owner = OwnerOf(s)
  BY <1>1, <1>2, <1>3, NoneFacts DEF HeldBy, Held
<1>9. \A m \in Names \ disturbed', q \in Sockets :
        Has(m, q) => store'[m] = [owner |-> OwnerOf(q), lease |-> FALSE]
  <2> SUFFICES ASSUME NEW m \in Names \ disturbed', NEW q \in Sockets, Has(m, q)
               PROVE  store'[m] = [owner |-> OwnerOf(q), lease |-> FALSE]
    OBVIOUS
  <2>1. store[m] = [owner |-> OwnerOf(q), lease |-> FALSE]
    BY <1>7 DEF IInv, Keeps, Has
  <2>2. CASE m = n
    <3>1. store[n].owner = OwnerOf(q)
      BY <2>1, <2>2
    <3> QED BY <1>6, <1>8, <2>2, <3>1
  <2> QED BY <1>5, <2>1, <2>2
<1>10. \A m \in Names \ disturbed' :
        Has(m, s)' => store'[m] = [owner |-> OwnerOf(s), lease |-> FALSE]
  <2>1. \A m \in Names : Has(m, s)' => m = n \/ Has(m, s)
    BY <1>1, <1>2, <1>4 DEF Has
  <2> QED BY <1>6, <1>8, <1>9, <2>1
<1>11. \A m \in Names \ (orphaned' \cup disturbed') :
        store'[m] # None =>
          \/ store'[m].lease \/ Supports(m, s)'
          \/ store'[m].owner = store[m].owner /\ \E q \in Sockets \ {s} : Supports(m, q)
  <2> SUFFICES ASSUME NEW m \in Names \ (orphaned' \cup disturbed'), store'[m] # None, ~store'[m].lease
               PROVE  \/ Supports(m, s)'
                      \/ store'[m].owner = store[m].owner /\ \E q \in Sockets \ {s} : Supports(m, q)
    OBVIOUS
  <2>0. store[m] = None \/ store[m].owner # OwnerOf(s) \/ m \notin NamesOf(s)
        \/ Settled(s)' = Settled(s) \cup {n}
    BY <1>4 DEF Abandons, HeldBy, Held
  <2>1. CASE m = n
    <3>1. store[n] # None /\ store'[n].owner = OwnerOf(s)
      BY <1>6, <1>8, <2>1
    <3>2. Settled(s)' = Settled(s) \cup {n}
      BY <1>2, <1>3, <1>8, <2>0, <2>1
    <3> QED BY <1>1, <1>2, <2>1, <3>1, <3>2 DEF Supports
  <2>2. CASE m # n
    <3>1. store'[m] = store[m]
      BY <1>5, <2>2
    <3>2. PICK q \in Sockets : Supports(m, q)
      BY <1>1, <1>7, <3>1 DEF IInv, Supported
    <3>3. CASE q = s
      BY <1>1, <1>2, <1>3, <1>4, <2>0, <3>1, <3>2, <3>3 DEF Supports
    <3> QED BY <3>1, <3>2, <3>3
  <2> QED BY <2>1, <2>2
<1> QED BY <1>1, <1>4, <1>7, <1>9, <1>10, <1>11, OneConnection

\* A connection's first claim has nothing yet.
LEMMA StartIInv ==
  ASSUME IInv, NEW s \in Sockets, NEW h \in Handshakes[s], Start(s, h)
  PROVE  IInv'
<1>1. /\ phase[s] = "new" /\ UNCHANGED <<store, wired, release, disturbed, orphaned>>
      /\ hs' = [hs EXCEPT ![s] = h]
  BY DEF Start
<1>2. h \in Shake /\ h # None
  BY NoneFacts
<1>3. hs[s] = None /\ claim[s] = Idle /\ release[s] = Idle
  BY <1>1 DEF IInv, ProgramsOK, Programs
<1>4. /\ hs' \in [Sockets -> Shake \cup {None}] /\ hs'[s] = h
      /\ \A q \in Sockets \ {s} : hs'[q] = hs[q]
  BY <1>1, <1>2 DEF IInv, Types
<1>5. 1 \in 1..Len(h.names)
  BY <1>2 DEF Shake
<1>6. PICK c \in ClaimProgram, ph \in {"claiming", "open", "gone"} :
        /\ claim' = [claim EXCEPT ![s] = c] /\ phase' = [phase EXCEPT ![s] = ph]
        /\ \/ ph = "claiming" /\ wired[NodeOf[s]] /\ c.at = "setnx" /\ c.i = 1
           \/ ph # "claiming" /\ c = Idle
  <2>1. CASE wired[NodeOf[s]]
    <3> DEFINE c == [claim[s] EXCEPT !.at = "setnx"]
    <3>1. c.at = "setnx" /\ c.i = 1 /\ c \in ClaimProgram
      BY <1>3, IdleFacts DEF ClaimProgram
    <3>2. claim' = [claim EXCEPT ![s] = c] /\ phase' = [phase EXCEPT ![s] = "claiming"]
      BY <2>1 DEF Start
    <3> QED BY <2>1, <3>1, <3>2
  <2>2. CASE ~wired[NodeOf[s]]
    <3>1. ClaimLocally(s, h) /\ claim' = claim
      BY <2>2 DEF Start
    <3>2. claim' = [claim EXCEPT ![s] = Idle]
      BY <1>3, <3>1 DEF IInv, Types
    <3>3. \E ph \in {"open", "gone"} : phase' = [phase EXCEPT ![s] = ph]
      BY <3>1 DEF ClaimLocally
    <3> QED BY <3>2, <3>3, IdleFacts
  <2> QED BY <2>1, <2>2
<1>7. /\ claim' \in [Sockets -> ClaimProgram] /\ claim'[s] = c
      /\ phase' \in [Sockets -> {"new", "claiming", "open", "gone"}] /\ phase'[s] = ph
      /\ \A q \in Sockets \ {s} : claim'[q] = claim[q] /\ phase'[q] = phase[q]
  BY <1>6 DEF IInv, Types
<1>8. Types'
  BY <1>1, <1>4, <1>7 DEF IInv, Types
<1>9. Programs(h, ph, c, Idle, wired[NodeOf[s]])
  BY <1>2, <1>5, <1>6, IdleFacts DEF Programs
<1>10. ProgramsOK'
  BY <1>1, <1>3, <1>4, <1>7, <1>9 DEF IInv, ProgramsOK
<1>11. Settled(s)' = {}
  <2>1. FirstNames(s, 1 - 1)' = {}
    BY DEF FirstNames
  <2> QED BY <1>6, <1>7, <2>1, IdleFacts DEF Settled, Running, FirstNames
<1>12. \A q \in Sockets \ {s} :
         /\ Settled(q)' = Settled(q) /\ Current(q)' = Current(q) /\ Unreleased(q)' = Unreleased(q)
         /\ OwnerOf(q)' = OwnerOf(q) /\ phase'[q] = phase[q] /\ hs'[q] = hs[q]
  BY <1>1, <1>4, <1>7, SameSets
<1>13. Keeps'
  BY <1>1, <1>11, <1>12 DEF IInv, Keeps
<1>14. \A n \in Names : ~Supports(n, s)
  BY <1>3 DEF Supports
<1>15. Supported'
  BY <1>1, <1>12, <1>14 DEF IInv, Supported, Supports
<1> QED BY <1>8, <1>10, <1>13, <1>15 DEF IInv

\* A connection that closes goes on to release its names, or to claim them and then to
\* give them up; whoever is cut off between the two has orphaned them.
LEMMA CloseIInv == ASSUME IInv, NEW s \in Sockets, Close(s) PROVE IInv'
<1> DEFINE c == IF Running(claim[s]) THEN claim[s] ELSE Idle
           r == IF wired[NodeOf[s]] THEN [release[s] EXCEPT !.at = "get"] ELSE release[s]
<1>1. /\ phase[s] = "open" /\ phase' = [phase EXCEPT ![s] = "gone"]
      /\ UNCHANGED <<hs, store, wired, disturbed>>
      /\ orphaned' = IF Running(claim[s]) THEN orphaned \cup NamesOf(s) ELSE orphaned
  BY DEF Close
<1>2. claim[s] \in ClaimProgram /\ release[s] = Idle /\ hs[s] # None /\ hs[s] \in Shake
  BY <1>1 DEF IInv, Types, ProgramsOK, Programs
<1>3. claim' = [claim EXCEPT ![s] = c] /\ c \in ClaimProgram
  BY <1>2, IdleFacts DEF Close, IInv, Types
<1>4. release' = [release EXCEPT ![s] = r]
  BY DEF Close, IInv, Types
<1>5. /\ r \in ReleaseProgram /\ r.i = 1
      /\ r.at = IF wired[NodeOf[s]] THEN "get" ELSE "idle"
  BY <1>2, IdleFacts DEF ReleaseProgram
<1>6. c.at # "done" /\ (Running(claim[s]) => c = claim[s]) /\ (~Running(claim[s]) => c = Idle)
  BY <1>2, IdleFacts DEF Running
<1> HIDE DEF c, r
<1>7. /\ phase' \in [Sockets -> {"new", "claiming", "open", "gone"}] /\ phase'[s] = "gone"
      /\ claim' \in [Sockets -> ClaimProgram] /\ claim'[s] = c
      /\ release' \in [Sockets -> ReleaseProgram] /\ release'[s] = r
      /\ \A q \in Sockets \ {s} : phase'[q] = phase[q] /\ claim'[q] = claim[q] /\ release'[q] = release[q]
  BY <1>1, <1>3, <1>4, <1>5 DEF IInv, Types
<1>8. Programs(hs[s], phase[s], claim[s], release[s], wired[NodeOf[s]])
  BY DEF IInv, ProgramsOK
<1>9. Programs(hs[s], "gone", c, r, wired[NodeOf[s]])
  <2>1. 1 \in 1..Len(hs[s].names)
    BY <1>2 DEF Shake
  <2> QED BY <1>2, <1>5, <1>6, <1>8, <2>1, IdleFacts DEF Programs
<1>10. \A n \in Names : ~Has(n, s)'
  BY <1>7 DEF Has
<1>11. \A n \in Names \ (orphaned' \cup disturbed') :
         store[n] # None /\ Supports(n, s) => Supports(n, s)'
  <2>1. Unreleased(s) = {} /\ (Settled(s) \cup Current(s)) \subseteq NamesOf(s)
    BY <1>2, IdleFacts, ClaimFacts DEF Unreleased, Settled, Current, Running
  <2>2. CASE Running(claim[s])
    BY <1>1, <2>1, <2>2 DEF Supports
  <2>3. CASE ~Running(claim[s])
    <3>1. CASE wired[NodeOf[s]]
      <4>1. Unreleased(s)' = NamesOf(s)
        BY <1>1, <1>5, <1>7, <3>1, FirstNamesParts, <1>2
        DEF Unreleased, Running, NamesOf, FirstNames
      <4> QED BY <1>1, <2>1, <4>1 DEF Supports, OwnerOf
    <3>2. CASE ~wired[NodeOf[s]]
      <4>1. claim[s].at = "idle"
        BY <1>8, <3>2 DEF Programs
      <4>2. Settled(s) = {} /\ Current(s) = {}
        BY <4>1 DEF Settled, Current, Running
      <4> QED BY <2>1, <4>2 DEF Supports
    <3> QED BY <3>1, <3>2
  <2> QED BY <2>2, <2>3
<1>12. disturbed \subseteq disturbed' /\ orphaned \subseteq orphaned'
  BY <1>1
<1>13. Programs(hs[s], phase'[s], claim'[s], release'[s], wired[NodeOf[s]])
  BY <1>7, <1>9
<1> QED BY <1>1, <1>7, <1>10, <1>11, <1>12, <1>13, ProgramIInv

-----------------------------------------------------------------------------
\* The commands of a release.
LEMMA ReleaseFacts ==
  ASSUME IInv, NEW s \in Sockets, release[s].at # "idle"
  PROVE  /\ hs[s] \in Shake /\ hs[s] # None /\ phase[s] = "gone" /\ ReleaseName(s) \in Names
         /\ release[s] \in ReleaseProgram /\ release[s].i \in 1..Len(hs[s].names)
         /\ Len(hs[s].names) \in Nat
         /\ FirstNames(s, release[s].i) = FirstNames(s, release[s].i - 1) \cup {ReleaseName(s)}
         /\ Running(release[s]) /\ Unreleased(s) = NamesOf(s) \ FirstNames(s, release[s].i - 1)
<1>1. /\ hs[s] \in Shake /\ hs[s] # None /\ release[s].i \in 1..Len(hs[s].names)
      /\ release[s] \in ReleaseProgram /\ phase[s] = "gone"
  BY IdleFacts DEF IInv, Types, ProgramsOK, Programs
<1>2. Running(release[s])
  BY <1>1 DEF Running, ReleaseProgram
<1>3. Unreleased(s) = NamesOf(s) \ FirstNames(s, release[s].i - 1)
  BY <1>2 DEF Unreleased
<1> QED BY <1>1, <1>2, <1>3, FirstNamesParts DEF ReleaseName

\* A release that goes on has every name but its present one still before it.
LEMMA ReleaseSets ==
  ASSUME IInv, NEW s \in Sockets, release[s].at # "idle", release' = AfterReleaseStep(s),
         UNCHANGED <<hs, phase, claim, wired>>
  PROVE  /\ release' \in [Sockets -> ReleaseProgram]
         /\ \A q \in Sockets \ {s} : release'[q] = release[q]
         /\ Programs(hs[s], phase'[s], claim'[s], release'[s], wired[NodeOf[s]])
         /\ Settled(s)' = Settled(s) /\ Current(s)' = Current(s) /\ OwnerOf(s)' = OwnerOf(s)
         /\ Unreleased(s) \subseteq Unreleased(s)' \cup {ReleaseName(s)}
<1>1. Programs(hs[s], phase[s], claim[s], release[s], wired[NodeOf[s]])
  BY DEF IInv, ProgramsOK
<1>2. Settled(s)' = Settled(s) /\ Current(s)' = Current(s) /\ OwnerOf(s)' = OwnerOf(s)
  BY DEF Settled, Current, OwnerOf, NamesOf, FirstNames, ClaimName, Running
<1>3. CASE release[s].i < Len(hs[s].names)
  <2> DEFINE r == [Idle EXCEPT !.at = "get", !.i = release[s].i + 1]
  <2>1. release[s].i + 1 \in Nat /\ release[s].i + 1 \in 1..Len(hs[s].names)
    BY <1>3, ReleaseFacts
  <2>2. r \in ReleaseProgram /\ r.at = "get" /\ r.i = release[s].i + 1
    BY <2>1, NextRelease
  <2>3. release' = [release EXCEPT ![s] = r]
    BY <1>3 DEF AfterReleaseStep
  <2> HIDE DEF r
  <2>4. /\ release' \in [Sockets -> ReleaseProgram] /\ release'[s] = r
        /\ \A q \in Sockets \ {s} : release'[q] = release[q]
    BY <2>2, <2>3 DEF IInv, Types
  <2>5. Programs(hs[s], phase[s], claim[s], r, wired[NodeOf[s]])
    BY <1>1, <2>1, <2>2, ReleaseFacts DEF Programs
  <2>6. Unreleased(s)' = NamesOf(s) \ FirstNames(s, (release[s].i + 1) - 1)
    BY <2>2, <2>4 DEF Unreleased, Running, NamesOf, FirstNames
  <2>7. FirstNames(s, (release[s].i + 1) - 1) = FirstNames(s, release[s].i)
    BY ReleaseFacts, FirstNamesParts
  <2>8. Unreleased(s) \subseteq Unreleased(s)' \cup {ReleaseName(s)}
    BY <2>6, <2>7, ReleaseFacts
  <2> QED BY <1>2, <2>4, <2>5, <2>8
<1>4. CASE ~(release[s].i < Len(hs[s].names))
  <2>1. release' = [release EXCEPT ![s] = Idle] /\ release[s].i = Len(hs[s].names)
    BY <1>4, ReleaseFacts DEF AfterReleaseStep
  <2>2. /\ release' \in [Sockets -> ReleaseProgram] /\ release'[s] = Idle
        /\ \A q \in Sockets \ {s} : release'[q] = release[q]
    BY <2>1, IdleFacts DEF IInv, Types
  <2>3. Programs(hs[s], phase[s], claim[s], Idle, wired[NodeOf[s]])
    BY <1>1, IdleFacts DEF Programs
  <2>4. NamesOf(s) = FirstNames(s, release[s].i)
    BY <2>1 DEF NamesOf
  <2>5. Unreleased(s) \subseteq {ReleaseName(s)}
    BY <2>4, ReleaseFacts
  <2> QED BY <1>2, <2>2, <2>3, <2>5
<1> QED BY <1>3, <1>4

LEMMA ReleaseGetIInv == ASSUME IInv, NEW s \in Sockets, ReleaseGet(s) PROVE IInv'
<1> DEFINE n == ReleaseName(s)
           at == IF claim_ttl <= 0 \/ Held(n) = None \/ isEphemeralOwner(Held(n)) THEN "del" ELSE "expire"
           r == [release[s] EXCEPT !.saw = Held(n), !.at = at]
<1>1. /\ release[s].at = "get" /\ release' = [release EXCEPT ![s].saw = Held(n), ![s].at = at]
      /\ UNCHANGED <<store, disturbed, orphaned, wired, hs, phase, claim>>
  BY DEF ReleaseGet, ReleaseRest
<1>2. release' = [release EXCEPT ![s] = r]
  BY <1>1
<1>3. at \in {"del", "expire"} /\ (at = "del" /\ claim_ttl > 0 => Held(n) = None \/ Held(n) \in EphemeralOwners)
  BY NameClaimsAssumption DEF NameClaimsAssumption, isEphemeralOwner, claim_ttl
<1>4. Held(n) \in Owners \cup {None} /\ release[s] \in ReleaseProgram
  BY <1>1, ReleaseFacts DEF Held, IInv, Types, Key
<1> HIDE DEF at, n
<1>5. r \in ReleaseProgram /\ r.at = at /\ r.saw = Held(n) /\ r.i = release[s].i
  BY <1>3, <1>4 DEF ReleaseProgram
<1> HIDE DEF r
<1>6. /\ release' \in [Sockets -> ReleaseProgram] /\ release'[s] = r
      /\ \A q \in Sockets \ {s} : release'[q] = release[q]
  BY <1>2, <1>5 DEF IInv, Types
<1>7. Programs(hs[s], phase[s], claim[s], release[s], wired[NodeOf[s]])
  BY DEF IInv, ProgramsOK
<1>8. Programs(hs[s], phase[s], claim[s], r, wired[NodeOf[s]])
  BY <1>1, <1>3, <1>5, <1>7, ReleaseFacts DEF Programs
<1>9. /\ Settled(s)' = Settled(s) /\ Current(s)' = Current(s) /\ Unreleased(s)' = Unreleased(s)
      /\ OwnerOf(s)' = OwnerOf(s)
  <2>1. Settled(s)' = Settled(s) /\ Current(s)' = Current(s) /\ OwnerOf(s)' = OwnerOf(s)
    BY <1>1 DEF Settled, Current, OwnerOf, NamesOf, FirstNames, ClaimName, Running
  <2>2. Unreleased(s)' = NamesOf(s) \ FirstNames(s, release[s].i - 1)
    BY <1>1, <1>3, <1>5, <1>6 DEF Unreleased, Running, NamesOf, FirstNames
  <2> QED BY <1>1, <2>1, <2>2, ReleaseFacts
<1>10. \A m \in Names : (Has(m, s)' => Has(m, s)) /\ (Supports(m, s) => Supports(m, s)')
  BY <1>1, <1>9 DEF Has, Supports
<1>11. /\ phase' \in [Sockets -> {"new", "claiming", "open", "gone"}] /\ claim' \in [Sockets -> ClaimProgram]
       /\ \A q \in Sockets \ {s} : phase'[q] = phase[q] /\ claim'[q] = claim[q]
       /\ Programs(hs[s], phase'[s], claim'[s], release'[s], wired[NodeOf[s]])
  BY <1>1, <1>6, <1>8 DEF IInv, Types
<1> QED BY <1>1, <1>6, <1>10, <1>11, ProgramIInv

LEMMA ReleaseFailsIInv == ASSUME IInv, NEW s \in Sockets, ReleaseFails(s) PROVE IInv'
<1>1. /\ release[s].at # "idle" /\ release' = AfterReleaseStep(s)
      /\ UNCHANGED <<store, disturbed, wired, hs, phase, claim>>
      /\ orphaned' = orphaned \cup {ReleaseName(s)}
  BY DEF ReleaseFails, ReleaseRest
<1>2. /\ release' \in [Sockets -> ReleaseProgram]
      /\ \A q \in Sockets \ {s} : release'[q] = release[q]
      /\ Programs(hs[s], phase'[s], claim'[s], release'[s], wired[NodeOf[s]])
      /\ Settled(s)' = Settled(s) /\ Current(s)' = Current(s) /\ OwnerOf(s)' = OwnerOf(s)
      /\ Unreleased(s) \subseteq Unreleased(s)' \cup {ReleaseName(s)}
  BY <1>1, ReleaseSets
<1>3. \A m \in Names : Has(m, s)' => Has(m, s)
  BY <1>1, <1>2 DEF Has
<1>4. \A m \in Names \ (orphaned' \cup disturbed') :
        store[m] # None /\ Supports(m, s) => Supports(m, s)'
  BY <1>1, <1>2 DEF Supports
<1>5. /\ phase' \in [Sockets -> {"new", "claiming", "open", "gone"}] /\ claim' \in [Sockets -> ClaimProgram]
      /\ \A q \in Sockets \ {s} : phase'[q] = phase[q] /\ claim'[q] = claim[q]
  BY <1>1 DEF IInv, Types
<1> QED BY <1>1, <1>2, <1>3, <1>4, <1>5, ProgramIInv

LEMMA ReleaseKeyIInv == ASSUME IInv, NEW s \in Sockets, ReleaseKey(s) PROVE IInv'
<1>1. /\ release[s].at \in {"del", "expire"} /\ release[s].at # "idle" /\ release' = AfterReleaseStep(s)
      /\ UNCHANGED <<orphaned, wired, hs, phase, claim>> /\ disturbed \subseteq disturbed'
  BY DEF ReleaseKey, ReleaseRest
<1>2. PICK n \in Names : n = ReleaseName(s)
  BY <1>1, ReleaseFacts
<1>3. /\ store' = IF release[s].at = "del" THEN [store EXCEPT ![n] = None]
                  ELSE IF store[n] = None THEN store
                  ELSE [store EXCEPT ![n].lease = TRUE]
      /\ n \notin disturbed' => ~InUse(n, s)
  BY <1>1, <1>2 DEF ReleaseKey
<1>4. /\ store' \in [Names -> Key \cup {None}] /\ \A m \in Names \ {n} : store'[m] = store[m]
      /\ store'[n] = None \/ store'[n].lease
  <2>1. CASE release[s].at = "del" \/ store[n] = None
    BY <1>1, <1>3, <2>1 DEF IInv, Types
  <2>2. CASE release[s].at # "del" /\ store[n] # None
    <3> DEFINE k == [store[n] EXCEPT !.lease = TRUE]
    <3>1. store[n] \in Key
      BY <2>2 DEF IInv, Types
    <3>2. k \in Key /\ k.lease
      BY <3>1 DEF Key
    <3>3. store' = [store EXCEPT ![n] = k]
      BY <1>3, <2>2
    <3> HIDE DEF k
    <3> QED BY <3>2, <3>3 DEF IInv, Types
  <2> QED BY <2>1, <2>2
<1>5. /\ release' \in [Sockets -> ReleaseProgram]
      /\ \A q \in Sockets \ {s} : release'[q] = release[q]
      /\ Programs(hs[s], phase'[s], claim'[s], release'[s], wired[NodeOf[s]])
      /\ Settled(s)' = Settled(s) /\ Current(s)' = Current(s) /\ OwnerOf(s)' = OwnerOf(s)
      /\ Unreleased(s) \subseteq Unreleased(s)' \cup {n}
  BY <1>1, <1>2, ReleaseSets
<1>6. Types'
  BY <1>1, <1>4, <1>5 DEF IInv, Types
<1>7. \A q \in Sockets \ {s} : Has(n, q) => n \in disturbed'
  <2> SUFFICES ASSUME NEW q \in Sockets \ {s}, Has(n, q), n \notin disturbed
               PROVE  InUse(n, s)
    BY <1>1, <1>3
  <2>1. store[n] = [owner |-> OwnerOf(q), lease |-> FALSE]
    BY DEF IInv, Keeps, Has
  <2>2. hs[q] # None /\ hs[q] \in Shake /\ (claim[q].at = "done" => phase[q] = "open")
    BY DEF Has, IInv, Types, ProgramsOK, Programs
  <2>3. n \in NamesOf(q) /\ (claim[q].at = "done" \/ Running(claim[q]))
    BY ClaimFacts DEF Has, Settled, Running
  <2>4. HeldBy(n, OwnerOf(q))
    <3>1. OwnerOf(q) \in Owners
      BY <2>2, FirstNamesParts
    <3>2. store[n] \in Key
      BY <2>1, <3>1 DEF Key
    <3>3. store[n] # None
      BY <3>2, NoneFacts
    <3> QED BY <2>1, <3>3 DEF HeldBy, Held
  <2>5. q \in Connections /\ (q \in Holders(n) \/ Running(claim[q]))
    BY <2>2, <2>3 DEF Connections, Holders
  <2> QED BY <2>3, <2>4, <2>5 DEF InUse
<1>8. \A m \in Names \ disturbed', q \in Sockets \ {s} :
        Has(m, q) => store'[m] = [owner |-> OwnerOf(q), lease |-> FALSE]
  BY <1>1, <1>4, <1>7 DEF IInv, Keeps, Has
<1>9. \A m \in Names : ~Has(m, s)'
  BY <1>1, ReleaseFacts DEF Has
<1>10. \A m \in Names \ (orphaned' \cup disturbed') :
         store'[m] # None =>
           \/ store'[m].lease \/ Supports(m, s)'
           \/ store'[m].owner = store[m].owner /\ \E q \in Sockets \ {s} : Supports(m, q)
  <2> SUFFICES ASSUME NEW m \in Names \ (orphaned' \cup disturbed'), store'[m] # None, ~store'[m].lease
               PROVE  \/ Supports(m, s)'
                      \/ store'[m].owner = store[m].owner /\ \E q \in Sockets \ {s} : Supports(m, q)
    OBVIOUS
  <2>1. m # n /\ store'[m] = store[m]
    BY <1>4
  <2>2. PICK q \in Sockets : Supports(m, q)
    BY <1>1, <2>1 DEF IInv, Supported
  <2>3. CASE q = s
    BY <1>1, <1>5, <2>1, <2>2, <2>3 DEF Supports
  <2> QED BY <2>1, <2>2, <2>3
<1>11. \A q \in Sockets \ {s} : phase'[q] = phase[q] /\ claim'[q] = claim[q] /\ release'[q] = release[q]
  BY <1>1, <1>5
<1>12. /\ UNCHANGED <<hs, wired>> /\ disturbed \subseteq disturbed' /\ orphaned \subseteq orphaned'
  BY <1>1
<1> QED BY <1>5, <1>6, <1>8, <1>9, <1>10, <1>11, <1>12, OneConnection

-----------------------------------------------------------------------------
\* Keys that run out or are deleted, and nodes that reach Redis.
LEMMA KeyIInv ==
  ASSUME IInv, UNCHANGED <<hs, phase, claim, release, orphaned>>,
         store' \in [Names -> Key \cup {None}], wired' \in [Nodes -> BOOLEAN],
         \A m \in Nodes : wired[m] => wired'[m], disturbed \subseteq disturbed',
         \A n \in Names \ disturbed' :
           store'[n] = store[n] \/ (store'[n] = None /\ (store[n] = None \/ store[n].lease))
  PROVE  IInv'
<1>1. Types'
  BY DEF IInv, Types
<1>2. \A q \in Sockets :
        /\ Settled(q)' = Settled(q) /\ Current(q)' = Current(q) /\ Unreleased(q)' = Unreleased(q)
        /\ OwnerOf(q)' = OwnerOf(q)
  BY SameSets
<1>3. ProgramsOK'
  <2> SUFFICES ASSUME NEW s \in Sockets
               PROVE  Programs(hs[s], phase[s], claim[s], release[s], wired'[NodeOf[s]])
    BY DEF ProgramsOK
  <2>1. Programs(hs[s], phase[s], claim[s], release[s], wired[NodeOf[s]])
    BY DEF IInv, ProgramsOK
  <2>2. wired[NodeOf[s]] => wired'[NodeOf[s]]
    BY NoneFacts
  <2> QED BY <2>1, <2>2 DEF Programs
<1>4. Keeps'
  <2> SUFFICES ASSUME NEW n \in Names \ disturbed', NEW q \in Sockets, Has(n, q)
               PROVE  store'[n] = [owner |-> OwnerOf(q), lease |-> FALSE]
    BY <1>2 DEF Keeps, Has
  <2>1. store[n] = [owner |-> OwnerOf(q), lease |-> FALSE]
    BY DEF IInv, Keeps, Has
  <2>2. hs[q] # None /\ hs[q] \in Shake
    BY DEF Has, IInv, Types, ProgramsOK, Programs
  <2>3. store[n] \in Key /\ ~store[n].lease
    BY <2>1, <2>2, FirstNamesParts DEF Key
  <2> QED BY <2>1, <2>3, NoneFacts
<1>5. Supported'
  BY <1>2 DEF IInv, Supported, Supports
<1> QED BY <1>1, <1>3, <1>4, <1>5 DEF IInv

LEMMA KeyStepIInv ==
  ASSUME IInv,
         \/ \E n \in Names : Expire(n) \/ DeleteName(n)
         \/ \E o \in Owners : FindOwned(o)
         \/ DeleteOwned
         \/ \E m \in Nodes : Wire(m)
  PROVE  IInv'
<1>1. ASSUME NEW n \in Names, Expire(n)
      PROVE  IInv'
  <2>1. /\ store' = [store EXCEPT ![n] = None] /\ store[n] # None /\ store[n].lease
        /\ UNCHANGED <<hs, phase, claim, release, orphaned, wired, disturbed>>
    BY <1>1 DEF Expire
  <2> QED BY <2>1, KeyIInv DEF IInv, Types
<1>2. ASSUME NEW n \in Names, DeleteName(n)
      PROVE  IInv'
  <2>1. /\ store' = [store EXCEPT ![n] = None] /\ disturbed' = disturbed \cup {n}
        /\ UNCHANGED <<hs, phase, claim, release, orphaned, wired>>
    BY <1>2 DEF DeleteName
  <2> QED BY <2>1, KeyIInv DEF IInv, Types
<1>3. ASSUME NEW o \in Owners, FindOwned(o)
      PROVE  IInv'
  <2>1. UNCHANGED <<store, hs, phase, claim, release, orphaned, wired, disturbed>>
    BY <1>3 DEF FindOwned
  <2> QED BY <2>1, KeyIInv DEF IInv, Types
<1>4. ASSUME DeleteOwned
      PROVE  IInv'
  <2>1. /\ store' = [n \in Names |-> IF n \in purge.names THEN None ELSE store[n]]
        /\ disturbed' = disturbed \cup purge.names
        /\ UNCHANGED <<hs, phase, claim, release, orphaned, wired>>
    BY <1>4 DEF DeleteOwned
  <2> QED BY <2>1, KeyIInv DEF IInv, Types
<1>5. ASSUME NEW m \in Nodes, Wire(m)
      PROVE  IInv'
  <2>1. /\ wired' = [wired EXCEPT ![m] = TRUE]
        /\ UNCHANGED <<store, hs, phase, claim, release, orphaned, disturbed>>
    BY <1>5 DEF Wire
  <2>2. wired' \in [Nodes -> BOOLEAN] /\ \A k \in Nodes : wired[k] => wired'[k]
    BY <2>1 DEF IInv, Types
  <2> QED BY <2>1, <2>2, KeyIInv DEF IInv, Types
<1> QED BY <1>1, <1>2, <1>3, <1>4, <1>5

\* A node's connections die with it and orphan their names.
LEMMA CrashIInv == ASSUME IInv, NEW m \in Nodes, Crash(m) PROVE IInv'
<1> DEFINE dying == {s \in Connections : NodeOf[s] = m}
<1>1. /\ phase' = [s \in Sockets |-> IF s \in dying THEN "gone" ELSE phase[s]]
      /\ claim' = [s \in Sockets |-> IF s \in dying THEN Idle ELSE claim[s]]
      /\ release' = [s \in Sockets |-> IF s \in dying THEN Idle ELSE release[s]]
      /\ orphaned' = orphaned \cup UNION {NamesOf(s) : s \in dying}
      /\ wired' = [wired EXCEPT ![m] = FALSE]
      /\ UNCHANGED <<hs, store, disturbed>>
  BY DEF Crash
<1>2. dying \subseteq Sockets /\ \A s \in dying : NamesOf(s) \subseteq orphaned'
  BY <1>1 DEF Connections
<1>3. \A s \in Sockets : s \in dying <=> hs[s] # None /\ NodeOf[s] = m
  BY DEF Connections
<1> HIDE DEF dying
<1>4. wired' \in [Nodes -> BOOLEAN] /\ \A k \in Nodes \ {m} : wired'[k] = wired[k]
  BY <1>1 DEF IInv, Types
<1>5. Types'
  BY <1>1, <1>4, IdleFacts DEF IInv, Types
<1>6. ASSUME NEW s \in Sockets
      PROVE  Programs(hs[s], phase'[s], claim'[s], release'[s], wired'[NodeOf[s]])
  <2>1. Programs(hs[s], phase[s], claim[s], release[s], wired[NodeOf[s]]) /\ NodeOf[s] \in Nodes
    BY NoneFacts DEF IInv, ProgramsOK
  <2>2. CASE s \in dying
    <3>1. /\ hs[s] # None /\ phase'[s] = "gone" /\ claim'[s] = Idle /\ release'[s] = Idle
      BY <1>1, <1>3, <2>2
    <3> QED BY <3>1, IdleFacts DEF Programs
  <2>3. CASE s \notin dying
    <3>1. phase'[s] = phase[s] /\ claim'[s] = claim[s] /\ release'[s] = release[s]
      BY <1>1, <2>3
    <3>2. hs[s] = None \/ wired'[NodeOf[s]] = wired[NodeOf[s]]
      BY <1>3, <1>4, <2>1, <2>3
    <3> QED BY <2>1, <3>1, <3>2 DEF Programs
  <2> QED BY <2>2, <2>3
<1>7. ProgramsOK'
  BY <1>1, <1>6 DEF ProgramsOK
<1>8. \A s \in Sockets \ dying :
        /\ Settled(s)' = Settled(s) /\ Current(s)' = Current(s) /\ Unreleased(s)' = Unreleased(s)
        /\ OwnerOf(s)' = OwnerOf(s) /\ phase'[s] = phase[s] /\ hs'[s] = hs[s]
  BY <1>1, SameSets
<1>9. \A s \in dying : phase'[s] = "gone"
  BY <1>1, <1>2
<1>10. Keeps'
  BY <1>1, <1>2, <1>8, <1>9 DEF IInv, Keeps
<1>11. ASSUME NEW n \in Names \ (orphaned' \cup disturbed'), store'[n] # None, ~store'[n].lease
       PROVE  \E s \in Sockets : Supports(n, s)'
  <2>1. PICK s \in Sockets : Supports(n, s)
    BY <1>1, <1>11 DEF IInv, Supported
  <2>2. n \in NamesOf(s)
    BY <2>1, ClaimFacts DEF Supports, Settled, Current, Unreleased, Running
  <2>3. s \notin dying
    BY <1>2, <2>2
  <2> QED BY <1>1, <1>8, <2>1, <2>3 DEF Supports
<1>12. Supported'
  BY <1>11 DEF Supported
<1> QED BY <1>5, <1>7, <1>10, <1>12 DEF IInv

LEMMA StepIInv == ASSUME IInv, [Next]_vars PROVE IInv'
<1>1. CASE UNCHANGED vars
  BY <1>1, KeyIInv DEF vars, IInv, Types
<1>2. ASSUME NEW s \in Sockets, NEW h \in Handshakes[s], Start(s, h)
      PROVE  IInv'
  BY <1>2, StartIInv
<1>3. ASSUME NEW s \in Sockets,
             \/ ClaimStep(s) \/ ClaimFails(s) \/ ClaimTimesOut(s) \/ Leave(s)
             \/ Close(s) \/ ReleaseGet(s) \/ ReleaseKey(s) \/ ReleaseFails(s)
      PROVE  IInv'
  BY <1>3, SetNXIInv, GetHeldIInv, SetOwnerIInv, PersistIInv, ClaimFailsIInv, AnswerIInv,
     CloseIInv, ReleaseGetIInv, ReleaseKeyIInv, ReleaseFailsIInv DEF ClaimStep
<1>4. ASSUME \/ \E n \in Names : Expire(n) \/ DeleteName(n)
             \/ \E o \in Owners : FindOwned(o)
             \/ DeleteOwned
             \/ \E m \in Nodes : Wire(m)
      PROVE  IInv'
  BY <1>4, KeyStepIInv
<1>5. ASSUME NEW m \in Nodes, Crash(m)
      PROVE  IInv'
  BY <1>5, CrashIInv
<1> QED BY <1>1, <1>2, <1>3, <1>4, <1>5 DEF Next

\* What the programs of all connections together guarantee, in every reachable state.
THEOREM ClaimsStaySound == Spec => []IInv
BY InitIInv, StepIInv, PTL DEF Spec

\* hostnames.js:197: a connected client that was granted a name has its key, and the key
\* does not run out, unless a command hit the name after its ground had changed.
THEOREM NamesAreKept == Spec => []NamesKept
<1>1. ASSUME IInv PROVE NamesKept
  <2> SUFFICES ASSUME NEW n \in Names \ disturbed, NEW s \in Holders(n), Durable(OwnerOf(s))
               PROVE  store[n] = [owner |-> OwnerOf(s), lease |-> FALSE]
    BY DEF NamesKept
  <2>1. /\ s \in Sockets /\ phase[s] = "open" /\ n \in NamesOf(s) /\ claim[s].at = "done"
    BY DEF Holders, Connections
  <2>2. n \in Settled(s)
    BY <2>1 DEF Settled
  <2> QED BY <1>1, <2>1, <2>2 DEF IInv, Keeps
<1> QED BY <1>1, ClaimsStaySound, PTL

\* hostnames.js:197 and 254-265: every key without a time to live has somebody who will
\* give it one, but for the orphaned and the disturbed names.
THEOREM KeysAreNotPinned == Spec => []NotPinned
<1>1. ASSUME IInv PROVE NotPinned
  <2> SUFFICES ASSUME NEW n \in Names \ (orphaned \cup disturbed), store[n] # None, ~store[n].lease
               PROVE  \E s \in Connections :
                        /\ n \in NamesOf(s) /\ OwnerOf(s) = store[n].owner
                        /\ \/ phase[s] = "open"
                           \/ Running(claim[s])
                           \/ Running(release[s]) /\ n \notin FirstNames(s, release[s].i - 1)
    BY DEF NotPinned
  <2>1. PICK s \in Sockets : Supports(n, s)
    BY <1>1 DEF IInv, Supported
  <2>2. s \in Connections /\ OwnerOf(s) = store[n].owner
    BY <2>1 DEF Supports, Connections
  <2>3. CASE n \in Settled(s) /\ claim[s].at = "done"
    <3>1. phase[s] = "open"
      BY <1>1, <2>3 DEF IInv, ProgramsOK, Programs
    <3> QED BY <2>2, <2>3, <3>1 DEF Settled
  <2>4. CASE n \in Settled(s) /\ claim[s].at # "done"
    BY <1>1, <2>2, <2>4, ClaimFacts DEF Settled
  <2>5. CASE n \in Current(s)
    BY <1>1, <2>2, <2>5, ClaimFacts DEF Current, Running
  <2>6. CASE n \in Unreleased(s)
    BY <2>2, <2>6 DEF Unreleased
  <2> QED BY <2>1, <2>3, <2>4, <2>5, <2>6 DEF Supports
<1> QED BY <1>1, ClaimsStaySound, PTL

\* hostnames.js:254-265 with a grace period: whoever holds a name durably loses it only
\* by its running out, to an administrator, or to a command whose ground had changed.
THEOREM GraceIsKept == ASSUME claim_ttl > 0 PROVE Spec => GraceKept
<1> DEFINE Kept(n) == IF store'[n] = None THEN FALSE ELSE store'[n].owner = store[n].owner
<1>1. ASSUME IInv, [Next]_vars, NEW n \in Names, store[n] # None, Durable(store[n].owner),
             ~Kept(n), n \notin disturbed'
      PROVE  store[n].lease /\ store'[n] = None
  <2>0. /\ store[n] \in Key /\ store[n].owner \in Owners /\ store[n].owner \notin EphemeralOwners
        /\ store[n].owner # None
    BY <1>1, NoneFacts DEF IInv, Types, Key, Durable, isEphemeralOwner
  <2>1. store'[n] # store[n]
    BY <1>1
  <2>2. ASSUME NEW s \in Sockets, SetNX(s) PROVE FALSE
    BY <1>1, <2>1, <2>2 DEF SetNX, IInv, Types
  <2>3. ASSUME NEW s \in Sockets, SetOwner(s) PROVE FALSE
    <3>1. claim[s].saw \in EphemeralOwners
      BY <1>1, <2>3 DEF SetOwner, IInv, ProgramsOK, Programs
    <3>2. n = ClaimName(s)
      BY <1>1, <2>1, <2>3 DEF SetOwner, IInv, Types
    <3> QED BY <1>1, <2>0, <2>3, <3>1, <3>2 DEF SetOwner, HeldBy, Held
  <2>4. ASSUME NEW s \in Sockets, Persist(s) PROVE FALSE
    <3>1. n = ClaimName(s) /\ store' = [store EXCEPT ![n].lease = FALSE]
      BY <1>1, <2>1, <2>4 DEF Persist, PersistKey, IInv, Types
    <3>2. store'[n].owner = store[n].owner /\ store'[n] \in Key
      BY <1>1, <2>0, <3>1 DEF IInv, Types, Key
    <3> QED BY <1>1, <3>2, NoneFacts
  <2>5. ASSUME NEW s \in Sockets, ClaimFails(s) PROVE FALSE
    <3>1. /\ n = ClaimName(s) /\ claim[s].at = "set"
      BY <1>1, <2>1, <2>5 DEF ClaimFails, IInv, Types
    <3>2. claim[s].saw \in EphemeralOwners
      BY <1>1, <3>1 DEF IInv, ProgramsOK, Programs
    <3> QED BY <1>1, <2>0, <2>1, <2>5, <3>1, <3>2 DEF ClaimFails, HeldBy, Held
  <2>6. ASSUME NEW s \in Sockets, ReleaseKey(s) PROVE FALSE
    <3>1. n = ReleaseName(s) /\ HeldBy(n, release[s].saw)
      BY <1>1, <2>1, <2>6 DEF ReleaseKey, IInv, Types
    <3>2. CASE release[s].at = "del"
      <4>1. release[s].saw = None \/ release[s].saw \in EphemeralOwners
        BY <1>1, <3>2 DEF IInv, ProgramsOK, Programs
      <4> QED BY <1>1, <2>0, <3>1, <4>1 DEF HeldBy, Held
    <3>3. CASE release[s].at # "del"
      <4>1. store' = [store EXCEPT ![n].lease = TRUE]
        BY <1>1, <2>6, <3>1, <3>3 DEF ReleaseKey
      <4>2. store'[n].owner = store[n].owner /\ store'[n] \in Key
        BY <1>1, <2>0, <4>1 DEF IInv, Types, Key
      <4> QED BY <1>1, <4>2, NoneFacts
    <3> QED BY <3>2, <3>3
  <2>7. ASSUME NEW m \in Names, Expire(m) PROVE store[n].lease /\ store'[n] = None
    BY <1>1, <2>1, <2>7 DEF Expire, IInv, Types
  <2>8. ASSUME NEW m \in Names, DeleteName(m) PROVE FALSE
    BY <1>1, <2>1, <2>8 DEF DeleteName, IInv, Types
  <2>9. ASSUME DeleteOwned PROVE FALSE
    BY <1>1, <2>1, <2>9 DEF DeleteOwned
  <2>10. ASSUME NEW s \in Sockets, \/ GetHeld(s) \/ ClaimTimesOut(s) \/ Leave(s) \/ Close(s)
                                  \/ ReleaseGet(s) \/ ReleaseFails(s)
                                  \/ \E h \in Handshakes[s] : Start(s, h)
         PROVE  FALSE
    BY <2>1, <2>10 DEF GetHeld, ClaimTimesOut, Leave, Close, ReleaseGet, ReleaseFails, Start
  <2>11. ASSUME \/ \E o \in Owners : FindOwned(o)
                \/ \E m \in Nodes : Wire(m) \/ Crash(m)
                \/ UNCHANGED vars
         PROVE  FALSE
    BY <2>1, <2>11 DEF FindOwned, Wire, Crash, vars
  <2> QED BY <1>1, <2>2, <2>3, <2>4, <2>5, <2>6, <2>7, <2>8, <2>9, <2>10, <2>11
          DEF Next, ClaimStep
<1>2. IInv /\ [Next]_vars =>
        \A n \in Names :
          /\ store[n] # None
          /\ Durable(store[n].owner)
          /\ ~(IF store'[n] = None THEN FALSE ELSE store'[n].owner = store[n].owner)
          => n \in disturbed' \/ (store[n].lease /\ store'[n] = None)
  BY <1>1
<1> QED BY <1>2, ClaimsStaySound, PTL DEF Spec, GraceKept
=============================================================================
