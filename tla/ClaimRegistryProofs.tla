------------------------- MODULE ClaimRegistryProofs ------------------------
(***************************************************************************)
(* Theorems about ClaimRegistry, for any names, owners, sockets and TTL.   *)
(***************************************************************************)
EXTENDS ClaimRegistry, TLAPS

-----------------------------------------------------------------------------
(* The operations keep the claim table a claim table.                      *)

LEMMA IdleCapNat == IdleCap \in Nat
  BY NameClaimsAssumption, SMT DEF IdleCap, claim_ttl

LEMMA ClaimType ==
  ASSUME NEW cl \in ClaimTable, NEW S \in SUBSET Names,
         NEW c \in Owners, NEW s \in Sockets
  PROVE  AfterClaim(cl, S, c, s) \in ClaimTable
  BY IdleCapNat DEF ClaimTable, AfterClaim, Entry

LEMMA PurgeType ==
  ASSUME NEW cl \in ClaimTable, NEW P
  PROVE  Purge(cl, P) \in ClaimTable
  BY DEF ClaimTable, Purge

LEMMA ReleaseType ==
  ASSUME NEW cl \in ClaimTable, NEW S, NEW s
  PROVE  AfterRelease(cl, S, s) \in ClaimTable
  BY IdleCapNat DEF ClaimTable, AfterRelease, ReleasedBy, Entry

LEMMA ReleaseOwnerType ==
  ASSUME NEW cl \in ClaimTable, NEW c
  PROVE  AfterReleaseOwner(cl, c) \in ClaimTable
  BY DEF ClaimTable, AfterReleaseOwner

LEMMA DeleteNameType ==
  ASSUME NEW cl \in ClaimTable, NEW n \in Names
  PROVE  AfterDeleteName(cl, n) \in ClaimTable
  BY DEF ClaimTable, AfterDeleteName

LEMMA AgeType ==
  ASSUME NEW cl \in ClaimTable
  PROVE  Age(cl) \in ClaimTable
  BY IdleCapNat, NameClaimsAssumption DEF ClaimTable, Age, Entry

-----------------------------------------------------------------------------
(* What each operation does to the owner of one name.                      *)

LEMMA OwnerIsEntry ==
  ASSUME NEW cl, NEW n \in Names, cl[n] \in Entry
  PROVE  owner(cl, n) # None <=> ~_expired(cl[n])
  BY NameClaimsAssumption DEF owner

LEMMA OwnerMeansEntry ==
  ASSUME NEW cl \in ClaimTable, NEW n \in Names, owner(cl, n) # None
  PROVE  cl[n] \in Entry /\ cl[n] # None /\ ~_expired(cl[n])
  BY NameClaimsAssumption DEF owner, ClaimTable

LEMMA OwnerUnchanged ==
  ASSUME NEW cl, NEW dl, NEW n \in Names, dl[n] = cl[n], owner(cl, n) # None
  PROVE  owner(dl, n) # None /\ dl[n].clientId = cl[n].clientId
  BY DEF owner

LEMMA ClaimTtlInt == claim_ttl \in Int
  BY NameClaimsAssumption DEF claim_ttl

LEMMA ClaimedOwner ==
  ASSUME NEW cl, NEW S \in SUBSET Names, NEW n \in S,
         NEW c \in Owners, NEW s \in Sockets
  PROVE  LET dl == AfterClaim(cl, S, c, s)
         IN  owner(dl, n) # None /\ dl[n].clientId = c
<1> DEFINE dl == AfterClaim(cl, S, c, s)
<1>1. dl[n] = [clientId |-> c, socketId |-> s, idle |-> 0]
  BY DEF AfterClaim
<1>2. dl[n] \in Entry
  BY <1>1, IdleCapNat DEF Entry
<1>3. ~_expired(dl[n])
  BY <1>1, NameClaimsAssumption DEF _expired
<1> QED
  BY <1>1, <1>2, <1>3, OwnerIsEntry

\* A claim never takes a name from a durable owner that still has it.
LEMMA ClaimKeepsOwner ==
  ASSUME NEW cl \in ClaimTable, NEW S \in SUBSET Names, NEW n \in Names,
         NEW c \in Owners, NEW s \in Sockets, CanClaim(cl, S, c),
         owner(cl, n) # None, ~isEphemeralOwner(cl[n].clientId)
  PROVE  LET dl == AfterClaim(cl, S, c, s)
         IN  owner(dl, n) # None /\ dl[n].clientId = cl[n].clientId
<1> DEFINE dl == AfterClaim(cl, S, c, s)
<1>1. CASE n \in S
  <2>1. c = cl[n].clientId
    BY <1>1 DEF CanClaim, TakenFrom
  <2> QED
    BY <1>1, <2>1, ClaimedOwner
<1>2. CASE n \notin S
  BY <1>2, OwnerUnchanged DEF AfterClaim
<1> QED
  BY <1>1, <1>2

LEMMA PurgeKeepsOwner ==
  ASSUME NEW cl, NEW S, NEW P \in RefusalPurges(cl, S), NEW n \in Names,
         owner(cl, n) # None
  PROVE  LET dl == Purge(cl, P)
         IN  owner(dl, n) # None /\ dl[n].clientId = cl[n].clientId
<1>1. n \notin P
  BY DEF RefusalPurges, ExpiredNames
<1> QED
  BY <1>1, OwnerUnchanged DEF Purge

\* A release leaves a durable name with its owner when names are reserved.
LEMMA ReleaseKeepsOwner ==
  ASSUME NEW cl \in ClaimTable, NEW S, NEW s, NEW n \in Names,
         owner(cl, n) # None,
         \/ ~(n \in S /\ ReleasedBy(cl, n, s))
         \/ claim_ttl > 0 /\ ~isEphemeralOwner(cl[n].clientId)
  PROVE  LET dl == AfterRelease(cl, S, s)
         IN  owner(dl, n) # None /\ dl[n].clientId = cl[n].clientId
<1> DEFINE dl == AfterRelease(cl, S, s)
<1>1. CASE ~(n \in S /\ ReleasedBy(cl, n, s))
  BY <1>1, OwnerUnchanged DEF AfterRelease
<1>2. CASE /\ n \in S /\ ReleasedBy(cl, n, s)
           /\ claim_ttl > 0 /\ ~isEphemeralOwner(cl[n].clientId)
  <2>1. dl[n] = [clientId |-> cl[n].clientId, socketId |-> None, idle |-> 0]
    BY <1>2, ClaimTtlInt DEF AfterRelease
  <2>2. dl[n] \in Entry
    BY <2>1, OwnerMeansEntry, IdleCapNat DEF Entry
  <2>3. ~_expired(dl[n])
    BY <1>2, <2>1, ClaimTtlInt DEF _expired
  <2> QED
    BY <2>1, <2>2, <2>3, OwnerIsEntry
<1> QED
  BY <1>1, <1>2

\* An hour takes away only a reservation that has lasted its TTL.
LEMMA AgeKeepsOwner ==
  ASSUME NEW cl \in ClaimTable, NEW n \in Names, owner(cl, n) # None,
         ~(cl[n].socketId = None /\ cl[n].idle = claim_ttl)
  PROVE  owner(Age(cl), n) # None /\ Age(cl)[n].clientId = cl[n].clientId
<1>1. cl[n] \in Entry /\ cl[n] # None /\ ~_expired(cl[n])
  BY OwnerMeansEntry
<1>2. CASE cl[n].socketId = None /\ cl[n].idle < IdleCap
  <2>1. Age(cl)[n] = [cl[n] EXCEPT !.idle = @ + 1]
    BY <1>1, <1>2 DEF Age
  <2>2. /\ Age(cl)[n] \in Entry
        /\ Age(cl)[n].clientId = cl[n].clientId
        /\ Age(cl)[n].socketId = None
        /\ Age(cl)[n].idle = cl[n].idle + 1
    BY <1>1, <1>2, <2>1, IdleCapNat DEF Entry
  <2>3. ~_expired(Age(cl)[n])
    BY <1>1, <1>2, <2>2, ClaimTtlInt, IdleCapNat DEF _expired, Entry
  <2> QED
    BY <2>2, <2>3, OwnerIsEntry
<1>3. CASE ~(cl[n].socketId = None /\ cl[n].idle < IdleCap)
  BY <1>1, <1>3, OwnerUnchanged DEF Age
<1> QED
  BY <1>2, <1>3

-----------------------------------------------------------------------------
(* Every state of the registry is well typed.                              *)
THEOREM TypeCorrect == Spec => []TypeOK
<1>1. Init => TypeOK
  BY DEF Init, TypeOK, ClaimTable, NoClaims
<1>2. TypeOK /\ [Next]_vars => TypeOK'
  <2> SUFFICES ASSUME TypeOK, [Next]_vars PROVE TypeOK'
    OBVIOUS
  <2> USE DEF TypeOK
  <2>1. ASSUME NEW s \in Sockets, NEW c \in Owners, NEW S \in SUBSET Names,
               Grant(s, c, S)
        PROVE  TypeOK'
    BY <2>1, ClaimType DEF Grant
  <2>2. ASSUME NEW s \in Sockets, NEW c \in Owners, NEW S \in SUBSET Names,
               Refuse(s, c, S)
        PROVE  TypeOK'
    BY <2>2, PurgeType DEF Refuse
  <2>3. ASSUME NEW s \in Sockets, Release(s) PROVE TypeOK'
    BY <2>3, ReleaseType DEF Release
  <2>4. ASSUME NEW c \in Owners, ReleaseOwner(c) PROVE TypeOK'
    BY <2>4, ReleaseOwnerType DEF ReleaseOwner
  <2>5. ASSUME NEW n \in Names, DeleteName(n) PROVE TypeOK'
    BY <2>5, DeleteNameType DEF DeleteName
  <2>6. CASE Hour
    BY <2>6, AgeType DEF Hour
  <2>7. CASE UNCHANGED vars
    BY <2>7 DEF vars
  <2> QED
    BY <2>1, <2>2, <2>3, <2>4, <2>5, <2>6, <2>7 DEF Next
<1> QED
  BY <1>1, <1>2, PTL DEF Spec

(* No name is pinned to a connection that has ended: the claims that rest  *)
(* on a socket are backed by an open one that was granted the name.        *)
THEOREM ClaimsStayBacked == Spec => []ClaimsBacked
<1>1. Init => ClaimsBacked
  BY DEF Init, ClaimsBacked, NoClaims
<1>2. TypeOK /\ ClaimsBacked /\ [Next]_vars => ClaimsBacked'
  <2> SUFFICES ASSUME TypeOK, ClaimsBacked, [Next]_vars, NEW n \in Names,
                      claims'[n] # None, claims'[n].socketId # None
               PROVE  /\ phase'[claims'[n].socketId] = "open"
                      /\ n \in granted'[claims'[n].socketId]
                      /\ caller'[claims'[n].socketId] = claims'[n].clientId
    BY DEF ClaimsBacked
  <2> USE DEF TypeOK, ClaimTable, Entry, ClaimsBacked
  <2>1. ASSUME NEW s \in Sockets, NEW c \in Owners, NEW S \in SUBSET Names,
               Grant(s, c, S)
        PROVE  /\ phase'[claims'[n].socketId] = "open"
               /\ n \in granted'[claims'[n].socketId]
               /\ caller'[claims'[n].socketId] = claims'[n].clientId
    BY <2>1, NameClaimsAssumption DEF Grant, AfterClaim
  <2>2. ASSUME NEW s \in Sockets, NEW c \in Owners, NEW S \in SUBSET Names,
               Refuse(s, c, S)
        PROVE  /\ phase'[claims'[n].socketId] = "open"
               /\ n \in granted'[claims'[n].socketId]
               /\ caller'[claims'[n].socketId] = claims'[n].clientId
    BY <2>2, NameClaimsAssumption DEF Refuse, Purge
  <2>3. ASSUME NEW s \in Sockets, Release(s)
        PROVE  /\ phase'[claims'[n].socketId] = "open"
               /\ n \in granted'[claims'[n].socketId]
               /\ caller'[claims'[n].socketId] = claims'[n].clientId
    BY <2>3, NameClaimsAssumption DEF Release, AfterRelease, ReleasedBy
  <2>4. ASSUME NEW c \in Owners, ReleaseOwner(c) 
        PROVE  /\ phase'[claims'[n].socketId] = "open"
               /\ n \in granted'[claims'[n].socketId]
               /\ caller'[claims'[n].socketId] = claims'[n].clientId
    BY <2>4 DEF ReleaseOwner, AfterReleaseOwner
  <2>5. ASSUME NEW m \in Names, DeleteName(m)
        PROVE  /\ phase'[claims'[n].socketId] = "open"
               /\ n \in granted'[claims'[n].socketId]
               /\ caller'[claims'[n].socketId] = claims'[n].clientId
    BY <2>5 DEF DeleteName, AfterDeleteName
  <2>6. CASE Hour
    BY <2>6, NameClaimsAssumption DEF Hour, Age
  <2>7. CASE UNCHANGED vars
    BY <2>7 DEF vars
  <2> QED
    BY <2>1, <2>2, <2>3, <2>4, <2>5, <2>6, <2>7 DEF Next
<1> QED
  BY <1>1, <1>2, TypeCorrect, PTL DEF Spec

-----------------------------------------------------------------------------
(* A connected durable owner loses a name only to the administrator, to    *)
(* itself, or, without reservations, by closing the connection.            *)
THEOREM HeldNamesAreKept == Spec => HeldNamesKept
<1> DEFINE Kept(n) ==
      owner(claims, n) # None /\ claims[n].socketId # None
        /\ ~isEphemeralOwner(claims[n].clientId) =>
          \/ owner(claims', n) # None /\ claims'[n].clientId = claims[n].clientId
          \/ ReleaseOwner(claims[n].clientId) \/ DeleteName(n)
          \/ claim_ttl <= 0 /\ Release(claims[n].socketId)
<1>1. TypeOK /\ [Next]_vars => [\A n \in Names : Kept(n)]_vars
  <2> SUFFICES ASSUME TypeOK, Next, NEW n \in Names,
                      owner(claims, n) # None, claims[n].socketId # None,
                      ~isEphemeralOwner(claims[n].clientId)
               PROVE  \/ owner(claims', n) # None
                           /\ claims'[n].clientId = claims[n].clientId
                      \/ ReleaseOwner(claims[n].clientId) \/ DeleteName(n)
                      \/ claim_ttl <= 0 /\ Release(claims[n].socketId)
    OBVIOUS
  <2> DEFINE Goal == \/ owner(claims', n) # None
                          /\ claims'[n].clientId = claims[n].clientId
                     \/ ReleaseOwner(claims[n].clientId) \/ DeleteName(n)
                     \/ claim_ttl <= 0 /\ Release(claims[n].socketId)
  <2> claims \in ClaimTable /\ granted \in [Sockets -> SUBSET Names]
    BY DEF TypeOK
  <2>1. ASSUME NEW s \in Sockets, NEW c \in Owners, NEW S \in SUBSET Names,
               Grant(s, c, S)
        PROVE  Goal
    BY <2>1, ClaimKeepsOwner DEF Grant
  <2>2. ASSUME NEW s \in Sockets, NEW c \in Owners, NEW S \in SUBSET Names,
               Refuse(s, c, S)
        PROVE  Goal
    BY <2>2, PurgeKeepsOwner DEF Refuse
  <2>3. ASSUME NEW s \in Sockets, Release(s) PROVE Goal
    <3>1. CASE claims[n].socketId = s /\ claim_ttl <= 0
      BY <2>3, <3>1
    <3>2. CASE claims[n].socketId # s \/ claim_ttl > 0
      BY <2>3, <3>2, ReleaseKeepsOwner, NameClaimsAssumption DEF Release, ReleasedBy
    <3> QED
      BY <3>1, <3>2, ClaimTtlInt
  <2>4. ASSUME NEW c \in Owners, ReleaseOwner(c) PROVE Goal
    <3>1. CASE c = claims[n].clientId
      BY <2>4, <3>1
    <3>2. CASE c # claims[n].clientId
      BY <2>4, <3>2, OwnerUnchanged DEF ReleaseOwner, AfterReleaseOwner
    <3> QED
      BY <3>1, <3>2
  <2>5. ASSUME NEW m \in Names, DeleteName(m) PROVE Goal
    <3>1. CASE m = n
      BY <2>5, <3>1
    <3>2. CASE m # n
      <4>1. claims'[n] = claims[n]
        BY <2>5, <3>2 DEF DeleteName, AfterDeleteName, ClaimTable
      <4> QED
        BY <4>1, OwnerUnchanged
    <3> QED
      BY <3>1, <3>2
  <2>6. CASE Hour
    BY <2>6, AgeKeepsOwner DEF Hour
  <2> QED
    BY <2>1, <2>2, <2>3, <2>4, <2>5, <2>6 DEF Next
<1> QED
  BY <1>1, TypeCorrect, PTL DEF Spec, HeldNamesKept

(* Until its TTL has run out, only its owner or the administrator moves a  *)
(* reserved name.                                                          *)
THEOREM ReservationsAreHonoured == Spec => ReservationHonoured
<1> DEFINE Honoured(n) ==
      Reserved(claims, n) =>
        \/ owner(claims', n) # None /\ claims'[n].clientId = claims[n].clientId
        \/ ReleaseOwner(claims[n].clientId) \/ DeleteName(n)
        \/ Hour /\ claims[n].idle = claim_ttl
\* Ephemeral owners never have a reservation.
<1> DEFINE DurableReservations ==
      \A n \in Names : Reserved(claims, n) => ~isEphemeralOwner(claims[n].clientId)
<1>1. Init => DurableReservations
  BY DEF Init, NoClaims, Reserved, owner
<1>2. TypeOK /\ DurableReservations /\ [Next]_vars => DurableReservations'
  <2> SUFFICES ASSUME TypeOK, DurableReservations, [Next]_vars,
                      NEW n \in Names, Reserved(claims', n)
               PROVE  ~isEphemeralOwner(claims'[n].clientId)
    OBVIOUS
  <2> claims \in ClaimTable
    BY DEF TypeOK
  <2>0. claims'[n] # None /\ claims'[n].socketId = None /\ ~_expired(claims'[n])
    BY DEF Reserved, owner
  <2>u. ASSUME claims'[n] = claims[n]
        PROVE  ~isEphemeralOwner(claims'[n].clientId)
    BY <2>u, <2>0 DEF Reserved, owner
  <2>1. ASSUME NEW s \in Sockets, NEW c \in Owners, NEW S \in SUBSET Names,
               Grant(s, c, S)
        PROVE  ~isEphemeralOwner(claims'[n].clientId)
    BY <2>1, <2>0, <2>u, NameClaimsAssumption DEF Grant, AfterClaim
  <2>2. ASSUME NEW s \in Sockets, NEW c \in Owners, NEW S \in SUBSET Names,
               Refuse(s, c, S)
        PROVE  ~isEphemeralOwner(claims'[n].clientId)
    BY <2>2, <2>0, <2>u DEF Refuse, Purge
  <2>3. ASSUME NEW s \in Sockets, Release(s)
        PROVE  ~isEphemeralOwner(claims'[n].clientId)
    BY <2>3, <2>0, <2>u DEF Release, AfterRelease
  <2>4. ASSUME NEW c \in Owners, ReleaseOwner(c)
        PROVE  ~isEphemeralOwner(claims'[n].clientId)
    BY <2>4, <2>0, <2>u DEF ReleaseOwner, AfterReleaseOwner
  <2>5. ASSUME NEW m \in Names, DeleteName(m)
        PROVE  ~isEphemeralOwner(claims'[n].clientId)
    BY <2>5, <2>0, <2>u DEF DeleteName, AfterDeleteName, ClaimTable
  <2>6. ASSUME Hour
        PROVE  ~isEphemeralOwner(claims'[n].clientId)
    <3>1. claims[n] \in Entry /\ claims[n] # None
      BY <2>6, <2>0 DEF Hour, Age, ClaimTable
    <3>2. CASE claims'[n] = claims[n]
      BY <3>2, <2>u
    <3>3. CASE claims'[n] # claims[n]
      <4>1. /\ claims[n].socketId = None /\ claims[n].idle < IdleCap
            /\ claims'[n] = [claims[n] EXCEPT !.idle = @ + 1]
        BY <2>6, <3>1, <3>3 DEF Hour, Age
      <4>2. /\ claims'[n].clientId = claims[n].clientId
            /\ claims'[n].idle = claims[n].idle + 1
            /\ claims'[n].socketId = None
        BY <3>1, <4>1 DEF Entry
      <4>3. ~_expired(claims[n])
        BY <2>0, <3>1, <4>1, <4>2, ClaimTtlInt, IdleCapNat DEF _expired, Entry
      <4> QED
        BY <3>1, <4>1, <4>2, <4>3, OwnerIsEntry DEF Reserved
    <3> QED
      BY <3>2, <3>3
  <2>7. CASE UNCHANGED vars
    BY <2>7, <2>u DEF vars
  <2> QED
    BY <2>1, <2>2, <2>3, <2>4, <2>5, <2>6, <2>7 DEF Next
<1>3. TypeOK /\ DurableReservations /\ [Next]_vars
        => [\A n \in Names : Honoured(n)]_vars
  <2> SUFFICES ASSUME TypeOK, DurableReservations, Next,
                      NEW n \in Names, Reserved(claims, n)
               PROVE  \/ owner(claims', n) # None
                           /\ claims'[n].clientId = claims[n].clientId
                      \/ ReleaseOwner(claims[n].clientId) \/ DeleteName(n)
                      \/ Hour /\ claims[n].idle = claim_ttl
    OBVIOUS
  <2> DEFINE Goal == \/ owner(claims', n) # None
                          /\ claims'[n].clientId = claims[n].clientId
                     \/ ReleaseOwner(claims[n].clientId) \/ DeleteName(n)
                     \/ Hour /\ claims[n].idle = claim_ttl
  <2>0. /\ owner(claims, n) # None
        /\ claims[n].socketId = None
        /\ ~isEphemeralOwner(claims[n].clientId)
    BY DEF Reserved
  <2> claims \in ClaimTable
    BY DEF TypeOK
  <2>1. ASSUME NEW s \in Sockets, NEW c \in Owners, NEW S \in SUBSET Names,
               Grant(s, c, S)
        PROVE  Goal
    BY <2>1, <2>0, ClaimKeepsOwner DEF Grant
  <2>2. ASSUME NEW s \in Sockets, NEW c \in Owners, NEW S \in SUBSET Names,
               Refuse(s, c, S)
        PROVE  Goal
    BY <2>2, <2>0, PurgeKeepsOwner DEF Refuse
  <2>3. ASSUME NEW s \in Sockets, Release(s) PROVE Goal
    <3>1. ~ReleasedBy(claims, n, s)
      BY <2>0, NameClaimsAssumption DEF ReleasedBy
    <3> QED
      BY <2>3, <2>0, <3>1, ReleaseKeepsOwner DEF Release
  <2>4. ASSUME NEW c \in Owners, ReleaseOwner(c) PROVE Goal
    <3>1. CASE c = claims[n].clientId
      BY <2>4, <3>1
    <3>2. CASE c # claims[n].clientId
      BY <2>4, <2>0, <3>2, OwnerUnchanged DEF ReleaseOwner, AfterReleaseOwner
    <3> QED
      BY <3>1, <3>2
  <2>5. ASSUME NEW m \in Names, DeleteName(m) PROVE Goal
    <3>1. CASE m = n
      BY <2>5, <3>1
    <3>2. CASE m # n
      <4>1. claims'[n] = claims[n]
        BY <2>5, <3>2 DEF DeleteName, AfterDeleteName, ClaimTable
      <4> QED
        BY <4>1, <2>0, OwnerUnchanged
    <3> QED
      BY <3>1, <3>2
  <2>6. CASE Hour
    <3>1. CASE claims[n].idle = claim_ttl
      BY <2>6, <3>1
    <3>2. CASE claims[n].idle # claim_ttl
      BY <2>6, <2>0, <3>2, AgeKeepsOwner DEF Hour
    <3> QED
      BY <3>1, <3>2
  <2> QED
    BY <2>1, <2>2, <2>3, <2>4, <2>5, <2>6 DEF Next
<1> QED
  BY <1>1, <1>2, <1>3, TypeCorrect, PTL DEF Spec, ReservationHonoured

-----------------------------------------------------------------------------
(* The registry implements the promise of NameOwnership: each operation is *)
(* a grant, a departure, a lapse or a revocation of some set of names.     *)

LEMMA OwnerMapAt ==
  ASSUME NEW n \in Names
  PROVE  OwnerMap[n] = IF owner(claims, n) = None THEN None ELSE claims[n].clientId
  BY DEF OwnerMap

LEMMA OwnerMapAtNext ==
  ASSUME NEW n \in Names
  PROVE  OwnerMap'[n] = IF owner(claims', n) = None THEN None ELSE claims'[n].clientId
  BY DEF OwnerMap

LEMMA OwnerIsNotNone ==
  ASSUME NEW cl \in ClaimTable, NEW n \in Names, owner(cl, n) # None
  PROVE  cl[n].clientId \in Owners /\ cl[n].clientId # None
  BY OwnerMeansEntry, NameClaimsAssumption DEF Entry

THEOREM RegistryImplementsOwnership == Spec => OwnershipSpec
<1>1. Init => Ownership!Init
  BY DEF Init, Ownership!Init, OwnerMap, HeldNames, owner, NoClaims
<1>2. TypeOK /\ ClaimsBacked /\ [Next]_vars => [Ownership!Next]_(Ownership!vars)
  <2> SUFFICES ASSUME TypeOK, ClaimsBacked, Next
               PROVE  Ownership!Next \/ UNCHANGED <<OwnerMap, HeldNames>>
    <3>1. UNCHANGED vars => UNCHANGED <<OwnerMap, HeldNames>>
      BY DEF vars, OwnerMap, HeldNames, owner, _expired
    <3> QED
      BY <3>1 DEF Ownership!vars
  <2> claims \in ClaimTable /\ granted \in [Sockets -> SUBSET Names]
    BY DEF TypeOK
  <2>1. ASSUME NEW s \in Sockets, NEW c \in Owners, NEW S \in SUBSET Names,
               Grant(s, c, S)
        PROVE  Ownership!Grant(S, c)
    <3> claims' = AfterClaim(claims, S, c, s) /\ CanClaim(claims, S, c)
      BY <2>1 DEF Grant
    <3>1. S # {}
      BY DEF CanClaim
    <3>2. \A n \in S : OwnerMap[n] \in {None, c} \cup EphemeralOwners
      BY OwnerMapAt DEF CanClaim, TakenFrom, isEphemeralOwner
    <3>3. ASSUME NEW n \in Names
          PROVE  OwnerMap'[n] = IF n \in S THEN c ELSE OwnerMap[n]
      <4>1. CASE n \in S
        BY <4>1, OwnerMapAtNext, ClaimedOwner
      <4>2. CASE n \notin S
        BY <4>2, OwnerMapAt, OwnerMapAtNext DEF AfterClaim, owner
      <4> QED
        BY <4>1, <4>2
    <3>4. OwnerMap' = [n \in Names |-> IF n \in S THEN c ELSE OwnerMap[n]]
      BY <3>3 DEF OwnerMap
    <3>5. HeldNames' = HeldNames \cup S
      <4>1. \A n \in S : claims'[n] \in Entry /\ claims'[n].socketId = s
        BY IdleCapNat DEF AfterClaim, Entry
      <4>2. \A n \in Names \ S : claims'[n] = claims[n]
        BY DEF AfterClaim
      <4> QED
        BY <4>1, <4>2, NameClaimsAssumption DEF HeldNames
    <3> QED
      BY <3>1, <3>2, <3>4, <3>5 DEF Ownership!Grant
  <2>2. ASSUME NEW s \in Sockets, NEW c \in Owners, NEW S \in SUBSET Names,
               Refuse(s, c, S)
        PROVE  UNCHANGED <<OwnerMap, HeldNames>>
    <3>1. PICK P \in RefusalPurges(claims, S) : claims' = Purge(claims, P)
      BY <2>2 DEF Refuse
    <3>2. \A n \in P : n \in Names /\ claims[n] # None /\ owner(claims, n) = None
      BY <3>1 DEF RefusalPurges, ExpiredNames
    <3>3. \A n \in Names : n \notin P => claims'[n] = claims[n]
      BY <3>1 DEF Purge
    <3>4. \A n \in P : claims'[n] = None /\ claims[n].socketId = None
      BY <3>1, <3>2, NameClaimsAssumption DEF Purge, owner, _expired, ClaimTable
    <3>5. OwnerMap' = OwnerMap
      BY <3>2, <3>3, <3>4 DEF OwnerMap, owner
    <3>6. HeldNames' = HeldNames
      BY <3>3, <3>4 DEF HeldNames
    <3> QED
      BY <3>5, <3>6
  <2>3. ASSUME NEW s \in Sockets, Release(s)
        PROVE  Ownership!Depart({n \in granted[s] : claims[n] # None
                                                    /\ claims[n].socketId = s})
    <3> DEFINE S == {n \in granted[s] : claims[n] # None /\ claims[n].socketId = s}
    <3>0. /\ claims' = AfterRelease(claims, granted[s], s)
          /\ granted[s] \subseteq Names
          /\ s # None
      BY <2>3, NameClaimsAssumption DEF Release
    <3>1. S \subseteq HeldNames
      BY <3>0 DEF HeldNames
    <3>2. \A n \in Names \ S : claims'[n] = claims[n]
      BY <3>0 DEF AfterRelease, ReleasedBy
    <3>3. \A n \in S : ReleasedBy(claims, n, s) /\ n \in Names /\ claims[n] \in Entry
      BY <3>0 DEF ReleasedBy, ClaimTable
    <3>4. \A n \in S :
            claims'[n] = IF claim_ttl <= 0 \/ isEphemeralOwner(claims[n].clientId)
                           THEN None
                           ELSE [clientId |-> claims[n].clientId,
                                 socketId |-> None, idle |-> 0]
      BY <3>0, <3>3 DEF AfterRelease
    <3>5. ASSUME NEW n \in S
          PROVE  /\ claims'[n] = None \/ claims'[n].socketId = None
                 /\ OwnerMap[n] = claims[n].clientId
                 /\ OwnerMap'[n] =
                      IF ~(claim_ttl > 0) \/ claims[n].clientId \in EphemeralOwners
                        THEN None ELSE OwnerMap[n]
      <4>1. owner(claims, n) # None
        BY <3>0, <3>3, OwnerIsEntry DEF _expired
      <4>2. OwnerMap[n] = claims[n].clientId
        BY <4>1, <3>3, OwnerMapAt
      <4>3. CASE claim_ttl <= 0 \/ isEphemeralOwner(claims[n].clientId)
        <5>1. claims'[n] = None /\ n \in Names
          BY <4>3, <3>3, <3>4
        <5>2. OwnerMap'[n] = None
          BY <5>1, OwnerMapAtNext DEF owner
        <5> QED
          BY <4>2, <4>3, <5>1, <5>2, ClaimTtlInt DEF isEphemeralOwner
      <4>4. CASE ~(claim_ttl <= 0 \/ isEphemeralOwner(claims[n].clientId))
        <5>0. claims'[n] = [clientId |-> claims[n].clientId,
                            socketId |-> None, idle |-> 0]
          BY <4>4, <3>4
        <5>1. /\ claims'[n].socketId = None
              /\ claims'[n].clientId = claims[n].clientId
          BY <5>0
        <5>2. owner(claims', n) # None
          BY <4>1, <4>4, <3>0, <3>3, ReleaseKeepsOwner, ClaimTtlInt
        <5>3. OwnerMap'[n] = OwnerMap[n]
          BY <5>1, <5>2, <3>3, <4>2, OwnerMapAtNext
        <5> QED
          BY <4>2, <4>4, <5>1, <5>3, ClaimTtlInt DEF isEphemeralOwner
      <4> QED
        BY <4>3, <4>4
    <3>6. HeldNames' = HeldNames \ S
      BY <3>2, <3>3, <3>5 DEF HeldNames
    <3>7. \A n \in Names \ S : OwnerMap'[n] = OwnerMap[n]
      BY <3>2, OwnerMapAt, OwnerMapAtNext DEF owner
    <3>8. OwnerMap' = [n \in Names |->
            IF n \in S /\ (~(claim_ttl > 0) \/ OwnerMap[n] \in EphemeralOwners)
              THEN None ELSE OwnerMap[n]]
      <4>1. OwnerMap' = [n \in Names |-> OwnerMap'[n]]
        BY DEF OwnerMap
      <4> QED
        BY <4>1, <3>5, <3>7
    <3> QED
      BY <3>1, <3>6, <3>8 DEF Ownership!Depart
  <2>4. ASSUME NEW c \in Owners, ReleaseOwner(c)
        PROVE  Ownership!Revoke({n \in Names : claims[n] # None
                                               /\ claims[n].clientId = c})
    <3> DEFINE S == {n \in Names : claims[n] # None /\ claims[n].clientId = c}
    <3>1. claims' = [n \in Names |-> IF n \in S THEN None ELSE claims[n]]
      BY <2>4 DEF ReleaseOwner, AfterReleaseOwner
    <3>2. HeldNames' = HeldNames \ S
      BY <3>1 DEF HeldNames
    <3>3. OwnerMap' = [n \in Names |-> IF n \in S THEN None ELSE OwnerMap[n]]
      BY <3>1 DEF OwnerMap, owner
    <3> QED
      BY <3>2, <3>3 DEF Ownership!Revoke
  <2>5. ASSUME NEW m \in Names, DeleteName(m)
        PROVE  Ownership!Revoke({m})
    <3>1. claims' = [n \in Names |-> IF n \in {m} THEN None ELSE claims[n]]
      BY <2>5 DEF DeleteName, AfterDeleteName, ClaimTable
    <3>2. HeldNames' = HeldNames \ {m}
      BY <3>1 DEF HeldNames
    <3>3. OwnerMap' = [n \in Names |-> IF n \in {m} THEN None ELSE OwnerMap[n]]
      BY <3>1 DEF OwnerMap, owner
    <3> QED
      BY <3>2, <3>3 DEF Ownership!Revoke
  <2>6. CASE Hour
    <3> DEFINE S == {n \in Names : owner(claims', n) = None}
    <3> claims' = Age(claims)
      BY <2>6 DEF Hour
    <3>1. ASSUME NEW n \in Names
          PROVE  /\ claims'[n] = None <=> claims[n] = None
                 /\ claims[n] # None =>
                      /\ claims[n] \in Entry
                      /\ claims'[n] \in Entry
                      /\ claims'[n].clientId = claims[n].clientId
                      /\ claims'[n].socketId = claims[n].socketId
                      /\ claims[n].idle <= claims'[n].idle
      <4>1. CASE claims[n] = None
        BY <4>1 DEF Age
      <4>2. CASE claims[n] # None
        <5>1. claims[n] \in Entry
          BY <4>2 DEF ClaimTable
        <5>2. \/ claims'[n] = claims[n]
              \/ claims'[n] = [claims[n] EXCEPT !.idle = @ + 1]
                   /\ claims[n].idle < IdleCap
          BY <4>2 DEF Age
        <5>3. CASE claims'[n] = claims[n]
          BY <5>1, <5>3, <4>2, IdleCapNat DEF Entry
        <5>4. CASE /\ claims'[n] = [claims[n] EXCEPT !.idle = @ + 1]
                   /\ claims[n].idle < IdleCap
          <6>1. claims'[n] \in Entry
            BY <5>1, <5>4, IdleCapNat DEF Entry
          <6>2. /\ claims'[n].clientId = claims[n].clientId
                /\ claims'[n].socketId = claims[n].socketId
                /\ claims[n].idle <= claims'[n].idle
            BY <5>1, <5>4, IdleCapNat DEF Entry
          <6> QED
            BY <4>2, <5>1, <6>1, <6>2, NameClaimsAssumption
        <5> QED
          BY <5>2, <5>3, <5>4
      <4> QED
        BY <4>1, <4>2
    <3>2. HeldNames' = HeldNames
      BY <3>1 DEF HeldNames
    <3>3. S \cap HeldNames = {}
      BY <3>1, OwnerIsEntry DEF HeldNames, _expired
    <3>4. ASSUME NEW n \in Names, n \notin S
          PROVE  OwnerMap'[n] = OwnerMap[n]
      <4>1. claims'[n] # None /\ ~_expired(claims'[n])
        BY <3>4 DEF owner
      <4>2. ~_expired(claims[n]) /\ claims[n] # None
        BY <4>1, <3>1, ClaimTtlInt, IdleCapNat DEF _expired, Entry
      <4> QED
        BY <4>1, <4>2, <3>1, OwnerIsEntry, OwnerMapAt, OwnerMapAtNext
    <3>5. OwnerMap' = [n \in Names |-> IF n \in S THEN None ELSE OwnerMap[n]]
      <4>1. \A n \in Names : n \in S => OwnerMap'[n] = None
        BY OwnerMapAtNext
      <4>2. OwnerMap' = [n \in Names |-> OwnerMap'[n]]
        BY DEF OwnerMap
      <4> QED
        BY <4>1, <4>2, <3>4
    <3>6. Ownership!Lapse(S)
      BY <3>2, <3>3, <3>5 DEF Ownership!Lapse
    <3> QED
      BY <3>6 DEF Ownership!Next
  <2> QED
    <3>1. \A s \in Sockets : granted[s] \in SUBSET Names
      OBVIOUS
    <3> QED
      BY <2>1, <2>2, <2>3, <2>4, <2>5, <2>6, <3>1 DEF Next, Ownership!Next
<1> QED
  BY <1>1, <1>2, TypeCorrect, ClaimsStayBacked, PTL
     DEF Spec, OwnershipSpec, Ownership!Spec
=============================================================================
