------------------------- MODULE TunnelClusterProofs -------------------------
(***************************************************************************)
(* A cluster with any number of workers, sockets and names.  Whatever      *)
(* crashes, times out or is removed while claims and releases are under    *)
(* way, a claimed name can be traced to a socket of its owner; a host is   *)
(* not left with a worker that has no tunnel for it; and as long as no     *)
(* worker is lost, visitors are handed to the worker of their tunnel.      *)
(***************************************************************************)
EXTENDS TunnelCluster, FiniteSetTheorems, SequenceTheorems, TLAPS

-----------------------------------------------------------------------------
(* Queues and sequences.                                                   *)

\* At most one message of M is in q.
Once(q, M) == \A i, j \in 1..Len(q) : q[i] \in M /\ q[j] \in M => i = j

LEMMA SetOf ==
  ASSUME NEW S, NEW q \in Seq(S)
  PROVE  /\ ToSet(q) = {q[i] : i \in 1..Len(q)} /\ Len(q) \in Nat
         /\ \A m : m \in ToSet(q) <=> \E i \in 1..Len(q) : q[i] = m
<1>1. DOMAIN q = 1..Len(q) /\ Len(q) \in Nat
  BY LenProperties
<1> QED BY <1>1 DEF ToSet

LEMMA AtConcat ==
  ASSUME NEW S, NEW q \in Seq(S), NEW p \in Seq(S)
  PROVE  /\ q \o p \in Seq(S) /\ Len(q \o p) = Len(q) + Len(p)
         /\ \A i \in 1..Len(q) : i \in 1..Len(q \o p) /\ (q \o p)[i] = q[i]
         /\ \A i \in 1..Len(p) : Len(q) + i \in 1..Len(q \o p) /\ (q \o p)[Len(q) + i] = p[i]
         /\ \A i \in 1..Len(q \o p) :
              \/ i \in 1..Len(q) /\ (q \o p)[i] = q[i]
              \/ \E j \in 1..Len(p) : i = Len(q) + j /\ (q \o p)[i] = p[j]
<1>1. Len(q) \in Nat /\ Len(p) \in Nat
  BY LenProperties
<1>2. /\ Len(q \o p) = Len(q) + Len(p) /\ q \o p \in Seq(S)
      /\ \A i \in 1..(Len(q) + Len(p)) : (q \o p)[i] = IF i <= Len(q) THEN q[i] ELSE p[i - Len(q)]
  BY ConcatProperties
<1>3. \A i \in 1..Len(q) : i \in 1..Len(q \o p) /\ (q \o p)[i] = q[i]
  BY <1>1, <1>2
<1>4. ASSUME NEW i \in 1..Len(p)
      PROVE  Len(q) + i \in 1..Len(q \o p) /\ (q \o p)[Len(q) + i] = p[i]
  <2>1. Len(q) + i \in 1..(Len(q) + Len(p)) /\ ~(Len(q) + i <= Len(q)) /\ (Len(q) + i) - Len(q) = i
    BY <1>1
  <2> QED BY <1>2, <2>1
<1>5. ASSUME NEW i \in 1..Len(q \o p)
      PROVE  \/ i \in 1..Len(q) /\ (q \o p)[i] = q[i]
             \/ \E j \in 1..Len(p) : i = Len(q) + j /\ (q \o p)[i] = p[j]
  <2>1. CASE i <= Len(q)
    BY <1>1, <1>2, <2>1
  <2>2. CASE ~(i <= Len(q))
    <3>1. i - Len(q) \in 1..Len(p) /\ i = Len(q) + (i - Len(q)) /\ (q \o p)[i] = p[i - Len(q)]
      BY <1>1, <1>2, <2>2
    <3> QED BY <3>1
  <2> QED BY <2>1, <2>2
<1> QED BY <1>2, <1>3, <1>4, <1>5

LEMMA SetOfConcat ==
  ASSUME NEW S, NEW q \in Seq(S), NEW p \in Seq(S)
  PROVE  q \o p \in Seq(S) /\ ToSet(q \o p) = ToSet(q) \cup ToSet(p)
<1> DEFINE u == q \o p
<1>1. /\ u \in Seq(S)
      /\ \A i \in 1..Len(q) : i \in 1..Len(u) /\ u[i] = q[i]
      /\ \A i \in 1..Len(p) : Len(q) + i \in 1..Len(u) /\ u[Len(q) + i] = p[i]
      /\ \A i \in 1..Len(u) : \/ i \in 1..Len(q) /\ u[i] = q[i]
                              \/ \E j \in 1..Len(p) : i = Len(q) + j /\ u[i] = p[j]
  BY AtConcat
<1> HIDE DEF u
<1>2. /\ ToSet(u) = {u[i] : i \in 1..Len(u)}
      /\ ToSet(q) = {q[i] : i \in 1..Len(q)}
      /\ ToSet(p) = {p[i] : i \in 1..Len(p)}
  BY <1>1, SetOf
<1>3. ToSet(u) \subseteq ToSet(q) \cup ToSet(p)
  BY <1>1, <1>2
<1>4. ToSet(q) \subseteq ToSet(u) /\ ToSet(p) \subseteq ToSet(u)
  BY <1>1, <1>2
<1> QED BY <1>1, <1>3, <1>4 DEF u

LEMMA TailParts ==
  ASSUME NEW S, NEW q \in Seq(S), q # <<>>
  PROVE  /\ Tail(q) \in Seq(S) /\ Head(q) \in S
         /\ ToSet(q) = {Head(q)} \cup ToSet(Tail(q))
         /\ \A M : Once(q, M) =>
              Once(Tail(q), M) /\ (Head(q) \in M => M \cap ToSet(Tail(q)) = {})
<1> DEFINE t == Tail(q)
<1>1. /\ t \in Seq(S) /\ Len(q) \in Nat \ {0} /\ Len(t) = Len(q) - 1
      /\ Head(q) = q[1] /\ Head(q) \in S
      /\ \A i \in 1..Len(t) : t[i] = q[i + 1]
  <2>1. Len(q) \in Nat \ {0} /\ Head(q) = q[1]
    BY EmptySeq
  <2> QED BY <2>1, HeadTailProperties
<1> HIDE DEF t
<1>2. /\ ToSet(q) = {q[i] : i \in 1..Len(q)}
      /\ ToSet(t) = {t[i] : i \in 1..Len(t)}
  BY <1>1, SetOf
<1>3. \A i \in 1..Len(t) : i + 1 \in 1..Len(q) /\ i + 1 # 1
  BY <1>1
<1>4. \A i \in 1..Len(q) : i # 1 => i - 1 \in 1..Len(t) /\ q[i] = t[i - 1]
  BY <1>1
<1>5. 1 \in 1..Len(q)
  BY <1>1
<1>6. ToSet(q) = {Head(q)} \cup ToSet(t)
  <2>1. ASSUME NEW i \in 1..Len(q) PROVE q[i] \in {Head(q)} \cup ToSet(t)
    <3>1. CASE i = 1
      BY <1>1, <3>1
    <3>2. CASE i # 1
      BY <1>2, <1>4, <3>2
    <3> QED BY <3>1, <3>2
  <2>2. {Head(q)} \cup ToSet(t) \subseteq ToSet(q)
    BY <1>1, <1>2, <1>3, <1>5
  <2> QED BY <1>2, <2>1, <2>2
<1>7. ASSUME NEW M, Once(q, M)
      PROVE  Once(t, M) /\ (Head(q) \in M => M \cap ToSet(t) = {})
  <2>1. ASSUME NEW i \in 1..Len(t), NEW j \in 1..Len(t), t[i] \in M, t[j] \in M PROVE i = j
    <3>1. i + 1 = j + 1
      BY <1>1, <1>3, <1>7, <2>1 DEF Once
    <3> QED BY <1>1, <3>1
  <2>2. ASSUME Head(q) \in M, NEW i \in 1..Len(t) PROVE t[i] \notin M
    BY <1>1, <1>3, <1>5, <1>7, <2>2 DEF Once
  <2> QED BY <1>2, <2>1, <2>2 DEF Once
<1> QED BY <1>1, <1>6, <1>7 DEF t

LEMMA OnceConcat ==
  ASSUME NEW S, NEW q \in Seq(S), NEW p \in Seq(S), NEW M
  PROVE  /\ Once(q, M) /\ M \cap ToSet(p) = {} => Once(q \o p, M)
         /\ M \cap ToSet(q) = {} /\ Once(p, M) => Once(q \o p, M)
<1> DEFINE u == q \o p
<1>1. /\ u \in Seq(S)
      /\ \A i \in 1..Len(u) : \/ i \in 1..Len(q) /\ u[i] = q[i]
                              \/ \E j \in 1..Len(p) : i = Len(q) + j /\ u[i] = p[j]
  BY AtConcat
<1> HIDE DEF u
<1>2. /\ \A i \in 1..Len(q) : q[i] \in ToSet(q)
      /\ \A i \in 1..Len(p) : p[i] \in ToSet(p)
  BY SetOf
<1>3. ASSUME Once(q, M), M \cap ToSet(p) = {} PROVE Once(u, M)
  <2>1. \A i \in 1..Len(u) : u[i] \in M => i \in 1..Len(q) /\ u[i] = q[i]
    BY <1>1, <1>2, <1>3
  <2> QED BY <1>3, <2>1 DEF Once
<1>4. ASSUME M \cap ToSet(q) = {}, Once(p, M) PROVE Once(u, M)
  <2>1. \A i \in 1..Len(u) : u[i] \in M => \E j \in 1..Len(p) : i = Len(q) + j /\ p[j] \in M
    BY <1>1, <1>2, <1>4
  <2>2. ASSUME NEW i \in 1..Len(u), NEW j \in 1..Len(u), u[i] \in M, u[j] \in M PROVE i = j
    <3>1. PICK a \in 1..Len(p) : i = Len(q) + a /\ p[a] \in M
      BY <2>1, <2>2
    <3>2. PICK b \in 1..Len(p) : j = Len(q) + b /\ p[b] \in M
      BY <2>1, <2>2
    <3>3. a = b
      BY <1>4, <3>1, <3>2 DEF Once
    <3> QED BY <3>1, <3>2, <3>3
  <2> QED BY <2>2 DEF Once
<1> QED BY <1>3, <1>4 DEF u

\* What is left of a queue when its end is lost.
LEMMA CutParts ==
  ASSUME NEW S, NEW q \in Seq(S), NEW n \in 0..Len(q)
  PROVE  LET p == SubSeq(q, 1, n)
         IN  p \in Seq(S) /\ ToSet(p) \subseteq ToSet(q) /\ \A M : Once(q, M) => Once(p, M)
<1> DEFINE p == SubSeq(q, 1, n)
<1>1. Len(q) \in Nat /\ \A i \in 1..Len(q) : q[i] \in S
  BY LenProperties, ElementOfSeq
<1>2. p \in Seq(S) /\ Len(p) = n /\ \A i \in 1..n : p[i] = q[i]
  <2>1. n \in Int /\ \A i \in 1..n : q[i] \in S
    BY <1>1
  <2>2. /\ p \in Seq(S)
        /\ Len(p) = IF 1 <= n THEN n - 1 + 1 ELSE 0
        /\ \A i \in 1..(n - 1 + 1) : p[i] = q[1 + i - 1]
    BY <2>1, SubSeqProperties
  <2> HIDE DEF p
  <2>3. n - 1 + 1 = n /\ (IF 1 <= n THEN n - 1 + 1 ELSE 0) = n /\ \A i \in 1..n : 1 + i - 1 = i
    BY <1>1
  <2>4. \A i \in 1..n : p[i] = q[i]
    BY <2>2, <2>3
  <2> QED BY <2>2, <2>3, <2>4
<1> HIDE DEF p
<1>3. \A i \in 1..n : i \in 1..Len(q)
  BY <1>1
<1>4. /\ ToSet(q) = {q[i] : i \in 1..Len(q)}
      /\ ToSet(p) = {p[i] : i \in 1..Len(p)}
  BY <1>2, SetOf
<1>5. ToSet(p) \subseteq ToSet(q)
  BY <1>2, <1>3, <1>4
<1>6. \A M : Once(q, M) => Once(p, M)
  BY <1>2, <1>3 DEF Once
<1> QED BY <1>2, <1>5, <1>6 DEF p

-----------------------------------------------------------------------------
(* Induction up to n, for a set: what contains 0 and successors reaches n. *)
LEMMA Reaches ==
  ASSUME NEW n \in Nat, NEW T, 0 \in T, \A m \in 0..(n - 1) : m \in T => m + 1 \in T
  PROVE  n \in T
<1> SUFFICES ASSUME n \notin T PROVE FALSE
  OBVIOUS
<1> DEFINE D == {m \in 0..n : m \notin T}
           f == [m \in D |-> m - 1]
<1>1. IsFiniteSet(D) /\ n \in D
  <2>1. IsFiniteSet(0..n)
    BY FS_Interval
  <2>2. D \subseteq 0..n
    OBVIOUS
  <2> QED BY <2>1, <2>2, FS_Subset
<1>2. \A m \in D : m - 1 \in D \ {n} /\ m \in Int
  <2> SUFFICES ASSUME NEW m \in D PROVE m - 1 \in D \ {n} /\ m \in Int
    OBVIOUS
  <2>1. m \in 0..n /\ m \notin T /\ m # 0
    OBVIOUS
  <2>2. m - 1 \in 0..(n - 1) /\ (m - 1) + 1 = m /\ m - 1 \in 0..n /\ m - 1 # n
    BY <2>1
  <2>3. m - 1 \notin T
    BY <2>1, <2>2
  <2> QED BY <2>2, <2>3
<1>3. f \in [D -> D \ {n}] /\ \A a, b \in D : f[a] = f[b] => a = b
  BY <1>2
<1> HIDE DEF f, D
<1>4. f \in Injection(D, D \ {n})
  BY <1>3 DEF Injection, IsInjective
<1>5. Cardinality(D) \in Nat /\ IsFiniteSet(D \ {n}) /\ Cardinality(D \ {n}) = Cardinality(D) - 1
  BY <1>1, FS_CardinalityType, FS_RemoveElement
<1>6. Cardinality(D) <= Cardinality(D \ {n})
  BY <1>4, <1>5, FS_Injection
<1> QED BY <1>5, <1>6

\* FlattenSeq puts the sequences one after the other.
LEMMA FlattenParts ==
  ASSUME NEW S, NEW n \in Nat, NEW ss \in [1..n -> Seq(S)]
  PROVE  /\ FlattenSeq(ss) \in Seq(S)
         /\ \A m : m \in ToSet(FlattenSeq(ss)) <=> \E i \in 1..n : m \in ToSet(ss[i])
<1> DEFINE G(g, m) == g = [i \in 1..m |-> IF i = 1 THEN ss[i] ELSE g[i - 1] \o ss[i]]
<1>1. ss \in Seq(Seq(S)) /\ Len(ss) = n
  BY SeqDef, LenProperties
<1>2. CASE n = 0
  <2>1. FlattenSeq(ss) = ss /\ ss = <<>>
    BY <1>1, <1>2, EmptySeq DEF FlattenSeq
  <2>2. <<>> \in Seq(S) /\ ToSet(<<>>) = {}
    BY EmptySeq DEF ToSet
  <2> QED BY <1>2, <2>1, <2>2
<1>3. CASE n # 0
  <2>1. \E g : G(g, n)
    <3> DEFINE T == {m \in 0..n : \E g : G(g, m)}
    <3>1. 0 \in T
      <4>1. G(<<>>, 0)
        OBVIOUS
      <4>2. 0 \in 0..n
        OBVIOUS
      <4> HIDE DEF G
      <4> QED BY <4>1, <4>2
    <3>2. ASSUME NEW m \in 0..(n - 1), m \in T PROVE m + 1 \in T
      <4>1. PICK g : G(g, m)
        BY <3>2
      <4> DEFINE h == [i \in 1..(m + 1) |-> IF i = m + 1 THEN IF i = 1 THEN ss[i] ELSE g[m] \o ss[i] ELSE g[i]]
      <4>2. m \in Nat /\ m + 1 \in 0..n
        OBVIOUS
      <4>3. ASSUME NEW i \in 1..(m + 1) PROVE h[i] = IF i = 1 THEN ss[i] ELSE h[i - 1] \o ss[i]
        <5>1. CASE i = m + 1
          <6>1. CASE i = 1
            BY <5>1, <6>1
          <6>2. CASE i # 1
            <7>1. i - 1 = m /\ i - 1 \in 1..(m + 1) /\ i - 1 # m + 1
              BY <4>2, <5>1, <6>2
            <7>2. h[i - 1] = g[m]
              BY <7>1
            <7> QED BY <5>1, <6>2, <7>2
          <6> QED BY <6>1, <6>2
        <5>2. CASE i # m + 1
          <6>1. i \in 1..m /\ h[i] = g[i]
            BY <4>2, <5>2
          <6>2. g[i] = IF i = 1 THEN ss[i] ELSE g[i - 1] \o ss[i]
            BY <4>1, <6>1
          <6>3. i # 1 => h[i - 1] = g[i - 1]
            BY <4>2, <6>1
          <6> QED BY <6>1, <6>2, <6>3
        <5> QED BY <5>1, <5>2
      <4>4. h = [i \in 1..(m + 1) |-> h[i]]
        OBVIOUS
      <4> HIDE DEF h
      <4>5. G(h, m + 1)
        BY <4>3, <4>4
      <4> QED BY <4>2, <4>5
    <3> HIDE DEF T
    <3>3. n \in T
      BY <3>1, <3>2, Reaches
    <3> QED BY <3>3 DEF T
  <2> DEFINE f == CHOOSE g : G(g, n)
  <2>2. G(f, n)
    BY <2>1
  <2>3. FlattenSeq(ss) = f[n]
    BY <1>1, <1>3 DEF FlattenSeq
  <2> HIDE DEF f
  <2> DEFINE U == {0} \cup {m \in 1..n : /\ f[m] \in Seq(S)
                                         /\ \A x : x \in ToSet(f[m]) <=> \E i \in 1..m : x \in ToSet(ss[i])}
  <2>4. ASSUME NEW m \in 0..(n - 1), m \in U PROVE m + 1 \in U
    <3> DEFINE k == m + 1
    <3>1. k \in 1..n /\ m \in Nat
      OBVIOUS
    <3>2. ss[k] \in Seq(S) /\ f[k] = IF k = 1 THEN ss[k] ELSE f[k - 1] \o ss[k]
      BY <2>2, <3>1
    <3>3. CASE m = 0
      <4>1. k = 1 /\ f[k] = ss[1] /\ ss[1] \in Seq(S) /\ 1..k = {1}
        BY <3>2, <3>3
      <4> HIDE DEF k
      <4>2. \A x : x \in ToSet(f[k]) <=> \E i \in 1..k : x \in ToSet(ss[i])
        BY <4>1
      <4> QED BY <3>1, <3>2, <4>1, <4>2 DEF k
    <3>4. CASE m # 0
      <4>1. /\ f[m] \in Seq(S)
            /\ \A x : x \in ToSet(f[m]) <=> \E i \in 1..m : x \in ToSet(ss[i])
        BY <2>4, <3>4
      <4>2. f[k] = f[m] \o ss[k]
        <5>1. k # 1 /\ k - 1 = m
          BY <3>1, <3>4
        <5> QED BY <3>2, <5>1
      <4>3. f[k] \in Seq(S) /\ ToSet(f[k]) = ToSet(f[m]) \cup ToSet(ss[k])
        BY <3>2, <4>1, <4>2, SetOfConcat
      <4>4. \A i : i \in 1..k <=> i \in 1..m \/ i = k
        BY <3>1
      <4> HIDE DEF k
      <4>5. \A x : x \in ToSet(f[k]) <=> \E i \in 1..k : x \in ToSet(ss[i])
        BY <4>1, <4>3, <4>4
      <4> QED BY <3>1, <4>3, <4>5 DEF k
    <3> QED BY <3>3, <3>4
  <2>5. 0 \in U
    OBVIOUS
  <2> HIDE DEF U
  <2>6. n \in U
    BY <2>4, <2>5, Reaches
  <2> QED BY <1>3, <2>3, <2>6 DEF U
<1> QED BY <1>2, <1>3

\* The elements of a finite set, in some order.
LEMMA SetToSeqParts ==
  ASSUME NEW S, IsFiniteSet(S)
  PROVE  LET q == SetToSeq(S)
         IN  /\ Cardinality(S) \in Nat /\ q \in [1..Cardinality(S) -> S]
             /\ \A x \in S : \E i \in 1..Cardinality(S) : q[i] = x
<1> DEFINE n == Cardinality(S)
           q == SetToSeq(S)
<1>1. n \in Nat /\ ExistsBijection(1..n, S)
  BY FS_CardinalityType
<1>2. q = CHOOSE f \in [1..n -> S] : IsInjective(f)
  BY DEF SetToSeq
<1> HIDE DEF n, q
<1>3. \E f \in [1..n -> S] : IsInjective(f)
  BY <1>1 DEF ExistsBijection, Bijection, Injection
<1>4. q \in [1..n -> S] /\ IsInjective(q)
  BY <1>2, <1>3
<1>5. q \in Injection(1..n, S)
  BY <1>4 DEF Injection
<1>6. Cardinality(1..n) = n /\ Cardinality(S) = n
  <2>1. Cardinality(1..n) = n
    BY <1>1, FS_Interval
  <2> QED BY <2>1 DEF n
<1>7. q \in Surjection(1..n, S)
  BY <1>5, <1>6, FS_Injection
<1> QED BY <1>1, <1>4, <1>7 DEF Surjection, n, q

-----------------------------------------------------------------------------
(* The inductive invariant.                                                *)
Phases == {"new", "asked", "open", "left", "gone"}
Asked(s) == resolveRequestedNames(hs[s])
Claim(s) == Message("CLAIM_HOSTS", s)
Release(s) == Message("RELEASE_HOSTS", s)
Answer(s, ok) == [type |-> "CLAIM_HOSTS_RES", arg |-> s, ok |-> ok]
Answers(s) == {Answer(s, TRUE), Answer(s, FALSE)}
Lost(w) == status[w] \in {"dead", "exited"}

\* A socket that has arrived is at a worker, which lives as long as the socket waits
\* for its claim or is connected; what it was granted is what it asked for.  Nothing is on
\* its way to a worker that is not up.
SocketsOK ==
  /\ phase \in [Sockets -> Phases] /\ hs \in [Sockets -> Handshakes \cup {None}]
  /\ granted \in [Sockets -> SUBSET Names] /\ at \in [Sockets -> Workers \cup {None}]
  /\ status \in [Workers -> {"unborn", "up", "dead", "exited"}]
  /\ \A s \in Sockets :
       /\ phase[s] # "new" => at[s] \in Workers /\ hs[s] \in Handshakes
       /\ granted[s] = {} \/ (phase[s] # "new" /\ granted[s] = Asked(s))
       /\ phase[s] \in {"asked", "open"} => status[at[s]] = "up"
  /\ \A w \in Workers : status[w] # "up" => toWorker[w] = <<>>

\* A worker routes to sockets that are connected to it, under their own aliases.
RoutesOK ==
  /\ tab = [w \in Workers |-> tab[w]]
  /\ \A w \in Workers, k \in Keys :
       LET s == tab[w].routes[k] IN
       s # None => s \in Sockets /\ phase[s] = "open" /\ at[s] = w
                     /\ k \in Aliases(hs[s], granted[s])

Fields == {"hostToWorker", "workerHosts", "sockets", "activeHosts", "claims", "workerClaims"}

\* The primary knows finitely many hosts; its claims are a claim table.
Shape(p) ==
  /\ DOMAIN p = Fields
  /\ p.sockets = [k \in Keys |-> p.sockets[k]]
  /\ IsFiniteSet({k \in Keys : p.sockets[k] # None})
  /\ p.claims \in ClaimTable

\* The messages about the names of socket s, between worker w and the primary: its claim
\* is asked for once and answered once, and only a socket that is gone releases names.
TalkOK(w, s) ==
  /\ Once(toPrimary[w], {Claim(s)}) /\ Once(toWorker[w], Answers(s))
  /\ Claim(s) \in ToSet(toPrimary[w]) =>
       /\ at[s] = w /\ phase[s] # "new" /\ (phase[s] \in {"asked", "left"} \/ Lost(w))
       /\ Answers(s) \cap ToSet(toWorker[w]) = {}
  /\ Answers(s) \cap ToSet(toWorker[w]) # {} => at[s] = w /\ phase[s] # "new"
  /\ Release(s) \in ToSet(toPrimary[w]) =>
       at[s] = w /\ phase[s] = "gone" /\ granted[s] = Asked(s)

TalksOK ==
  /\ toPrimary \in [Workers -> Seq(Messages)] /\ toWorker \in [Workers -> Seq(Messages)]
  /\ \A w \in Workers, s \in Sockets : TalkOK(w, s)

\* A name rests on a socket that has arrived.
RestsOK == \A n \in Names, s \in Sockets : Resting(n, s) => phase[s] # "new"

CInv == SocketsOK /\ RoutesOK /\ Shape(primary) /\ TalksOK /\ RestsOK /\ ClaimsTraced

\* Why a name rests on s.
Reason(n, s) ==
  \/ phase[s] = "open" /\ n \in granted[s]
  \/ phase[s] = "asked" /\ Answer(s, TRUE) \in ToSet(toWorker[at[s]])
  \/ Release(s) \in ToSet(toPrimary[at[s]])
  \/ phase[s] = "left"
  \/ Lost(at[s])

LEMMA TracedDef ==
  ClaimsTraced <=>
    \A n \in Names, s \in Sockets : Resting(n, s) =>
      n \in Asked(s) /\ hs[s].owner = primary.claims[n].clientId /\ Reason(n, s)
BY DEF ClaimsTraced, Reason, Asked, Answer, Release, Lost

\* Messages about different things differ.
LEMMA Distinct ==
  /\ \A s, t : Claim(s) = Claim(t) => s = t
  /\ \A s, t : Release(s) = Release(t) => s = t
  /\ \A s, type, x : type # "CLAIM_HOSTS" => Message(type, x) # Claim(s)
  /\ \A s, type, x : type # "RELEASE_HOSTS" => Message(type, x) # Release(s)
  /\ \A s, type, x : type # "CLAIM_HOSTS_RES" => Message(type, x) \notin Answers(s)
  /\ \A s, t, ok : Answer(t, ok) \in Answers(s) => s = t
  /\ \A s, m : m \in Answers(s) => m.type = "CLAIM_HOSTS_RES" /\ m.arg = s
  /\ \A s : Answer(s, TRUE) # Answer(s, FALSE)
<1>1. \A type, x : Message(type, x).type = type /\ Message(type, x).arg = x
  BY DEF Message
<1>2. \A s, ok : /\ Answer(s, ok).type = "CLAIM_HOSTS_RES" /\ Answer(s, ok).arg = s
                 /\ Answer(s, ok).ok = ok
  BY DEF Answer
<1>3. \A s, t : Claim(s) = Claim(t) => s = t
  BY <1>1 DEF Claim
<1>4. \A s, t : Release(s) = Release(t) => s = t
  BY <1>1 DEF Release
<1>5. \A s, type, x : type # "CLAIM_HOSTS" => Message(type, x) # Claim(s)
  BY <1>1 DEF Claim
<1>6. \A s, type, x : type # "RELEASE_HOSTS" => Message(type, x) # Release(s)
  BY <1>1 DEF Release
<1>7. \A s, m : m \in Answers(s) => m.type = "CLAIM_HOSTS_RES" /\ m.arg = s
  BY DEF Answers, Answer
<1>8. \A s, type, x : type # "CLAIM_HOSTS_RES" => Message(type, x) \notin Answers(s)
  BY <1>1, <1>7
<1>9. \A s, t, ok : Answer(t, ok) \in Answers(s) => s = t
  BY <1>2, <1>7
<1>10. \A s : Answer(s, TRUE) # Answer(s, FALSE)
  <2> SUFFICES ASSUME NEW s, Answer(s, TRUE) = Answer(s, FALSE) PROVE FALSE
    OBVIOUS
  <2>1. Answer(s, TRUE).ok = Answer(s, FALSE).ok
    OBVIOUS
  <2> QED BY <2>1 DEF Answer
<1> QED BY <1>3, <1>4, <1>5, <1>6, <1>7, <1>8, <1>9, <1>10

-----------------------------------------------------------------------------
(* The primary handles a message.                                          *)
LEMMA HandledTalks ==
  ASSUME CInv, NEW w \in Workers, NEW p, NEW msgs \in [Workers -> Seq(Messages)],
         toPrimary[w] # <<>>, Handled(w, p, msgs),
         \A v \in Workers, s \in Sockets :
           /\ Once(msgs[v], Answers(s))
           /\ Answers(s) \cap ToSet(msgs[v]) # {} => v = w /\ Head(toPrimary[w]) = Claim(s)
  PROVE  TalksOK'
<1>1. /\ toPrimary \in [Workers -> Seq(Messages)] /\ toWorker \in [Workers -> Seq(Messages)]
      /\ \A v \in Workers, s \in Sockets : TalkOK(v, s)
  BY DEF CInv, TalksOK
<1>2. /\ toPrimary' = [toPrimary EXCEPT ![w] = Tail(@)]
      /\ toWorker' = [v \in Workers |->
                        IF isConnected(v) THEN toWorker[v] \o msgs[v] ELSE toWorker[v]]
      /\ UNCHANGED <<phase, hs, granted, at, status>>
  BY DEF Handled, socketVars, workerVars
<1>3. /\ Tail(toPrimary[w]) \in Seq(Messages)
      /\ ToSet(toPrimary[w]) = {Head(toPrimary[w])} \cup ToSet(Tail(toPrimary[w]))
      /\ \A M : Once(toPrimary[w], M) =>
           Once(Tail(toPrimary[w]), M) /\ (Head(toPrimary[w]) \in M => M \cap ToSet(Tail(toPrimary[w])) = {})
  BY <1>1, TailParts
<1>4. ASSUME NEW v \in Workers
      PROVE  /\ toPrimary'[v] \in Seq(Messages) /\ ToSet(toPrimary'[v]) \subseteq ToSet(toPrimary[v])
             /\ \A M : Once(toPrimary[v], M) => Once(toPrimary'[v], M)
             /\ \A s : v = w /\ Head(toPrimary[w]) = Claim(s) /\ Once(toPrimary[v], {Claim(s)})
                         => Claim(s) \notin ToSet(toPrimary'[v])
  BY <1>1, <1>2, <1>3
<1>5. ASSUME NEW v \in Workers
      PROVE  /\ toWorker'[v] \in Seq(Messages)
             /\ ToSet(toWorker'[v]) \subseteq ToSet(toWorker[v]) \cup ToSet(msgs[v])
             /\ \A M : \/ Once(toWorker[v], M) /\ M \cap ToSet(msgs[v]) = {}
                       \/ Once(toWorker[v], M) /\ M \cap ToSet(toWorker[v]) = {} /\ Once(msgs[v], M)
                       => Once(toWorker'[v], M)
  <2>1. toWorker'[v] = toWorker[v] \o msgs[v] \/ toWorker'[v] = toWorker[v]
    BY <1>2
  <2>2. toWorker[v] \in Seq(Messages) /\ msgs[v] \in Seq(Messages)
    BY <1>1
  <2>3. /\ toWorker[v] \o msgs[v] \in Seq(Messages)
        /\ ToSet(toWorker[v] \o msgs[v]) = ToSet(toWorker[v]) \cup ToSet(msgs[v])
    BY <2>2, SetOfConcat
  <2>4. \A M : \/ Once(toWorker[v], M) /\ M \cap ToSet(msgs[v]) = {}
               \/ M \cap ToSet(toWorker[v]) = {} /\ Once(msgs[v], M)
               => Once(toWorker[v] \o msgs[v], M)
    BY <2>2, OnceConcat
  <2> QED BY <2>1, <2>2, <2>3, <2>4
<1>6. ASSUME NEW v \in Workers, NEW s \in Sockets PROVE TalkOK(v, s)'
  <2>1. TalkOK(v, s)
    BY <1>1
  <2>2. Answers(s) \cap ToSet(msgs[v]) # {} =>
          /\ v = w /\ Head(toPrimary[w]) = Claim(s) /\ Claim(s) \in ToSet(toPrimary[v])
          /\ Claim(s) \notin ToSet(toPrimary'[v])
    BY <1>3, <1>4, <2>1 DEF TalkOK
  <2>3. Once(toPrimary'[v], {Claim(s)})
    BY <1>4, <2>1 DEF TalkOK
  <2>4. Once(toWorker'[v], Answers(s))
    BY <1>5, <2>1, <2>2 DEF TalkOK
  <2>5. Claim(s) \in ToSet(toPrimary'[v]) =>
          /\ at[s] = v /\ phase[s] # "new" /\ (phase[s] \in {"asked", "left"} \/ Lost(v))
          /\ Answers(s) \cap ToSet(toWorker'[v]) = {}
    BY <1>4, <1>5, <2>1, <2>2 DEF TalkOK
  <2>6. Answers(s) \cap ToSet(toWorker'[v]) # {} => at[s] = v /\ phase[s] # "new"
    BY <1>5, <2>1, <2>2 DEF TalkOK
  <2>7. Release(s) \in ToSet(toPrimary'[v]) =>
          at[s] = v /\ phase[s] = "gone" /\ granted[s] = Asked(s)
    BY <1>4, <2>1 DEF TalkOK
  <2> QED BY <1>2, <2>3, <2>4, <2>5, <2>6, <2>7 DEF TalkOK, Lost, Asked, Claim, Release, Answers, Answer
<1>7. toPrimary' \in [Workers -> Seq(Messages)]
  BY <1>1, <1>2, <1>4
<1>8. toWorker' \in [Workers -> Seq(Messages)]
  BY <1>2, <1>5
<1> QED BY <1>6, <1>7, <1>8 DEF TalksOK

\* A name that rests on s in the new tables p did so before and s releases nothing now,
\* or it was just granted and the answer is among msgs.
ClaimsFollow(w, p, msgs) ==
  \A n \in Names, s \in Sockets : p.claims[n] # None /\ p.claims[n].socketId = s =>
    \/ /\ Resting(n, s) /\ p.claims[n].clientId = primary.claims[n].clientId
       /\ Head(toPrimary[w]) # Release(s)
    \/ /\ Head(toPrimary[w]) = Claim(s) /\ Answer(s, TRUE) \in ToSet(msgs[w])
       /\ n \in Asked(s) /\ p.claims[n].clientId = hs[s].owner

LEMMA HandledTraced ==
  ASSUME CInv, NEW w \in Workers, NEW p, NEW msgs \in [Workers -> Seq(Messages)],
         toPrimary[w] # <<>>, Handled(w, p, msgs),
         ClaimsFollow(w, p, msgs)
  PROVE  RestsOK' /\ ClaimsTraced'
<1>1. /\ toPrimary \in [Workers -> Seq(Messages)] /\ toWorker \in [Workers -> Seq(Messages)]
      /\ \A v \in Workers, s \in Sockets : TalkOK(v, s)
  BY DEF CInv, TalksOK
<1>2. /\ toPrimary' = [toPrimary EXCEPT ![w] = Tail(@)] /\ primary' = p
      /\ toWorker' = [v \in Workers |->
                        IF isConnected(v) THEN toWorker[v] \o msgs[v] ELSE toWorker[v]]
      /\ UNCHANGED <<phase, hs, granted, at, status>>
  BY DEF Handled, socketVars, workerVars
<1>3. ToSet(toPrimary[w]) = {Head(toPrimary[w])} \cup ToSet(Tail(toPrimary[w]))
  BY <1>1, TailParts
<1>4. ASSUME NEW v \in Workers
      PROVE  /\ \A m \in ToSet(toPrimary[v]) : m \in ToSet(toPrimary'[v]) \/ (v = w /\ m = Head(toPrimary[w]))
             /\ ToSet(toWorker[v]) \subseteq ToSet(toWorker'[v])
             /\ status[v] = "up" => ToSet(msgs[v]) \subseteq ToSet(toWorker'[v])
  <2>1. toWorker[v] \in Seq(Messages) /\ msgs[v] \in Seq(Messages)
    BY <1>1
  <2>2. ToSet(toWorker[v] \o msgs[v]) = ToSet(toWorker[v]) \cup ToSet(msgs[v])
    BY <2>1, SetOfConcat
  <2>3. isConnected(v) <=> status[v] = "up"
    BY ClusterAssumption DEF isConnected
  <2> QED BY <1>1, <1>2, <1>3, <2>2, <2>3
<1>5. SocketsOK /\ RestsOK /\ \A n \in Names, s \in Sockets : Resting(n, s) =>
        n \in Asked(s) /\ hs[s].owner = primary.claims[n].clientId /\ Reason(n, s)
  BY TracedDef DEF CInv
<1>6. ASSUME NEW n \in Names, NEW s \in Sockets, Resting(n, s)'
      PROVE  /\ phase[s] # "new" /\ n \in Asked(s) /\ hs[s].owner = p.claims[n].clientId
             /\ \/ phase[s] = "open" /\ n \in granted[s]
                \/ phase[s] = "asked" /\ Answer(s, TRUE) \in ToSet(toWorker'[at[s]])
                \/ Release(s) \in ToSet(toPrimary'[at[s]])
                \/ phase[s] = "left"
                \/ Lost(at[s])
  <2>1. p.claims[n] # None /\ p.claims[n].socketId = s
    BY <1>2, <1>6 DEF Resting
  <2>2. CASE /\ Resting(n, s) /\ p.claims[n].clientId = primary.claims[n].clientId
             /\ Head(toPrimary[w]) # Release(s)
    <3>1. phase[s] # "new" /\ at[s] \in Workers
      BY <1>5, <2>2 DEF RestsOK, SocketsOK
    <3> QED BY <1>4, <1>5, <2>2, <3>1 DEF Reason
  <2>3. CASE /\ Head(toPrimary[w]) = Claim(s) /\ Answer(s, TRUE) \in ToSet(msgs[w])
             /\ n \in Asked(s) /\ p.claims[n].clientId = hs[s].owner
    <3>1. /\ at[s] = w /\ phase[s] # "new" /\ (phase[s] \in {"asked", "left"} \/ Lost(w))
      BY <1>1, <1>3, <2>3 DEF TalkOK
    <3>2. phase[s] = "asked" => status[w] = "up"
      BY <1>5, <3>1 DEF SocketsOK
    <3> QED BY <1>4, <2>3, <3>1, <3>2
  <2> QED BY <2>1, <2>2, <2>3 DEF ClaimsFollow
<1>7. RestsOK'
  BY <1>2, <1>6 DEF RestsOK
<1>8. ClaimsTraced'
  BY <1>2, <1>6 DEF ClaimsTraced, Asked, Answer, Release, Lost
<1> QED BY <1>7, <1>8

-----------------------------------------------------------------------------
(* A worker serves a handshake, a transport's end or the administrator.    *)

\* What a step of worker w, which sends msgs, does to socket s.
Turn(w, msgs, s) ==
  \/ /\ phase'[s] = phase[s] /\ hs'[s] = hs[s] /\ granted'[s] = granted[s] /\ at'[s] = at[s]
     /\ phase[s] = "asked" =>
          \A v \in Workers : Answers(s) \cap ToSet(toWorker[v]) \subseteq ToSet(toWorker'[v])
  \/ /\ phase[s] = "new" /\ phase'[s] \in {"asked", "open", "gone"} /\ hs'[s] \in Handshakes
     /\ granted'[s] = granted[s] /\ at'[s] = w /\ status[w] = "up"
  \/ /\ phase[s] = "asked" /\ hs'[s] = hs[s] /\ at'[s] = at[s]
     /\ \/ phase'[s] = "left" /\ granted'[s] = granted[s]
        \/ /\ Answers(s) \cap ToSet(toWorker[w]) # {}
           /\ phase'[s] = "open" /\ granted'[s] = Asked(s)
        \/ /\ Answers(s) \cap ToSet(toWorker[w]) # {} /\ Answer(s, TRUE) \notin ToSet(toWorker[w])
           /\ phase'[s] = "gone" /\ granted'[s] = granted[s]
  \/ /\ phase[s] = "open" /\ phase'[s] = "gone"
     /\ hs'[s] = hs[s] /\ granted'[s] = granted[s] /\ at'[s] = at[s] /\ at[s] = w
     /\ granted[s] = {} \/ Release(s) \in ToSet(msgs)

\* The names and claims of such a step.
WorkerStep(w, msgs) ==
  /\ msgs \in Seq(Messages)
  /\ phase' \in [Sockets -> Phases] /\ hs' \in [Sockets -> Handshakes \cup {None}]
  /\ granted' \in [Sockets -> SUBSET Names] /\ at' \in [Sockets -> Workers \cup {None}]
  /\ status' = status /\ primary' = primary /\ toPrimary' = Sent(w, msgs)
  /\ \/ toWorker' = toWorker
     \/ toWorker[w] # <<>> /\ toWorker' = [toWorker EXCEPT ![w] = Tail(@)]
  /\ \A s \in Sockets :
       /\ Turn(w, msgs, s)
       /\ Claim(s) \in ToSet(msgs) =>
            phase[s] = "new" /\ phase'[s] = "asked" /\ Once(msgs, {Claim(s)})
       /\ Release(s) \in ToSet(msgs) => phase[s] = "open" /\ phase'[s] = "gone" /\ granted[s] # {}

\* What the same step does to the routes, and tells the primary about it: the route of a
\* key stays and no registration mentions the key; or its socket is unregistered; or it
\* leads to the socket registered last.
Reg(s) == Message("REGISTER_HOST", s)
Unreg(s) == Message("UNREGISTER_HOST", s)
AliasesOf(s) == Aliases(hs[s], granted[s])

Unmentioned(msgs, k) ==
  \A s \in Sockets : Reg(s) \in ToSet(msgs) => k \notin Aliases(hs'[s], granted'[s])

Rerouted(w, msgs, k) ==
  LET e == tab[w].routes[k]
      f == tab'[w].routes[k]
  IN  \/ f = e /\ Unmentioned(msgs, k)
      \/ e # None /\ f = None /\ Unreg(e) \in ToSet(msgs) /\ Unmentioned(msgs, k)
      \/ /\ f \in Sockets /\ k \in Aliases(hs'[f], granted'[f])
         /\ Len(msgs) > 0 /\ msgs[Len(msgs)] = Reg(f)

Routing(w, msgs) ==
  /\ msgs \in Seq(Messages) /\ status[w] = "up"
  /\ UNCHANGED <<status, primary>> /\ toPrimary' = Sent(w, msgs)
  /\ toWorker' = toWorker \/ toWorker' = [toWorker EXCEPT ![w] = Tail(@)]
  /\ \A v \in Workers \ {w} : tab'[v] = tab[v]
  /\ \A s \in Sockets :
       /\ phase[s] # "new" => phase'[s] # "new" /\ hs'[s] = hs[s] /\ at'[s] = at[s]
       /\ phase[s] \in {"open", "gone"} =>
            phase'[s] \in {phase[s], "gone"} /\ granted'[s] = granted[s]
       /\ phase'[s] = "open" /\ phase[s] # "open" => at'[s] = w
       /\ Reg(s) \in ToSet(msgs) => at'[s] = w /\ phase'[s] = "open" /\ phase[s] # "open"
       /\ Unreg(s) \in ToSet(msgs) => at[s] = w /\ phase[s] = "open" /\ phase'[s] = "gone"
  /\ \A k \in Keys : Rerouted(w, msgs, k)

Steered == \E w \in Workers : \E msgs : Routing(w, msgs)

LEMMA WorkerSockets ==
  ASSUME CInv, NEW w \in Workers, NEW msgs, WorkerStep(w, msgs)
  PROVE  SocketsOK' /\ Shape(primary)'
<1>1. SocketsOK /\ Shape(primary) /\ TalksOK
  BY DEF CInv
<1>2. ASSUME NEW s \in Sockets
      PROVE  /\ phase'[s] # "new" => at'[s] \in Workers /\ hs'[s] \in Handshakes
             /\ granted'[s] = {} \/ (phase'[s] # "new" /\ granted'[s] = resolveRequestedNames(hs'[s]))
             /\ phase'[s] \in {"asked", "open"} => status[at'[s]] = "up"
  <2>1. Turn(w, msgs, s)
    BY DEF WorkerStep
  <2>2. /\ phase[s] # "new" => at[s] \in Workers /\ hs[s] \in Handshakes
        /\ granted[s] = {} \/ (phase[s] # "new" /\ granted[s] = Asked(s))
        /\ phase[s] \in {"asked", "open"} => status[at[s]] = "up"
    BY <1>1 DEF SocketsOK
  <2> QED BY <2>1, <2>2 DEF Turn, Asked
<1>3. ASSUME NEW v \in Workers, status'[v] # "up" PROVE toWorker'[v] = <<>>
  <2>1. status[v] # "up" /\ toWorker[v] = <<>>
    BY <1>1, <1>3 DEF SocketsOK, WorkerStep
  <2>2. toWorker'[v] = toWorker[v]
    <3>1. toWorker \in [Workers -> Seq(Messages)]
      BY <1>1 DEF TalksOK
    <3> QED BY <2>1, <3>1 DEF WorkerStep
  <2> QED BY <2>1, <2>2
<1>4. SocketsOK'
  BY <1>1, <1>2, <1>3 DEF SocketsOK, WorkerStep, Asked
<1>5. Shape(primary)'
  BY <1>1 DEF Shape, WorkerStep
<1> QED BY <1>4, <1>5

LEMMA WorkerTalks ==
  ASSUME CInv, NEW w \in Workers, NEW msgs, WorkerStep(w, msgs)
  PROVE  TalksOK'
<1>1. /\ toPrimary \in [Workers -> Seq(Messages)] /\ toWorker \in [Workers -> Seq(Messages)]
      /\ \A v \in Workers, s \in Sockets : TalkOK(v, s)
  BY DEF CInv, TalksOK
<1>2. /\ msgs \in Seq(Messages) /\ toPrimary' = [toPrimary EXCEPT ![w] = @ \o msgs]
      /\ status' = status
  BY DEF WorkerStep, Sent
<1>3. /\ toPrimary[w] \o msgs \in Seq(Messages)
      /\ ToSet(toPrimary[w] \o msgs) = ToSet(toPrimary[w]) \cup ToSet(msgs)
  BY <1>1, <1>2, SetOfConcat
<1>4. \A M : \/ Once(toPrimary[w], M) /\ M \cap ToSet(msgs) = {}
             \/ M \cap ToSet(toPrimary[w]) = {} /\ Once(msgs, M)
             => Once(toPrimary[w] \o msgs, M)
  BY <1>1, <1>2, OnceConcat
<1>5. ASSUME NEW v \in Workers
      PROVE  /\ toPrimary'[v] \in Seq(Messages)
             /\ \A m \in ToSet(toPrimary'[v]) : m \in ToSet(toPrimary[v]) \/ (v = w /\ m \in ToSet(msgs))
             /\ \A M : \/ Once(toPrimary[v], M) /\ M \cap ToSet(msgs) = {}
                       \/ Once(toPrimary[v], M) /\ v # w
                       \/ M \cap ToSet(toPrimary[v]) = {} /\ Once(msgs, M) /\ v = w
                       => Once(toPrimary'[v], M)
  BY <1>1, <1>2, <1>3, <1>4
<1>6. ASSUME NEW v \in Workers
      PROVE  /\ toWorker'[v] \in Seq(Messages) /\ ToSet(toWorker'[v]) \subseteq ToSet(toWorker[v])
             /\ \A M : Once(toWorker[v], M) => Once(toWorker'[v], M)
  <2>1. CASE toWorker' = toWorker
    BY <1>1, <2>1
  <2>2. CASE toWorker[w] # <<>> /\ toWorker' = [toWorker EXCEPT ![w] = Tail(@)]
    <3>1. /\ Tail(toWorker[w]) \in Seq(Messages) /\ ToSet(Tail(toWorker[w])) \subseteq ToSet(toWorker[w])
          /\ \A M : Once(toWorker[w], M) => Once(Tail(toWorker[w]), M)
      BY <1>1, <2>2, TailParts
    <3> QED BY <1>1, <2>2, <3>1
  <2> QED BY <2>1, <2>2 DEF WorkerStep
<1>7. SocketsOK
  BY DEF CInv
<1>8. ASSUME NEW v \in Workers, NEW s \in Sockets PROVE TalkOK(v, s)'
  <2>1. TalkOK(v, s)
    BY <1>1
  <2>2. /\ Turn(w, msgs, s)
        /\ Claim(s) \in ToSet(msgs) =>
             phase[s] = "new" /\ phase'[s] = "asked" /\ Once(msgs, {Claim(s)})
        /\ Release(s) \in ToSet(msgs) => phase[s] = "open" /\ phase'[s] = "gone" /\ granted[s] # {}
    BY DEF WorkerStep
  <2>3. granted[s] = {} \/ granted[s] = Asked(s)
    BY <1>7 DEF SocketsOK
  <2>4. Once(toPrimary'[v], {Claim(s)})
    <3>1. CASE Claim(s) \in ToSet(msgs)
      <4>1. Claim(s) \notin ToSet(toPrimary[v])
        BY <2>1, <2>2, <3>1 DEF TalkOK
      <4> QED BY <1>5, <2>1, <2>2, <3>1, <4>1 DEF TalkOK
    <3>2. CASE Claim(s) \notin ToSet(msgs)
      BY <1>5, <2>1, <3>2 DEF TalkOK
    <3> QED BY <3>1, <3>2
  <2>5. Once(toWorker'[v], Answers(s))
    BY <1>6, <2>1 DEF TalkOK
  <2>6. phase[s] # "new" => phase'[s] # "new" /\ at'[s] = at[s]
    BY <2>2 DEF Turn
  <2>7. ASSUME Claim(s) \in ToSet(toPrimary'[v])
        PROVE  /\ at'[s] = v /\ phase'[s] # "new" /\ (phase'[s] \in {"asked", "left"} \/ Lost(v))
               /\ Answers(s) \cap ToSet(toWorker'[v]) = {}
    <3>1. CASE Claim(s) \in ToSet(toPrimary[v])
      <4>1. /\ at[s] = v /\ phase[s] # "new" /\ (phase[s] \in {"asked", "left"} \/ Lost(v))
            /\ Answers(s) \cap ToSet(toWorker[v]) = {}
        BY <2>1, <3>1 DEF TalkOK
      <4>2. phase[s] = "asked" => Answers(s) \cap ToSet(toWorker[w]) = {}
        <5>1. TalkOK(w, s)
          BY <1>1
        <5> QED BY <4>1, <5>1 DEF TalkOK
      <4>3. phase[s] \in {"asked", "left"} => phase'[s] \in {"asked", "left"}
        BY <2>2, <4>2 DEF Turn
      <4> QED BY <1>6, <2>6, <4>1, <4>3
    <3>2. CASE Claim(s) \notin ToSet(toPrimary[v])
      <4>1. v = w /\ phase[s] = "new" /\ phase'[s] = "asked"
        BY <1>5, <2>2, <2>7, <3>2
      <4>2. at'[s] = w
        BY <2>2, <4>1 DEF Turn
      <4> QED BY <1>6, <2>1, <4>1, <4>2 DEF TalkOK
    <3> QED BY <3>1, <3>2
  <2>8. Answers(s) \cap ToSet(toWorker'[v]) # {} => at'[s] = v /\ phase'[s] # "new"
    BY <1>6, <2>1, <2>6 DEF TalkOK
  <2>9. ASSUME Release(s) \in ToSet(toPrimary'[v])
        PROVE  at'[s] = v /\ phase'[s] = "gone" /\ granted'[s] = resolveRequestedNames(hs'[s])
    <3>1. CASE Release(s) \in ToSet(toPrimary[v])
      BY <2>1, <2>2, <3>1 DEF TalkOK, Turn, Asked
    <3>2. CASE Release(s) \notin ToSet(toPrimary[v])
      <4>1. v = w /\ phase[s] = "open" /\ phase'[s] = "gone" /\ granted[s] # {}
        BY <1>5, <2>2, <2>9, <3>2
      <4> QED BY <2>2, <2>3, <4>1 DEF Turn, Asked
    <3> QED BY <3>1, <3>2
  <2>10. /\ Answers(s)' = Answers(s) /\ Claim(s)' = Claim(s) /\ Release(s)' = Release(s)
         /\ (Lost(v)' <=> Lost(v))
    BY <1>2 DEF Answers, Answer, Claim, Release, Lost
  <2> QED BY <2>4, <2>5, <2>7, <2>8, <2>9, <2>10 DEF TalkOK, Asked
<1>9. toPrimary' \in [Workers -> Seq(Messages)]
  BY <1>1, <1>2, <1>3
<1>10. toWorker' \in [Workers -> Seq(Messages)]
  <2>1. toWorker' = [v \in Workers |-> toWorker'[v]]
    BY <1>1 DEF WorkerStep
  <2> QED BY <1>6, <2>1
<1> QED BY <1>8, <1>9, <1>10 DEF TalksOK

LEMMA WorkerTraced ==
  ASSUME CInv, NEW w \in Workers, NEW msgs, WorkerStep(w, msgs)
  PROVE  RestsOK' /\ ClaimsTraced'
<1>1. /\ SocketsOK /\ RestsOK /\ toPrimary \in [Workers -> Seq(Messages)]
      /\ \A v \in Workers, s \in Sockets : TalkOK(v, s)
      /\ \A n \in Names, s \in Sockets : Resting(n, s) =>
           n \in Asked(s) /\ hs[s].owner = primary.claims[n].clientId /\ Reason(n, s)
  BY TracedDef DEF CInv, TalksOK
<1>2. /\ msgs \in Seq(Messages) /\ toPrimary' = [toPrimary EXCEPT ![w] = @ \o msgs]
      /\ status' = status /\ primary' = primary
  BY DEF WorkerStep, Sent
<1>3. ToSet(toPrimary[w] \o msgs) = ToSet(toPrimary[w]) \cup ToSet(msgs)
  BY <1>1, <1>2, SetOfConcat
<1>4. /\ \A v \in Workers : ToSet(toPrimary[v]) \subseteq ToSet(toPrimary'[v])
      /\ ToSet(msgs) \subseteq ToSet(toPrimary'[w])
  BY <1>1, <1>2, <1>3
<1>5. ASSUME NEW n \in Names, NEW s \in Sockets, Resting(n, s)
      PROVE  /\ phase'[s] # "new" /\ n \in resolveRequestedNames(hs'[s])
             /\ hs'[s].owner = primary.claims[n].clientId
             /\ \/ phase'[s] = "open" /\ n \in granted'[s]
                \/ phase'[s] = "asked" /\ Answer(s, TRUE) \in ToSet(toWorker'[at'[s]])
                \/ Release(s) \in ToSet(toPrimary'[at'[s]])
                \/ phase'[s] = "left"
                \/ Lost(at'[s])
  <2>1. /\ phase[s] # "new" /\ n \in Asked(s) /\ hs[s].owner = primary.claims[n].clientId
        /\ Reason(n, s) /\ at[s] \in Workers
    BY <1>1, <1>5 DEF RestsOK, SocketsOK
  <2>2. Turn(w, msgs, s)
    BY DEF WorkerStep
  <2>3. phase'[s] # "new" /\ hs'[s] = hs[s] /\ at'[s] = at[s]
    BY <2>1, <2>2 DEF Turn
  <2>4. Release(s) \in ToSet(toPrimary[at[s]]) => Release(s) \in ToSet(toPrimary'[at[s]])
    BY <1>4, <2>1
  <2>5. CASE phase'[s] = phase[s]
    <3>1. /\ granted'[s] = granted[s]
          /\ phase[s] = "asked" =>
               Answers(s) \cap ToSet(toWorker[at[s]]) \subseteq ToSet(toWorker'[at[s]])
      BY <2>1, <2>2, <2>5 DEF Turn
    <3>2. Answer(s, TRUE) \in Answers(s)
      BY DEF Answers
    <3> QED BY <2>1, <2>3, <2>4, <2>5, <3>1, <3>2 DEF Reason, Asked
  <2>6. CASE phase'[s] # phase[s] /\ phase[s] = "asked"
    <3>1. \/ phase'[s] = "left"
          \/ phase'[s] = "open" /\ granted'[s] = Asked(s)
          \/ /\ Answers(s) \cap ToSet(toWorker[w]) # {} /\ Answer(s, TRUE) \notin ToSet(toWorker[w])
             /\ phase'[s] = "gone"
      BY <2>2, <2>6 DEF Turn
    <3>2. Answers(s) \cap ToSet(toWorker[w]) # {} => at[s] = w
      <4>1. TalkOK(w, s)
        BY <1>1
      <4> QED BY <4>1 DEF TalkOK
    <3> QED BY <2>1, <2>3, <2>4, <2>6, <3>1, <3>2 DEF Reason, Asked
  <2>7. CASE phase'[s] # phase[s] /\ phase[s] # "asked"
    <3>1. /\ phase[s] = "open" /\ at[s] = w
          /\ granted[s] = {} \/ Release(s) \in ToSet(msgs)
      BY <2>1, <2>2, <2>7 DEF Turn
    <3> QED BY <1>4, <2>1, <2>3, <2>4, <3>1 DEF Reason, Asked
  <2> QED BY <2>5, <2>6, <2>7
<1>6. \A n \in Names, s \in Sockets : Resting(n, s)' <=> Resting(n, s)
  BY <1>2 DEF Resting
<1>7. RestsOK'
  BY <1>5, <1>6 DEF RestsOK
<1>8. ClaimsTraced'
  BY <1>2, <1>5, <1>6 DEF ClaimsTraced, Answer, Release, Lost
<1> QED BY <1>7, <1>8

\* The routes of worker w become those of t; another worker's sockets stay.
LEMMA RoutesKept ==
  ASSUME CInv, NEW w \in Workers, NEW msgs, WorkerStep(w, msgs), NEW t,
         tab' = [tab EXCEPT ![w] = t],
         \A k \in Keys : t.routes[k] # None =>
           LET s == t.routes[k] IN
           s \in Sockets /\ phase'[s] = "open" /\ at'[s] = w /\ k \in Aliases(hs'[s], granted'[s])
  PROVE  RoutesOK'
<1>1. /\ tab = [v \in Workers |-> tab[v]]
      /\ \A v \in Workers, k \in Keys :
           LET s == tab[v].routes[k] IN
           s # None => s \in Sockets /\ phase[s] = "open" /\ at[s] = v
                         /\ k \in Aliases(hs[s], granted[s])
  BY DEF CInv, RoutesOK
<1>2. tab' = [v \in Workers |-> tab'[v]] /\ tab'[w] = t /\ \A v \in Workers \ {w} : tab'[v] = tab[v]
  BY <1>1
<1>3. ASSUME NEW v \in Workers, NEW k \in Keys, tab'[v].routes[k] # None
      PROVE  LET s == tab'[v].routes[k] IN
             s \in Sockets /\ phase'[s] = "open" /\ at'[s] = v /\ k \in Aliases(hs'[s], granted'[s])
  <2>1. CASE v = w
    BY <1>2, <1>3, <2>1
  <2>2. CASE v # w
    <3> DEFINE s == tab[v].routes[k]
    <3>1. /\ tab'[v] = tab[v] /\ s \in Sockets /\ phase[s] = "open" /\ at[s] = v
          /\ k \in Aliases(hs[s], granted[s])
      BY <1>1, <1>2, <1>3, <2>2
    <3>2. Turn(w, msgs, s)
      BY <3>1 DEF WorkerStep
    <3> HIDE DEF s
    <3>3. /\ phase'[s] = "open" /\ at'[s] = v /\ hs'[s] = hs[s] /\ granted'[s] = granted[s]
      BY <2>2, <3>1, <3>2 DEF Turn
    <3> QED BY <3>1, <3>3 DEF s
  <2> QED BY <2>1, <2>2
<1> QED BY <1>2, <1>3 DEF RoutesOK

\* No socket closes and the routes stay.
LEMMA RoutesSame ==
  ASSUME CInv, NEW w \in Workers, NEW msgs, WorkerStep(w, msgs), tab' = tab,
         \A s \in Sockets : phase[s] = "open" => phase'[s] = "open"
  PROVE  RoutesOK'
<1>1. /\ tab = [v \in Workers |-> tab[v]]
      /\ \A v \in Workers, k \in Keys :
           LET s == tab[v].routes[k] IN
           s # None => s \in Sockets /\ phase[s] = "open" /\ at[s] = v
                         /\ k \in Aliases(hs[s], granted[s])
  BY DEF CInv, RoutesOK
<1>2. ASSUME NEW s \in Sockets, phase[s] = "open"
      PROVE  phase'[s] = "open" /\ at'[s] = at[s] /\ hs'[s] = hs[s] /\ granted'[s] = granted[s]
  <2>1. Turn(w, msgs, s)
    BY DEF WorkerStep
  <2> QED BY <1>2, <2>1 DEF Turn
<1> QED BY <1>1, <1>2 DEF RoutesOK

\* A step of a worker keeps the invariant when the routes stay in order.
LEMMA WorkerStepKeeps ==
  ASSUME CInv, NEW w \in Workers, NEW msgs, WorkerStep(w, msgs), RoutesOK'
  PROVE  CInv'
<1>1. SocketsOK' /\ Shape(primary)'
  BY WorkerSockets
<1>2. TalksOK'
  BY WorkerTalks
<1>3. RestsOK' /\ ClaimsTraced'
  BY WorkerTraced
<1> QED BY <1>1, <1>2, <1>3 DEF CInv

\* What is left to show of Routing.
LEMMA StepSteers ==
  ASSUME CInv, NEW w \in Workers, NEW msgs, WorkerStep(w, msgs), status[w] = "up",
         \A v \in Workers \ {w} : tab'[v] = tab[v],
         \A s \in Sockets : /\ phase'[s] = "open" /\ phase[s] # "open" => at'[s] = w
                            /\ Reg(s) \in ToSet(msgs) =>
                                 at'[s] = w /\ phase'[s] = "open" /\ phase[s] # "open"
                            /\ Unreg(s) \in ToSet(msgs) =>
                                 at[s] = w /\ phase[s] = "open" /\ phase'[s] = "gone",
         \A k \in Keys : Rerouted(w, msgs, k)
  PROVE  Steered
<1>1. ASSUME NEW s \in Sockets
      PROVE  /\ phase[s] # "new" => phase'[s] # "new" /\ hs'[s] = hs[s] /\ at'[s] = at[s]
             /\ phase[s] \in {"open", "gone"} =>
                  phase'[s] \in {phase[s], "gone"} /\ granted'[s] = granted[s]
  <2>1. Turn(w, msgs, s)
    BY DEF WorkerStep
  <2> QED BY <2>1 DEF Turn
<1>2. Routing(w, msgs)
  BY <1>1 DEF Routing, WorkerStep
<1> QED BY <1>2 DEF Steered

\* Nothing is said and no route changes.
LEMMA SilentSteers ==
  ASSUME CInv, NEW w \in Workers, NEW msgs, WorkerStep(w, msgs), status[w] = "up", tab' = tab,
         \A s \in Sockets : /\ phase'[s] = "open" => phase[s] = "open"
                            /\ Reg(s) \notin ToSet(msgs) /\ Unreg(s) \notin ToSet(msgs)
  PROVE  Steered
<1>1. \A k \in Keys : Rerouted(w, msgs, k)
  BY DEF Rerouted, Unmentioned, Reg
<1> QED BY <1>1, StepSteers

-----------------------------------------------------------------------------
(* What the steps of a worker send and where they lead.                    *)

LEMMA Single ==
  ASSUME NEW S, NEW a \in S
  PROVE  <<a>> \in Seq(S) /\ ToSet(<<a>>) = {a} /\ \A M : Once(<<a>>, M)
<1> DEFINE q == <<a>>
<1>1. q \in Seq(S) /\ Len(q) = 1 /\ q[1] = a
  OBVIOUS
<1> HIDE DEF q
<1>2. ToSet(q) = {q[i] : i \in 1..Len(q)}
  BY <1>1, SetOf
<1>3. ToSet(q) = {a} /\ \A M : Once(q, M)
  BY <1>1, <1>2 DEF Once
<1> QED BY <1>1, <1>3 DEF q

LEMMA Empty ==
  ASSUME NEW S
  PROVE  <<>> \in Seq(S) /\ ToSet(<<>>) = {}
BY EmptySeq DEF ToSet

LEMMA MessageTypes ==
  /\ \A type \in {"REGISTER_HOST", "UNREGISTER_HOST", "RELEASE_HOSTS", "CLAIM_HOSTS"},
        s \in Sockets : Message(type, s) \in Messages
  /\ \A type \in {"UNREGISTER_BARE", "DISCONNECT_SOCKET_CLUSTER", "FORGET_HOST",
                  "DO_DISCONNECT_SOCKET"}, k \in Keys : Message(type, k) \in Messages
  /\ \A n \in Names : Message("FORGET_NAME", n) \in Messages
  /\ \A type \in {"DISCONNECT_CLIENT_CLUSTER", "FORGET_CLIENT"}, l \in Labels :
       Message(type, l) \in Messages
  /\ \A s \in Sockets, ok \in BOOLEAN : Answer(s, ok) \in Messages
<1>1. \A type \in {"REGISTER_HOST", "UNREGISTER_HOST", "RELEASE_HOSTS", "CLAIM_HOSTS"},
        s \in Sockets : Message(type, s) \in Messages
  BY DEF Message, Messages
<1>2. \A type \in {"UNREGISTER_BARE", "DISCONNECT_SOCKET_CLUSTER", "FORGET_HOST",
                  "DO_DISCONNECT_SOCKET"}, k \in Keys : Message(type, k) \in Messages
  BY DEF Message, Messages
<1>3. \A n \in Names : Message("FORGET_NAME", n) \in Messages
  BY DEF Message, Messages
<1>4. \A type \in {"DISCONNECT_CLIENT_CLUSTER", "FORGET_CLIENT"}, l \in Labels :
       Message(type, l) \in Messages
  BY DEF Message, Messages
<1>5. \A s \in Sockets, ok \in BOOLEAN : Answer(s, ok) \in Messages
  BY DEF Answer, Messages
<1> QED BY <1>1, <1>2, <1>3, <1>4, <1>5

\* The other way round: what a message of some type is.
LEMMA MessageArgs ==
  ASSUME NEW m \in Messages
  PROVE  /\ m.type \in {"REGISTER_HOST", "UNREGISTER_HOST", "RELEASE_HOSTS", "CLAIM_HOSTS"} =>
              m.arg \in Sockets /\ m = Message(m.type, m.arg)
         /\ m.type \in {"UNREGISTER_BARE", "DISCONNECT_SOCKET_CLUSTER", "FORGET_HOST",
                        "DO_DISCONNECT_SOCKET"} => m.arg \in Keys
         /\ m.type = "FORGET_NAME" => m.arg \in Names
         /\ m.type \in {"DISCONNECT_CLIENT_CLUSTER", "FORGET_CLIENT"} => m.arg \in Labels
         /\ m.type = "CLAIM_HOSTS_RES" =>
              m.arg \in Sockets /\ m.ok \in BOOLEAN /\ m = Answer(m.arg, m.ok)
BY DEF Messages, Message, Answer

LEMMA NothingSent ==
  ASSUME CInv, NEW w \in Workers
  PROVE  toPrimary = Sent(w, <<>>)
<1>1. toPrimary \in [Workers -> Seq(Messages)]
  BY DEF CInv, TalksOK
<1>2. toPrimary[w] \o <<>> = toPrimary[w]
  BY <1>1, ConcatEmptySeq
<1> QED BY <1>1, <1>2 DEF Sent

LEMMA FarewellParts ==
  ASSUME NEW s \in Sockets
  PROVE  /\ Farewell(s) \in Seq(Messages)
         /\ \A m : m \in ToSet(Farewell(s)) <=>
              \/ m = Message("UNREGISTER_HOST", s)
              \/ granted[s] # {} /\ m = Release(s)
<1> DEFINE u == Message("UNREGISTER_HOST", s)
           v == Message("RELEASE_HOSTS", s)
<1>1. u \in Messages /\ v \in Messages
  BY MessageTypes
<1> HIDE DEF u, v
<1>2. /\ <<u>> \in Seq(Messages) /\ ToSet(<<u>>) = {u}
      /\ <<v>> \in Seq(Messages) /\ ToSet(<<v>>) = {v}
  BY <1>1, Single
<1>3. /\ <<u>> \o <<v>> \in Seq(Messages) /\ ToSet(<<u>> \o <<v>>) = {u, v}
  <2> DEFINE a == <<u>>
             b == <<v>>
  <2>1. a \in Seq(Messages) /\ ToSet(a) = {u} /\ b \in Seq(Messages) /\ ToSet(b) = {v}
    BY <1>2
  <2> HIDE DEF a, b
  <2>2. a \o b \in Seq(Messages) /\ ToSet(a \o b) = {u, v}
    BY <2>1, SetOfConcat
  <2> QED BY <2>2 DEF a, b
<1>4. <<u>> \o <<>> = <<u>>
  BY <1>2, ConcatEmptySeq
<1>5. Farewell(s) = <<u>> \o (IF granted[s] = {} THEN <<>> ELSE <<v>>)
  BY DEF Farewell, u, v
<1>6. CASE granted[s] = {}
  BY <1>2, <1>4, <1>5, <1>6 DEF u, v, Release
<1>7. CASE granted[s] # {}
  BY <1>3, <1>5, <1>7 DEF u, v, Release
<1> QED BY <1>6, <1>7

LEMMA FarewellNames ==
  ASSUME NEW s \in Sockets
  PROVE  \A r : /\ Claim(r) \notin ToSet(Farewell(s)) /\ Reg(r) \notin ToSet(Farewell(s))
                /\ Unreg(r) \in ToSet(Farewell(s)) <=> r = s
                /\ Release(r) \in ToSet(Farewell(s)) <=> r = s /\ granted[s] # {}
<1>1. \A m : m \in ToSet(Farewell(s)) <=> \/ m = Message("UNREGISTER_HOST", s)
                                          \/ granted[s] # {} /\ m = Release(s)
  BY FarewellParts
<1>2. \A r : /\ Claim(r) # Message("UNREGISTER_HOST", s) /\ Release(r) # Message("UNREGISTER_HOST", s)
             /\ Claim(r) # Release(s) /\ (Release(r) = Release(s) => r = s)
             /\ Reg(r) # Message("UNREGISTER_HOST", s) /\ Reg(r) # Release(s)
             /\ (Unreg(r) = Message("UNREGISTER_HOST", s) <=> r = s) /\ Unreg(r) # Release(s)
  BY DEF Claim, Release, Reg, Unreg, Message
<1> QED BY <1>1, <1>2

LEMMA HandshakeParts ==
  ASSUME NEW h \in Handshakes
  PROVE  h.host \in Hosts /\ h.host \in Keys /\ h.owner \in Owners
           /\ resolveRequestedNames(h) \subseteq Names
<1>1. h \in Handshake
  BY ClusterAssumption
<1>2. h.host \in Hosts /\ h.asked \subseteq Names /\ h.fallback \in Names \cup {None} /\ h.owner \in Owners
  BY <1>1 DEF Handshake
<1>3. NameOf[h.host] \in Names \cup {None}
  BY <1>2, TunnelTablesAssumption
<1> QED BY <1>2, <1>3, TunnelTablesAssumption DEF resolveRequestedNames

\* A handshake is handed to a worker that is up.
LEMMA WorkerIsUp ==
  ASSUME NEW w \in Workers, NEW h \in Hosts, w = workerForHost(h)
  PROVE  status[w] = "up"
<1> DEFINE alive == {i \in Slots : isConnected(slots[i])}
           least == CHOOSE i \in alive : \A j \in alive : i <= j
           N == Cardinality(Slots)
<1>1. N \in Nat /\ Slots = 1..N /\ None \notin Workers
  BY ClusterAssumption, FS_CardinalityType
<1>2. \/ isConnected(slots[hostSlot[h]]) /\ w = slots[hostSlot[h]]
      \/ alive # {} /\ w = slots[least]
  BY <1>1 DEF workerForHost
<1>3. alive \subseteq 1..N
  BY <1>1
<1>4. ASSUME alive # {} PROVE least \in alive
  <2> HIDE DEF N, alive
  <2>1. \E i \in alive : \A j \in alive : i <= j
    <3> SUFFICES ASSUME \A i \in alive : ~(\A j \in alive : i <= j) PROVE FALSE
      OBVIOUS
    <3> DEFINE T == {m \in 0..N : \A j \in alive : m < j}
    <3>1. 0 \in T
      BY <1>1, <1>3
    <3>2. ASSUME NEW m \in 0..(N - 1), m \in T PROVE m + 1 \in T
      <4>1. m + 1 \in 0..N /\ \A j \in alive : m + 1 <= j /\ j \in Int
        BY <1>1, <1>3, <3>2
      <4>2. m + 1 \notin alive
        BY <4>1
      <4>3. \A j \in alive : m + 1 < j
        BY <4>1, <4>2
      <4> QED BY <4>1, <4>3
    <3> HIDE DEF T
    <3>3. N \in T
      BY <1>1, <3>1, <3>2, Reaches
    <3>4. \A j \in alive : N < j
      BY <3>3 DEF T
    <3>5. PICK j : j \in alive
      BY <1>4
    <3>6. j \in 1..N /\ N < j
      BY <1>3, <3>4, <3>5
    <3> QED BY <1>1, <3>6
  <2> QED BY <2>1
<1>5. isConnected(w)
  BY <1>2, <1>4
<1> QED BY <1>1, <1>5 DEF isConnected

\* The sockets in V closed: their routes are gone, the others are the same.
LEMMA DropParts ==
  ASSUME CInv, NEW w \in Workers, NEW V, NEW first
  PROVE  \A k \in Keys :
           LET r == Drop(tab[w], V, first, hs, granted).routes[k] IN
           IF tab[w].routes[k] \in V \cup {None} THEN r = None ELSE r = tab[w].routes[k]
<1> SUFFICES ASSUME NEW k \in Keys
             PROVE  LET r == Drop(tab[w], V, first, hs, granted).routes[k] IN
                    IF tab[w].routes[k] \in V \cup {None} THEN r = None ELSE r = tab[w].routes[k]
  BY Zenon
<1> DEFINE s == tab[w].routes[k]
<1>1. Drop(tab[w], V, first, hs, granted).routes[k] =
        IF Unrouted(tab[w], k, V, first, hs, granted) THEN None ELSE s
  BY DEF Drop
<1>2. s # None => k \in Aliases(hs[s], granted[s])
  BY DEF CInv, RoutesOK
<1>3. s # None => (Unrouted(tab[w], k, V, first, hs, granted) <=> s \in V)
  BY <1>2 DEF Unrouted
<1> QED BY <1>1, <1>3

-----------------------------------------------------------------------------
(* The steps of a worker.                                                  *)

\* Sockets of worker w close and nothing else happens to the sockets.
Closing(w, V, msgs, t) ==
  /\ V \subseteq Sockets /\ msgs \in Seq(Messages)
  /\ \A s \in V : /\ phase[s] = "open" /\ at[s] = w
                  /\ granted[s] = {} \/ Release(s) \in ToSet(msgs)
  /\ \A s \in Sockets : /\ Claim(s) \notin ToSet(msgs) /\ Reg(s) \notin ToSet(msgs)
                        /\ Release(s) \in ToSet(msgs) => s \in V /\ granted[s] # {}
                        /\ Unreg(s) \in ToSet(msgs) <=> s \in V
  /\ status[w] = "up"
  /\ phase' = [s \in Sockets |-> IF s \in V THEN "gone" ELSE phase[s]]
  /\ UNCHANGED <<hs, granted, at, status, primary>>
  /\ toPrimary' = Sent(w, msgs)
  /\ \/ toWorker' = toWorker
     \/ /\ toWorker[w] # <<>> /\ toWorker' = [toWorker EXCEPT ![w] = Tail(@)]
        /\ \A s \in Sockets : Head(toWorker[w]) \notin Answers(s)
  /\ tab' = [tab EXCEPT ![w] = t]
  /\ \A k \in Keys : IF tab[w].routes[k] \in V \cup {None}
                       THEN t.routes[k] = None ELSE t.routes[k] = tab[w].routes[k]

LEMMA ClosingKeeps ==
  ASSUME CInv, NEW w \in Workers, NEW V, NEW msgs, NEW t, Closing(w, V, msgs, t)
  PROVE  CInv' /\ Steered
<1>1. SocketsOK /\ toWorker \in [Workers -> Seq(Messages)]
  BY DEF CInv, TalksOK
<1>2. ASSUME NEW s \in Sockets, NEW v \in Workers
      PROVE  Answers(s) \cap ToSet(toWorker[v]) \subseteq ToSet(toWorker'[v])
  <2>1. CASE toWorker' = toWorker
    BY <2>1
  <2>2. CASE /\ toWorker[w] # <<>> /\ toWorker' = [toWorker EXCEPT ![w] = Tail(@)]
             /\ Head(toWorker[w]) \notin Answers(s)
    <3>1. ToSet(toWorker[w]) = {Head(toWorker[w])} \cup ToSet(Tail(toWorker[w]))
      BY <1>1, <2>2, TailParts
    <3>2. toWorker'[v] = IF v = w THEN Tail(toWorker[w]) ELSE toWorker[v]
      BY <1>1, <2>2
    <3> QED BY <2>2, <3>1, <3>2
  <2> QED BY <2>1, <2>2 DEF Closing
<1>3. ASSUME NEW s \in Sockets PROVE Turn(w, msgs, s)
  <2>1. CASE s \in V
    BY <2>1 DEF Turn, Closing
  <2>2. CASE s \notin V
    <3>1. /\ phase'[s] = phase[s] /\ hs'[s] = hs[s] /\ granted'[s] = granted[s] /\ at'[s] = at[s]
      BY <2>2 DEF Closing
    <3> QED BY <1>2, <3>1 DEF Turn
  <2> QED BY <2>1, <2>2
<1>4. phase' \in [Sockets -> Phases]
  BY <1>1 DEF SocketsOK, Phases, Closing
<1>5. /\ hs' \in [Sockets -> Handshakes \cup {None}]
      /\ granted' \in [Sockets -> SUBSET Names] /\ at' \in [Sockets -> Workers \cup {None}]
  BY <1>1 DEF SocketsOK, Closing
<1>6. WorkerStep(w, msgs)
  BY <1>3, <1>4, <1>5 DEF WorkerStep, Closing
<1>7. ASSUME NEW k \in Keys, t.routes[k] # None
      PROVE  LET s == t.routes[k] IN
             s \in Sockets /\ phase'[s] = "open" /\ at'[s] = w /\ k \in Aliases(hs'[s], granted'[s])
  <2>1. t.routes[k] = tab[w].routes[k] /\ t.routes[k] \notin V
    BY <1>7 DEF Closing
  <2>2. LET s == tab[w].routes[k] IN
        s \in Sockets /\ phase[s] = "open" /\ at[s] = w /\ k \in Aliases(hs[s], granted[s])
    BY <1>7, <2>1 DEF CInv, RoutesOK
  <2> QED BY <2>1, <2>2 DEF Closing
<1>8. RoutesOK'
  BY <1>6, <1>7, RoutesKept DEF Closing
<1>9. tab'[w] = t /\ \A v \in Workers \ {w} : tab'[v] = tab[v]
  BY DEF CInv, RoutesOK, Closing
<1>10. ASSUME NEW k \in Keys PROVE Rerouted(w, msgs, k)
  <2>1. Unmentioned(msgs, k)
    BY DEF Unmentioned, Closing, Reg
  <2>2. \A s \in V : Unreg(s) \in ToSet(msgs)
    BY DEF Closing
  <2>3. None \notin V
    BY NameClaimsAssumption DEF Closing
  <2>4. IF tab[w].routes[k] \in V \cup {None}
          THEN tab'[w].routes[k] = None ELSE tab'[w].routes[k] = tab[w].routes[k]
    BY <1>9 DEF Closing
  <2> QED BY <2>1, <2>2, <2>3, <2>4 DEF Rerouted
<1>11. \A s \in Sockets : /\ phase'[s] = "open" /\ phase[s] # "open" => at'[s] = w
                          /\ Reg(s) \in ToSet(msgs) =>
                               at'[s] = w /\ phase'[s] = "open" /\ phase[s] # "open"
                          /\ Unreg(s) \in ToSet(msgs) =>
                               at[s] = w /\ phase[s] = "open" /\ phase'[s] = "gone"
  BY DEF Closing
<1>12. Steered
  BY <1>6, <1>9, <1>10, <1>11, StepSteers DEF Closing
<1> QED BY <1>6, <1>8, <1>12, WorkerStepKeeps

LEMMA CloseKeeps ==
  ASSUME CInv, NEW s \in Sockets, Close(s)
  PROVE  CInv' /\ Steered
<1> DEFINE w == at[s]
           msgs == Farewell(s)
           t == Drop(tab[w], {s}, NoFirst, hs, granted)
<1>1. /\ phase \in [Sockets -> Phases] /\ w \in Workers /\ phase[s] = "open" /\ status[w] = "up"
  BY DEF CInv, SocketsOK, Close
<1>2. /\ msgs \in Seq(Messages)
      /\ \A m : m \in ToSet(msgs) <=> \/ m = Message("UNREGISTER_HOST", s)
                                      \/ granted[s] # {} /\ m = Release(s)
  BY FarewellParts
<1>3. \A k \in Keys : IF tab[w].routes[k] \in {s} \cup {None}
                        THEN t.routes[k] = None ELSE t.routes[k] = tab[w].routes[k]
  BY <1>1, DropParts
<1>4. /\ phase' = [r \in Sockets |-> IF r \in {s} THEN "gone" ELSE phase[r]]
      /\ UNCHANGED <<hs, granted, at, status, primary>> /\ toPrimary' = Sent(w, msgs)
      /\ toWorker' = toWorker /\ tab' = [tab EXCEPT ![w] = t]
  BY <1>1 DEF Close
<1> HIDE DEF w, t
<1>5. \A r \in Sockets : /\ Claim(r) \notin ToSet(msgs) /\ Reg(r) \notin ToSet(msgs)
                         /\ Release(r) \in ToSet(msgs) => r \in {s} /\ granted[r] # {}
                         /\ Unreg(r) \in ToSet(msgs) <=> r \in {s}
  BY FarewellNames DEF msgs
<1>6. \A r \in {s} : /\ phase[r] = "open" /\ at[r] = w
                     /\ granted[r] = {} \/ Release(r) \in ToSet(msgs)
  BY <1>1, <1>2 DEF w
<1>7. Closing(w, {s}, msgs, t)
  BY <1>1, <1>2, <1>3, <1>4, <1>5, <1>6 DEF Closing
<1> QED BY <1>1, <1>7, ClosingKeeps

LEMMA GiveUpKeeps ==
  ASSUME CInv, NEW s \in Sockets, GiveUp(s)
  PROVE  CInv' /\ Steered
<1> DEFINE w == at[s]
<1>1. SocketsOK /\ w \in Workers /\ phase[s] = "asked" /\ status[w] = "up"
  BY DEF CInv, SocketsOK, GiveUp
<1>2. /\ phase' = [phase EXCEPT ![s] = "left"]
      /\ UNCHANGED <<hs, granted, at, tab, status, primary, toPrimary, toWorker>>
  BY DEF GiveUp, workerVars
<1> HIDE DEF w
<1>3. toPrimary' = Sent(w, <<>>)
  BY <1>1, <1>2, NothingSent
<1>4. \A r \in Sockets : Turn(w, <<>>, r)
  BY <1>1, <1>2 DEF Turn, SocketsOK
<1>5. <<>> \in Seq(Messages) /\ ToSet(<<>>) = {}
  BY Empty
<1>6. /\ phase' \in [Sockets -> Phases] /\ hs' \in [Sockets -> Handshakes \cup {None}]
      /\ granted' \in [Sockets -> SUBSET Names] /\ at' \in [Sockets -> Workers \cup {None}]
  BY <1>1, <1>2 DEF SocketsOK, Phases
<1>7. WorkerStep(w, <<>>)
  BY <1>2, <1>3, <1>4, <1>5, <1>6 DEF WorkerStep
<1>8. \A r \in Sockets : phase[r] = "open" => phase'[r] = "open"
  BY <1>1, <1>2 DEF SocketsOK
<1>9. RoutesOK'
  BY <1>1, <1>2, <1>7, <1>8, RoutesSame
<1>10. Steered
  <2>1. \A r \in Sockets : phase'[r] = "open" => phase[r] = "open"
    BY <1>1, <1>2 DEF SocketsOK
  <2> QED BY <1>1, <1>2, <1>5, <1>7, <2>1, SilentSteers
<1> QED BY <1>1, <1>7, <1>9, <1>10, WorkerStepKeeps

LEMMA RefuseKeeps ==
  ASSUME CInv, NEW s \in Sockets, NEW h \in Handshakes, NEW w \in Workers, Refuse(s, h, w)
  PROVE  CInv' /\ Steered
<1>1. SocketsOK /\ phase[s] = "new" /\ w = workerForHost(h.host) /\ h.host \in Hosts
  BY HandshakeParts DEF CInv, Refuse, Arrive
<1>2. /\ phase' = [phase EXCEPT ![s] = "gone"]
      /\ hs' = [hs EXCEPT ![s] = h] /\ at' = [at EXCEPT ![s] = w]
      /\ UNCHANGED <<granted, tab, status, primary, toPrimary, toWorker>>
  BY DEF Refuse, Arrive, workerVars
<1>3. toPrimary' = Sent(w, <<>>) /\ status[w] = "up"
  BY <1>1, <1>2, NothingSent, WorkerIsUp
<1>4. \A r \in Sockets : Turn(w, <<>>, r)
  BY <1>1, <1>2, <1>3 DEF Turn, SocketsOK
<1>5. <<>> \in Seq(Messages) /\ ToSet(<<>>) = {}
  BY Empty
<1>6. /\ phase' \in [Sockets -> Phases] /\ hs' \in [Sockets -> Handshakes \cup {None}]
      /\ granted' \in [Sockets -> SUBSET Names] /\ at' \in [Sockets -> Workers \cup {None}]
  BY <1>1, <1>2 DEF SocketsOK, Phases
<1>7. WorkerStep(w, <<>>)
  BY <1>2, <1>3, <1>4, <1>5, <1>6 DEF WorkerStep
<1>8. \A r \in Sockets : phase[r] = "open" => phase'[r] = "open"
  BY <1>1, <1>2 DEF SocketsOK
<1>9. RoutesOK'
  BY <1>2, <1>7, <1>8, RoutesSame
<1>10. Steered
  <2>1. \A r \in Sockets : phase'[r] = "open" => phase[r] = "open"
    BY <1>1, <1>2 DEF SocketsOK
  <2> QED BY <1>2, <1>3, <1>5, <1>7, <2>1, SilentSteers
<1> QED BY <1>7, <1>9, <1>10, WorkerStepKeeps

LEMMA AskKeeps ==
  ASSUME CInv, NEW s \in Sockets, NEW h \in Handshakes, NEW w \in Workers, Ask(s, h, w)
  PROVE  CInv' /\ Steered
<1> DEFINE msgs == <<Message("CLAIM_HOSTS", s)>>
<1>1. SocketsOK /\ phase[s] = "new" /\ w = workerForHost(h.host) /\ h.host \in Hosts
  BY HandshakeParts DEF CInv, Ask, Arrive
<1>2. /\ phase' = [phase EXCEPT ![s] = "asked"]
      /\ hs' = [hs EXCEPT ![s] = h] /\ at' = [at EXCEPT ![s] = w]
      /\ UNCHANGED <<granted, tab, status, primary, toWorker>> /\ toPrimary' = Sent(w, msgs)
  BY DEF Ask, Arrive, workerVars
<1>3. status[w] = "up"
  BY <1>1, WorkerIsUp
<1>4. msgs \in Seq(Messages) /\ ToSet(msgs) = {Claim(s)} /\ \A M : Once(msgs, M)
  <2>1. Message("CLAIM_HOSTS", s) \in Messages
    BY MessageTypes
  <2> QED BY <2>1, Single DEF Claim
<1> HIDE DEF msgs
<1>5. \A r \in Sockets : Turn(w, msgs, r)
  BY <1>1, <1>2, <1>3 DEF Turn, SocketsOK
<1>6. /\ phase' \in [Sockets -> Phases] /\ hs' \in [Sockets -> Handshakes \cup {None}]
      /\ granted' \in [Sockets -> SUBSET Names] /\ at' \in [Sockets -> Workers \cup {None}]
  BY <1>1, <1>2 DEF SocketsOK, Phases
<1>7. \A r \in Sockets :
        /\ Claim(r) \in ToSet(msgs) => phase[r] = "new" /\ phase'[r] = "asked" /\ Once(msgs, {Claim(r)})
        /\ Release(r) \notin ToSet(msgs)
  <2>1. phase'[s] = "asked"
    BY <1>1, <1>2 DEF SocketsOK
  <2> QED BY <1>1, <1>4, <2>1, Distinct DEF Release
<1>8. WorkerStep(w, msgs)
  BY <1>2, <1>4, <1>5, <1>6, <1>7 DEF WorkerStep
<1>9. \A r \in Sockets : phase[r] = "open" => phase'[r] = "open"
  BY <1>1, <1>2 DEF SocketsOK
<1>10. RoutesOK'
  BY <1>2, <1>8, <1>9, RoutesSame
<1>11. Steered
  <2>1. \A r \in Sockets : phase'[r] = "open" => phase[r] = "open"
    BY <1>1, <1>2 DEF SocketsOK
  <2>2. \A r : Reg(r) # Claim(s) /\ Unreg(r) # Claim(s)
    BY DEF Reg, Unreg, Claim, Message
  <2> QED BY <1>2, <1>3, <1>4, <1>8, <2>1, <2>2, SilentSteers
<1> QED BY <1>8, <1>10, <1>11, WorkerStepKeeps

LEMMA TakeOverKeeps ==
  ASSUME CInv, NEW s \in Sockets, NEW h \in Handshakes, NEW w \in Workers, TakeOver(s, h, w)
  PROVE  CInv' /\ Steered
<1> DEFINE e == tab[w].routes[h.host]
           first == [NoFirst EXCEPT ![e] = h.host]
           closed == Drop(tab[w], {e}, first, hs, granted)
           reg == <<Message("REGISTER_HOST", s)>>
           msgs == Farewell(e) \o reg
           t == Connect(closed, s, h, {})
<1>1. /\ SocketsOK /\ phase[s] = "new" /\ w = workerForHost(h.host) /\ h.host \in Hosts
      /\ h.host \in Keys /\ e # None /\ phase[e] = "open"
  BY HandshakeParts DEF CInv, TakeOver, LiveAt
<1>2. e \in Sockets /\ at[e] = w /\ e # s
  BY <1>1 DEF CInv, RoutesOK
<1>3. /\ phase' = [phase EXCEPT ![e] = "gone", ![s] = "open"]
      /\ hs' = [hs EXCEPT ![s] = h] /\ at' = [at EXCEPT ![s] = w]
      /\ UNCHANGED <<granted, status, primary, toWorker>> /\ toPrimary' = Sent(w, msgs)
      /\ tab' = [tab EXCEPT ![w] = t]
  BY DEF TakeOver
<1>4. \A k \in Keys : t.routes[k] = IF k \in Aliases(h, {}) THEN s ELSE closed.routes[k]
  BY DEF Connect
<1>5. \A k \in Keys : IF tab[w].routes[k] \in {e} \cup {None}
                        THEN closed.routes[k] = None ELSE closed.routes[k] = tab[w].routes[k]
  BY DropParts
<1>6. /\ Farewell(e) \in Seq(Messages)
      /\ \A r : /\ Claim(r) \notin ToSet(Farewell(e)) /\ Reg(r) \notin ToSet(Farewell(e))
                /\ Unreg(r) \in ToSet(Farewell(e)) <=> r = e
                /\ Release(r) \in ToSet(Farewell(e)) <=> r = e /\ granted[e] # {}
  BY <1>2, FarewellParts, FarewellNames
<1>7. reg \in Seq(Messages) /\ ToSet(reg) = {Message("REGISTER_HOST", s)}
  <2>1. Message("REGISTER_HOST", s) \in Messages
    BY MessageTypes
  <2> QED BY <2>1, Single
<1>8. status[w] = "up"
  BY <1>1, WorkerIsUp
<1> HIDE DEF e, first, closed, reg, msgs, t
<1>9. /\ msgs \in Seq(Messages)
      /\ \A r : /\ Claim(r) \notin ToSet(msgs)
                /\ Release(r) \in ToSet(msgs) <=> r = e /\ granted[e] # {}
                /\ Reg(r) \in ToSet(msgs) <=> r = s
                /\ Unreg(r) \in ToSet(msgs) <=> r = e
      /\ Len(msgs) > 0 /\ msgs[Len(msgs)] = Reg(s)
  <2>1. msgs \in Seq(Messages) /\ ToSet(msgs) = ToSet(Farewell(e)) \cup {Message("REGISTER_HOST", s)}
    BY <1>6, <1>7, SetOfConcat DEF msgs
  <2>2. \A r : /\ Claim(r) # Message("REGISTER_HOST", s) /\ Release(r) # Message("REGISTER_HOST", s)
               /\ Unreg(r) # Message("REGISTER_HOST", s)
               /\ (Reg(r) = Message("REGISTER_HOST", s) <=> r = s)
    BY DEF Claim, Release, Reg, Unreg, Message
  <2>3. Len(msgs) > 0 /\ msgs[Len(msgs)] = Reg(s)
    <3>1. Len(reg) = 1 /\ reg[1] = Reg(s)
      BY DEF reg, Reg
    <3>2. /\ Len(msgs) = Len(Farewell(e)) + Len(reg) /\ Len(Farewell(e)) \in Nat
          /\ \A i \in 1..Len(reg) : msgs[Len(Farewell(e)) + i] = reg[i]
      BY <1>6, <1>7, AtConcat, LenProperties DEF msgs
    <3>3. 1 \in 1..Len(reg)
      BY <3>1
    <3> QED BY <3>1, <3>2, <3>3
  <2> QED BY <1>6, <2>1, <2>2, <2>3
<1>10. /\ phase \in [Sockets -> Phases] /\ hs \in [Sockets -> Handshakes \cup {None}]
       /\ granted \in [Sockets -> SUBSET Names] /\ at \in [Sockets -> Workers \cup {None}]
       /\ granted[s] = {}
  BY <1>1 DEF SocketsOK
<1>11. /\ phase'[e] = "gone" /\ phase'[s] = "open" /\ hs'[s] = h /\ at'[s] = w /\ granted'[s] = {}
       /\ \A r \in Sockets : r # s => hs'[r] = hs[r] /\ at'[r] = at[r] /\ granted'[r] = granted[r]
       /\ \A r \in Sockets : r # s /\ r # e => phase'[r] = phase[r]
  BY <1>2, <1>3, <1>10
<1>12. ASSUME NEW r \in Sockets PROVE Turn(w, msgs, r)
  <2>1. CASE r = s
    BY <1>1, <1>8, <1>10, <1>11, <2>1 DEF Turn
  <2>2. CASE r = e
    BY <1>1, <1>2, <1>9, <1>11, <2>2 DEF Turn
  <2>3. CASE r # s /\ r # e
    BY <1>3, <1>11, <2>3 DEF Turn
  <2> QED BY <2>1, <2>2, <2>3
<1>13. /\ phase' \in [Sockets -> Phases] /\ hs' \in [Sockets -> Handshakes \cup {None}]
       /\ granted' \in [Sockets -> SUBSET Names] /\ at' \in [Sockets -> Workers \cup {None}]
  BY <1>3, <1>10 DEF Phases
<1>14. WorkerStep(w, msgs)
  BY <1>1, <1>3, <1>9, <1>11, <1>12, <1>13 DEF WorkerStep
<1>15. ASSUME NEW k \in Keys, t.routes[k] # None
       PROVE  LET r == t.routes[k] IN
              r \in Sockets /\ phase'[r] = "open" /\ at'[r] = w /\ k \in Aliases(hs'[r], granted'[r])
  <2>1. CASE k \in Aliases(h, {})
    BY <1>4, <1>11, <2>1
  <2>2. CASE k \notin Aliases(h, {})
    <3>1. t.routes[k] = tab[w].routes[k] /\ t.routes[k] # e
      BY <1>4, <1>5, <1>15, <2>2
    <3>2. LET r == tab[w].routes[k] IN
          r \in Sockets /\ phase[r] = "open" /\ at[r] = w /\ k \in Aliases(hs[r], granted[r])
      BY <1>15, <3>1 DEF CInv, RoutesOK
    <3> QED BY <1>1, <1>11, <3>1, <3>2
  <2> QED BY <2>1, <2>2
<1>16. RoutesOK'
  BY <1>3, <1>14, <1>15, RoutesKept
<1>17. tab'[w] = t /\ \A v \in Workers \ {w} : tab'[v] = tab[v]
  BY <1>3 DEF CInv, RoutesOK
<1>18. ASSUME NEW k \in Keys PROVE Rerouted(w, msgs, k)
  <2>1. CASE k \in Aliases(h, {})
    BY <1>4, <1>9, <1>11, <1>17, <2>1 DEF Rerouted
  <2>2. CASE k \notin Aliases(h, {})
    <3>1. Unmentioned(msgs, k)
      BY <1>9, <1>11, <2>2 DEF Unmentioned
    <3>2. t.routes[k] = closed.routes[k]
      BY <1>4, <2>2
    <3> QED BY <1>1, <1>5, <1>9, <1>17, <3>1, <3>2 DEF Rerouted
  <2> QED BY <2>1, <2>2
<1>19. \A r \in Sockets : /\ phase'[r] = "open" /\ phase[r] # "open" => at'[r] = w
                          /\ Reg(r) \in ToSet(msgs) =>
                               at'[r] = w /\ phase'[r] = "open" /\ phase[r] # "open"
                          /\ Unreg(r) \in ToSet(msgs) =>
                               at[r] = w /\ phase[r] = "open" /\ phase'[r] = "gone"
  BY <1>1, <1>2, <1>9, <1>11
<1>20. Steered
  BY <1>8, <1>14, <1>17, <1>18, <1>19, StepSteers
<1> QED BY <1>14, <1>16, <1>20, WorkerStepKeeps

LEMMA AnsweredKeeps ==
  ASSUME CInv, NEW w \in Workers, Answered(w)
  PROVE  CInv' /\ Steered
<1> DEFINE q == toWorker[w]
           m == Head(q)
           s == m.arg
           G == resolveRequestedNames(hs[s])
           reg == <<Message("REGISTER_HOST", s)>>
           t == Connect(tab[w], s, hs[s], G)
           msgs == IF phase[s] = "asked" /\ m.ok THEN reg ELSE <<>>
<1>1. /\ SocketsOK /\ TalksOK /\ q # <<>> /\ q \in Seq(Messages) /\ m.type = "CLAIM_HOSTS_RES"
      /\ toWorker' = [toWorker EXCEPT ![w] = Tail(@)]
      /\ UNCHANGED <<hs, at, status, primary>>
  BY DEF CInv, TalksOK, Answered
<1>2. /\ ToSet(q) = {m} \cup ToSet(Tail(q)) /\ m \in Messages
      /\ \A M : Once(q, M) => (m \in M => M \cap ToSet(Tail(q)) = {})
  BY <1>1, TailParts
<1>3. s \in Sockets /\ m.ok \in BOOLEAN /\ m = Answer(s, m.ok)
  BY <1>1, <1>2, MessageArgs
<1>4. TalkOK(w, s)
  BY <1>1, <1>3 DEF TalksOK
<1>5. (m = Answer(s, TRUE) /\ m.ok) \/ (m = Answer(s, FALSE) /\ ~m.ok)
  <2>1. CASE m.ok = TRUE
    BY <1>3, <2>1
  <2>2. CASE m.ok = FALSE
    BY <1>3, <2>2
  <2> QED BY <1>3, <2>1, <2>2
<1>6. m \in Answers(s) /\ Answers(s) \cap ToSet(q) # {}
  BY <1>2, <1>5 DEF Answers
<1>7. at[s] = w /\ phase[s] # "new" /\ Once(q, Answers(s))
  BY <1>4, <1>6 DEF TalkOK
<1>8. ~m.ok => Answer(s, TRUE) \notin ToSet(q)
  <2>1. Answer(s, TRUE) \in Answers(s) /\ Answer(s, TRUE) # Answer(s, FALSE)
    BY Distinct DEF Answers
  <2>2. Answers(s) \cap ToSet(Tail(q)) = {}
    BY <1>2, <1>6, <1>7
  <2> QED BY <1>2, <1>5, <2>1, <2>2
<1>9. \A r \in Sockets, v \in Workers :
        r # s => Answers(r) \cap ToSet(toWorker[v]) \subseteq ToSet(toWorker'[v])
  <2> SUFFICES ASSUME NEW r \in Sockets, NEW v \in Workers, r # s
               PROVE  Answers(r) \cap ToSet(toWorker[v]) \subseteq ToSet(toWorker'[v])
    OBVIOUS
  <2>1. toWorker'[v] = IF v = w THEN Tail(q) ELSE toWorker[v]
    BY <1>1 DEF TalksOK
  <2>2. m \notin Answers(r)
    BY <1>6, Distinct
  <2> QED BY <1>2, <2>1, <2>2
<1>10. reg \in Seq(Messages) /\ ToSet(reg) = {Message("REGISTER_HOST", s)}
  <2>1. Message("REGISTER_HOST", s) \in Messages
    BY <1>3, MessageTypes
  <2> QED BY <2>1, Single
<1>11. /\ phase \in [Sockets -> Phases] /\ hs \in [Sockets -> Handshakes \cup {None}]
       /\ granted \in [Sockets -> SUBSET Names] /\ at \in [Sockets -> Workers \cup {None}]
       /\ hs[s] \in Handshakes
  BY <1>1, <1>3, <1>7 DEF SocketsOK
<1>12. G \subseteq Names /\ G = Asked(s)
  BY <1>11, HandshakeParts DEF Asked
<1>13. /\ IF phase[s] = "asked" /\ m.ok
            THEN /\ granted' = [granted EXCEPT ![s] = G]
                 /\ phase' = [phase EXCEPT ![s] = "open"]
                 /\ tab' = [tab EXCEPT ![w] = t]
                 /\ toPrimary' = Sent(w, reg)
            ELSE /\ phase' = [phase EXCEPT ![s] = IF @ = "asked" THEN "gone" ELSE @]
                 /\ UNCHANGED <<granted, tab, toPrimary>>
  BY DEF Answered
<1>14. \A k \in Keys : t.routes[k] = IF k \in Aliases(hs[s], G) THEN s ELSE tab[w].routes[k]
  BY DEF Connect
<1>15. \A r : /\ Claim(r) # Message("REGISTER_HOST", s) /\ Release(r) # Message("REGISTER_HOST", s)
              /\ Unreg(r) # Message("REGISTER_HOST", s)
              /\ (Reg(r) = Message("REGISTER_HOST", s) <=> r = s)
  BY DEF Claim, Release, Reg, Unreg, Message
<1>20. Len(reg) > 0 /\ reg[Len(reg)] = Reg(s)
  BY DEF Reg
<1>21. status[w] = "up"
  BY <1>1 DEF SocketsOK
<1> HIDE DEF q, m, s, G, reg, t
<1>16. CASE phase[s] = "asked" /\ m.ok
  <2>1. /\ phase'[s] = "open" /\ granted'[s] = G
        /\ \A r \in Sockets : r # s => phase'[r] = phase[r] /\ granted'[r] = granted[r]
        /\ phase' \in [Sockets -> Phases] /\ granted' \in [Sockets -> SUBSET Names]
    BY <1>3, <1>11, <1>12, <1>13, <1>16 DEF Phases
  <2>2. ASSUME NEW r \in Sockets PROVE Turn(w, reg, r)
    <3>1. CASE r = s
      BY <1>1, <1>6, <1>12, <1>16, <2>1, <3>1 DEF Turn, q
    <3>2. CASE r # s
      BY <1>1, <1>9, <2>1, <3>2 DEF Turn
    <3> QED BY <3>1, <3>2
  <2>3. WorkerStep(w, reg)
    BY <1>1, <1>10, <1>11, <1>13, <1>15, <1>16, <2>1, <2>2 DEF WorkerStep, q
  <2>4. ASSUME NEW k \in Keys, t.routes[k] # None
        PROVE  LET r == t.routes[k] IN
               r \in Sockets /\ phase'[r] = "open" /\ at'[r] = w /\ k \in Aliases(hs'[r], granted'[r])
    <3>1. CASE k \in Aliases(hs[s], G)
      BY <1>1, <1>3, <1>7, <1>14, <2>1, <3>1
    <3>2. CASE k \notin Aliases(hs[s], G)
      <4>1. t.routes[k] = tab[w].routes[k]
        BY <1>14, <3>2
      <4>2. LET r == tab[w].routes[k] IN
            r \in Sockets /\ phase[r] = "open" /\ at[r] = w /\ k \in Aliases(hs[r], granted[r])
        BY <2>4, <4>1 DEF CInv, RoutesOK
      <4>3. tab[w].routes[k] # s
        BY <1>16, <4>2
      <4> QED BY <1>1, <2>1, <4>1, <4>2, <4>3
    <3> QED BY <3>1, <3>2
  <2>5. RoutesOK'
    BY <1>13, <1>16, <2>3, <2>4, RoutesKept
  <2>6. tab'[w] = t /\ \A v \in Workers \ {w} : tab'[v] = tab[v]
    BY <1>13, <1>16 DEF CInv, RoutesOK
  <2>7. ASSUME NEW k \in Keys PROVE Rerouted(w, reg, k)
    <3>1. CASE k \in Aliases(hs[s], G)
      BY <1>1, <1>3, <1>14, <1>20, <2>1, <2>6, <3>1 DEF Rerouted
    <3>2. CASE k \notin Aliases(hs[s], G)
      <4>1. Unmentioned(reg, k)
        BY <1>1, <1>10, <1>15, <2>1, <3>2 DEF Unmentioned
      <4> QED BY <1>14, <2>6, <3>2, <4>1 DEF Rerouted
    <3> QED BY <3>1, <3>2
  <2>8. \A r \in Sockets : /\ phase'[r] = "open" /\ phase[r] # "open" => at'[r] = w
                           /\ Reg(r) \in ToSet(reg) =>
                                at'[r] = w /\ phase'[r] = "open" /\ phase[r] # "open"
                           /\ Unreg(r) \notin ToSet(reg)
    BY <1>1, <1>7, <1>10, <1>15, <1>16, <2>1
  <2>9. Steered
    BY <1>21, <2>3, <2>6, <2>7, <2>8, StepSteers
  <2> QED BY <2>3, <2>5, <2>9, WorkerStepKeeps
<1>17. CASE ~(phase[s] = "asked" /\ m.ok)
  <2>1. /\ phase' = [phase EXCEPT ![s] = IF @ = "asked" THEN "gone" ELSE @]
        /\ UNCHANGED <<granted, tab, toPrimary>>
    BY <1>13, <1>17
  <2>2. /\ phase'[s] = IF phase[s] = "asked" THEN "gone" ELSE phase[s]
        /\ \A r \in Sockets : r # s => phase'[r] = phase[r]
        /\ phase' \in [Sockets -> Phases]
    BY <1>3, <1>11, <2>1 DEF Phases
  <2>3. ASSUME NEW r \in Sockets PROVE Turn(w, <<>>, r)
    <3>1. CASE r = s /\ phase[s] = "asked"
      BY <1>1, <1>6, <1>8, <1>17, <2>1, <2>2, <3>1 DEF Turn, q
    <3>2. CASE r = s /\ phase[s] # "asked"
      BY <1>1, <2>1, <2>2, <3>2 DEF Turn
    <3>3. CASE r # s
      BY <1>1, <1>9, <2>1, <2>2, <3>3 DEF Turn
    <3> QED BY <3>1, <3>2, <3>3
  <2>4. toPrimary' = Sent(w, <<>>)
    BY <2>1, NothingSent
  <2>5. <<>> \in Seq(Messages) /\ ToSet(<<>>) = {}
    BY Empty
  <2>6. WorkerStep(w, <<>>)
    BY <1>1, <1>11, <2>1, <2>2, <2>3, <2>4, <2>5 DEF WorkerStep, q
  <2>7. \A r \in Sockets : phase[r] = "open" => phase'[r] = "open"
    BY <2>2
  <2>8. RoutesOK'
    BY <2>1, <2>6, <2>7, RoutesSame
  <2>9. Steered
    <3>1. \A r \in Sockets : phase'[r] = "open" => phase[r] = "open"
      BY <2>2
    <3> QED BY <1>21, <2>1, <2>5, <2>6, <3>1, SilentSteers
  <2> QED BY <2>6, <2>8, <2>9, WorkerStepKeeps
<1> QED BY <1>16, <1>17

\* Messages that are not about one socket.
Plain(q) ==
  /\ q \in Seq(Messages)
  /\ \A s : {Claim(s), Release(s), Reg(s), Unreg(s)} \cap ToSet(q) = {}

LEMMA PlainMessage ==
  /\ \A k \in Keys : /\ Plain(<<Message("UNREGISTER_BARE", k)>>)
                     /\ Plain(<<Message("DISCONNECT_SOCKET_CLUSTER", k)>>)
                     /\ Plain(<<Message("FORGET_HOST", k)>>)
  /\ \A n \in Names : Plain(<<Message("FORGET_NAME", n)>>)
  /\ \A l \in Labels : /\ Plain(<<Message("DISCONNECT_CLIENT_CLUSTER", l)>>)
                       /\ Plain(<<Message("FORGET_CLIENT", l)>>)
<1>1. ASSUME NEW m \in Messages,
             m.type \notin {"CLAIM_HOSTS", "RELEASE_HOSTS", "REGISTER_HOST", "UNREGISTER_HOST"}
      PROVE  Plain(<<m>>)
  <2>1. <<m>> \in Seq(Messages) /\ ToSet(<<m>>) = {m}
    BY Single
  <2>2. \A s : Claim(s) # m /\ Release(s) # m /\ Reg(s) # m /\ Unreg(s) # m
    BY <1>1 DEF Claim, Release, Reg, Unreg, Message
  <2> QED BY <2>1, <2>2 DEF Plain
<1>2. \A type, x : Message(type, x).type = type
  BY DEF Message
<1>3. ASSUME NEW k \in Keys
      PROVE  /\ Plain(<<Message("UNREGISTER_BARE", k)>>)
             /\ Plain(<<Message("DISCONNECT_SOCKET_CLUSTER", k)>>)
             /\ Plain(<<Message("FORGET_HOST", k)>>)
  <2>1. /\ Message("UNREGISTER_BARE", k) \in Messages
        /\ Message("DISCONNECT_SOCKET_CLUSTER", k) \in Messages
        /\ Message("FORGET_HOST", k) \in Messages
    BY MessageTypes
  <2>2. Plain(<<Message("UNREGISTER_BARE", k)>>)
    BY <1>1, <1>2, <2>1
  <2>3. Plain(<<Message("DISCONNECT_SOCKET_CLUSTER", k)>>)
    BY <1>1, <1>2, <2>1
  <2>4. Plain(<<Message("FORGET_HOST", k)>>)
    BY <1>1, <1>2, <2>1
  <2> QED BY <2>2, <2>3, <2>4
<1>4. ASSUME NEW n \in Names PROVE Plain(<<Message("FORGET_NAME", n)>>)
  <2>1. Message("FORGET_NAME", n) \in Messages
    BY MessageTypes
  <2> QED BY <1>1, <1>2, <2>1
<1>5. ASSUME NEW l \in Labels
      PROVE  /\ Plain(<<Message("DISCONNECT_CLIENT_CLUSTER", l)>>)
             /\ Plain(<<Message("FORGET_CLIENT", l)>>)
  <2>1. Message("DISCONNECT_CLIENT_CLUSTER", l) \in Messages /\ Message("FORGET_CLIENT", l) \in Messages
    BY MessageTypes
  <2>2. Plain(<<Message("DISCONNECT_CLIENT_CLUSTER", l)>>)
    BY <1>1, <1>2, <2>1
  <2>3. Plain(<<Message("FORGET_CLIENT", l)>>)
    BY <1>1, <1>2, <2>1
  <2> QED BY <2>2, <2>3
<1> QED BY <1>3, <1>4, <1>5

LEMMA PlainConcat ==
  ASSUME NEW q, NEW p, Plain(q), Plain(p)
  PROVE  Plain(q \o p)
<1>1. q \o p \in Seq(Messages) /\ ToSet(q \o p) = ToSet(q) \cup ToSet(p)
  BY SetOfConcat DEF Plain
<1> QED BY <1>1 DEF Plain

\* A worker closes the socket that key k routes to, if there is one.
LEMMA DisconnectKeeps ==
  ASSUME CInv, NEW w \in Workers, status[w] = "up", NEW k \in Keys, NEW q, Plain(q),
         UNCHANGED <<hs, granted, at, status, primary>>,
         \/ toWorker' = toWorker
         \/ /\ toWorker[w] # <<>> /\ toWorker' = [toWorker EXCEPT ![w] = Tail(@)]
            /\ \A s \in Sockets : Head(toWorker[w]) \notin Answers(s),
         IF tab[w].routes[k] = None
           THEN UNCHANGED <<phase, tab>> /\ toPrimary' = Sent(w, q)
           ELSE Disconnect(w, k) /\ toPrimary' = Sent(w, Farewell(tab[w].routes[k]) \o q)
  PROVE  CInv' /\ Steered
<1> DEFINE s == tab[w].routes[k]
           t == Drop(tab[w], {s}, [NoFirst EXCEPT ![s] = k], hs, granted)
           msgs == Farewell(s) \o q
<1>1. phase \in [Sockets -> Phases] /\ tab = [v \in Workers |-> tab[v]]
  BY DEF CInv, SocketsOK, RoutesOK
<1>2. CASE s = None
  <2>1. phase' = phase /\ tab' = tab /\ toPrimary' = Sent(w, q)
    BY <1>2
  <2>2. phase' = [r \in Sockets |-> IF r \in {} THEN "gone" ELSE phase[r]]
    BY <1>1, <2>1
  <2>3. tab' = [tab EXCEPT ![w] = tab[w]]
    BY <1>1, <2>1
  <2>4. \A r : /\ Claim(r) \notin ToSet(q) /\ Release(r) \notin ToSet(q)
               /\ Reg(r) \notin ToSet(q) /\ Unreg(r) \notin ToSet(q)
    BY DEF Plain
  <2>5. Closing(w, {}, q, tab[w])
    BY <2>1, <2>2, <2>3, <2>4 DEF Closing, Plain
  <2> QED BY <2>5, ClosingKeeps
<1>3. CASE s # None
  <2>1. /\ s \in Sockets /\ phase[s] = "open" /\ at[s] = w
    BY <1>3 DEF CInv, RoutesOK
  <2>2. /\ phase' = [phase EXCEPT ![s] = "gone"] /\ tab' = [tab EXCEPT ![w] = t]
        /\ toPrimary' = Sent(w, msgs)
    BY <1>3 DEF Disconnect
  <2>3. \A j \in Keys : IF tab[w].routes[j] \in {s} \cup {None}
                          THEN t.routes[j] = None ELSE t.routes[j] = tab[w].routes[j]
    <3> DEFINE V == {s}
               first == [NoFirst EXCEPT ![s] = k]
               d == Drop(tab[w], V, first, hs, granted)
    <3> HIDE DEF V, first
    <3>1. \A j \in Keys : IF tab[w].routes[j] \in V \cup {None}
                            THEN d.routes[j] = None ELSE d.routes[j] = tab[w].routes[j]
      BY DropParts
    <3>2. t = d
      BY DEF V, first
    <3> HIDE DEF d, t
    <3> QED BY <3>1, <3>2 DEF V
  <2>4. /\ Farewell(s) \in Seq(Messages)
        /\ \A r : /\ Claim(r) \notin ToSet(Farewell(s)) /\ Reg(r) \notin ToSet(Farewell(s))
                  /\ Unreg(r) \in ToSet(Farewell(s)) <=> r = s
                  /\ Release(r) \in ToSet(Farewell(s)) <=> r = s /\ granted[s] # {}
    BY <2>1, FarewellParts, FarewellNames
  <2>5. msgs \in Seq(Messages) /\ ToSet(msgs) = ToSet(Farewell(s)) \cup ToSet(q)
    BY <2>4, SetOfConcat DEF Plain
  <2> HIDE DEF s, t, msgs
  <2>6. phase' = [r \in Sockets |-> IF r \in {s} THEN "gone" ELSE phase[r]]
    BY <1>1, <2>1, <2>2
  <2>7. \A r \in Sockets : /\ Claim(r) \notin ToSet(msgs) /\ Reg(r) \notin ToSet(msgs)
                           /\ Unreg(r) \in ToSet(msgs) <=> r = s
                           /\ Release(r) \in ToSet(msgs) <=> r = s /\ granted[s] # {}
    BY <2>4, <2>5 DEF Plain
  <2>8. \A r \in {s} : /\ phase[r] = "open" /\ at[r] = w
                       /\ granted[r] = {} \/ Release(r) \in ToSet(msgs)
    BY <2>1, <2>7
  <2>9. {s} \subseteq Sockets
    BY <2>1
  <2>10. Closing(w, {s}, msgs, t)
    BY <2>2, <2>3, <2>5, <2>6, <2>7, <2>8, <2>9 DEF Closing
  <2> QED BY <2>10, ClosingKeeps
<1> QED BY <1>2, <1>3

LEMMA DoDisconnectKeeps ==
  ASSUME CInv, NEW w \in Workers, DoDisconnect(w)
  PROVE  CInv' /\ Steered
<1> DEFINE m == Head(toWorker[w])
           k == m.arg
           s == tab[w].routes[k]
<1>1. /\ toWorker[w] # <<>> /\ toWorker[w] \in Seq(Messages) /\ m.type = "DO_DISCONNECT_SOCKET"
      /\ toWorker' = [toWorker EXCEPT ![w] = Tail(@)]
      /\ UNCHANGED <<hs, granted, at, status, primary>>
  BY DEF CInv, TalksOK, DoDisconnect
<1>2. m \in Messages
  BY <1>1, TailParts
<1>3. k \in Keys
  BY <1>1, <1>2, MessageArgs
<1>4. \A r \in Sockets : m \notin Answers(r)
  BY <1>1, Distinct
<1>5. Plain(<<>>)
  BY Empty DEF Plain
<1>6. IF s = None THEN UNCHANGED <<phase, tab, toPrimary>>
                  ELSE Disconnect(w, k) /\ toPrimary' = Sent(w, Farewell(s))
  BY DEF DoDisconnect
<1>7. s # None => Farewell(s) \o <<>> = Farewell(s)
  <2> SUFFICES ASSUME s # None PROVE Farewell(s) \o <<>> = Farewell(s)
    OBVIOUS
  <2>1. s \in Sockets
    BY <1>3 DEF CInv, RoutesOK
  <2>2. Farewell(s) \in Seq(Messages)
    BY <2>1, FarewellParts
  <2> QED BY <2>2, ConcatEmptySeq
<1>8. toPrimary = Sent(w, <<>>)
  BY NothingSent
<1>9. IF s = None THEN UNCHANGED <<phase, tab>> /\ toPrimary' = Sent(w, <<>>)
                  ELSE Disconnect(w, k) /\ toPrimary' = Sent(w, Farewell(s) \o <<>>)
  BY <1>6, <1>7, <1>8
<1>10. status[w] = "up"
  BY <1>1 DEF CInv, SocketsOK
<1> HIDE DEF k
<1> QED BY <1>1, <1>10, <1>3, <1>4, <1>5, <1>9, DisconnectKeeps

LEMMA RemoveTunnelKeeps ==
  ASSUME CInv, NEW w \in Workers, NEW k \in AdminKeys, RemoveTunnel(w, k)
  PROVE  CInv' /\ Steered
<1> DEFINE s == tab[w].routes[k]
           n == IF k \in Hosts THEN NameOf[k] ELSE None
           a == Message("UNREGISTER_BARE", k)
           b == Message("DISCONNECT_SOCKET_CLUSTER", k)
           c == Message("FORGET_HOST", k)
           d == Message("FORGET_NAME", n)
           last == IF n = None THEN <<>> ELSE <<d>>
           q == <<a, b, c>> \o last
<1>1. k \in Keys
  BY ClusterAssumption
<1>2. n \in Names \cup {None}
  BY TunnelTablesAssumption
<1>3. /\ UNCHANGED <<hs, granted, at, status, primary, toWorker>> /\ status[w] = "up"
      /\ IF s = None THEN toPrimary' = Sent(w, q) /\ UNCHANGED <<phase, tab>>
                     ELSE Disconnect(w, k) /\ toPrimary' = Sent(w, Farewell(s) \o q)
  BY DEF RemoveTunnel, Removal
<1>4. Plain(<<a>>) /\ Plain(<<b>>) /\ Plain(<<c>>)
  BY <1>1, PlainMessage
<1>5. Plain(last)
  <2>1. Plain(<<>>)
    BY Empty DEF Plain
  <2> QED BY <1>2, <2>1, PlainMessage
<1>6. <<a, b, c>> = (<<a>> \o <<b>>) \o <<c>>
  OBVIOUS
<1> HIDE DEF n, a, b, c, d, last
<1>7. Plain((<<a>> \o <<b>>) \o <<c>>)
  BY <1>4, PlainConcat
<1>8. Plain(q)
  BY <1>5, <1>6, <1>7, PlainConcat
<1> HIDE DEF q
<1> QED BY <1>1, <1>3, <1>8, DisconnectKeeps

LEMMA RemoveClientKeeps ==
  ASSUME CInv, NEW w \in Workers, NEW l \in AdminLabels, RemoveClient(w, l)
  PROVE  CInv' /\ Steered
<1> DEFINE V == ClientSockets(w, l)
           each == SetToSeq(V)
           N == Cardinality(V)
           last == <<Message("DISCONNECT_CLIENT_CLUSTER", l), Message("FORGET_CLIENT", l)>>
<1>1. V \subseteq Sockets /\ \A s \in V : phase[s] = "open" /\ at[s] = w
  <2>1. \A s \in V : s \in Sockets /\ \E k \in Keys : tab[w].routes[k] = s
    BY DEF ClientSockets
  <2>2. None \notin Sockets
    BY NameClaimsAssumption
  <2> QED BY <2>1, <2>2 DEF CInv, RoutesOK
<1>2. IsFiniteSet(V)
  BY <1>1, FS_Subset, TunnelTablesAssumption
<1>3. N \in Nat /\ each \in [1..N -> V] /\ \A s \in V : \E i \in 1..N : each[i] = s
  BY <1>2, SetToSeqParts
<1>4. Plain(last)
  <2> DEFINE a == Message("DISCONNECT_CLIENT_CLUSTER", l)
             b == Message("FORGET_CLIENT", l)
  <2>1. Plain(<<a>>) /\ Plain(<<b>>)
    BY ClusterAssumption, PlainMessage
  <2>2. <<a, b>> = <<a>> \o <<b>>
    OBVIOUS
  <2> HIDE DEF a, b
  <2>3. Plain(<<a, b>>)
    BY <2>1, <2>2, PlainConcat
  <2> QED BY <2>3 DEF a, b
<1>5. PICK first \in [Sockets -> Keys \cup {None}] :
       /\ \A s \in Sockets :
            IF s \in V THEN first[s] \in RoutedKeys(w, s) ELSE first[s] = None
       /\ tab' = [tab EXCEPT ![w] = ForgetClient(Drop(@, V, first, hs, granted), l)]
       /\ toPrimary' = Sent(w,
            FlattenSeq([i \in DOMAIN each |->
              Farewell(each[i]) \o <<Message("UNREGISTER_BARE", first[each[i]])>>])
            \o last)
  BY DEF RemoveClient
<1>6. /\ phase' = [s \in Sockets |-> IF s \in V THEN "gone" ELSE phase[s]] /\ status[w] = "up"
      /\ UNCHANGED <<hs, granted, at, status, primary, toWorker>>
  BY DEF RemoveClient, Removal
<1> DEFINE part(i) == Farewell(each[i]) \o <<Message("UNREGISTER_BARE", first[each[i]])>>
           ss == [i \in 1..N |-> part(i)]
           msgs == FlattenSeq(ss) \o last
           t == ForgetClient(Drop(tab[w], V, first, hs, granted), l)
<1>7. /\ tab' = [tab EXCEPT ![w] = t]
      /\ toPrimary' = Sent(w, msgs)
  BY <1>3, <1>5
<1>8. \A k \in Keys : IF tab[w].routes[k] \in V \cup {None}
                        THEN t.routes[k] = None ELSE t.routes[k] = tab[w].routes[k]
  <2>1. t.routes = Drop(tab[w], V, first, hs, granted).routes
    BY DEF ForgetClient, Drop
  <2> QED BY <2>1, DropParts
<1> HIDE DEF V, each, N, last, t
<1>9. ASSUME NEW i \in 1..N
      PROVE  /\ part(i) \in Seq(Messages)
             /\ \A r : /\ Claim(r) \notin ToSet(part(i)) /\ Reg(r) \notin ToSet(part(i))
                       /\ Unreg(r) \in ToSet(part(i)) <=> r = each[i]
                       /\ Release(r) \in ToSet(part(i)) <=> r = each[i] /\ granted[r] # {}
  <2> DEFINE s == each[i]
             bare == <<Message("UNREGISTER_BARE", first[s])>>
  <2>1. s \in V /\ s \in Sockets
    BY <1>1, <1>3
  <2>2. first[s] \in Keys
    BY <1>5, <2>1 DEF RoutedKeys
  <2>3. Plain(bare)
    BY <2>2, PlainMessage
  <2>4. /\ Farewell(s) \in Seq(Messages)
        /\ \A r : /\ Claim(r) \notin ToSet(Farewell(s)) /\ Reg(r) \notin ToSet(Farewell(s))
                  /\ Unreg(r) \in ToSet(Farewell(s)) <=> r = s
                  /\ Release(r) \in ToSet(Farewell(s)) <=> r = s /\ granted[s] # {}
    BY <2>1, FarewellParts, FarewellNames
  <2> HIDE DEF s, bare
  <2>5. /\ Farewell(s) \o bare \in Seq(Messages)
        /\ ToSet(Farewell(s) \o bare) = ToSet(Farewell(s)) \cup ToSet(bare)
    BY <2>3, <2>4, SetOfConcat DEF Plain
  <2>6. \A r : /\ Claim(r) \notin ToSet(Farewell(s) \o bare) /\ Reg(r) \notin ToSet(Farewell(s) \o bare)
               /\ Unreg(r) \in ToSet(Farewell(s) \o bare) <=> r = s
               /\ Release(r) \in ToSet(Farewell(s) \o bare) <=> r = s /\ granted[r] # {}
    BY <2>3, <2>4, <2>5 DEF Plain
  <2> QED BY <2>5, <2>6 DEF s, bare
<1> HIDE DEF part
<1>10. ss \in [1..N -> Seq(Messages)] /\ \A i \in 1..N : ss[i] = part(i)
  BY <1>9
<1> HIDE DEF ss
<1>11. /\ FlattenSeq(ss) \in Seq(Messages)
       /\ \A m : m \in ToSet(FlattenSeq(ss)) <=> \E i \in 1..N : m \in ToSet(ss[i])
  BY <1>3, <1>10, FlattenParts
<1>12. msgs \in Seq(Messages) /\ ToSet(msgs) = ToSet(FlattenSeq(ss)) \cup ToSet(last)
  BY <1>4, <1>11, SetOfConcat DEF Plain
<1> HIDE DEF msgs
<1>13. ASSUME NEW r \in Sockets
       PROVE  /\ Claim(r) \notin ToSet(msgs) /\ Reg(r) \notin ToSet(msgs)
              /\ Release(r) \in ToSet(msgs) <=> r \in V /\ granted[r] # {}
              /\ Unreg(r) \in ToSet(msgs) <=> r \in V
  <2>1. /\ Claim(r) \notin ToSet(last) /\ Release(r) \notin ToSet(last)
        /\ Reg(r) \notin ToSet(last) /\ Unreg(r) \notin ToSet(last)
    BY <1>4 DEF Plain
  <2>2. Claim(r) \notin ToSet(msgs) /\ Reg(r) \notin ToSet(msgs)
    BY <1>9, <1>10, <1>11, <1>12, <2>1
  <2>3. Release(r) \in ToSet(msgs) <=> \E i \in 1..N : r = each[i] /\ granted[r] # {}
    BY <1>9, <1>10, <1>11, <1>12, <2>1
  <2>4. Unreg(r) \in ToSet(msgs) <=> \E i \in 1..N : r = each[i]
    BY <1>9, <1>10, <1>11, <1>12, <2>1
  <2> QED BY <1>3, <2>2, <2>3, <2>4
<1>14. Closing(w, V, msgs, t)
  BY <1>1, <1>6, <1>7, <1>8, <1>12, <1>13 DEF Closing
<1> QED BY <1>14, ClosingKeeps

-----------------------------------------------------------------------------
(* The primary's tables.                                                   *)
LEMMA CapNat == IdleCap \in Nat
BY NameClaimsAssumption DEF IdleCap, claim_ttl

\* The claims cl become new, and no name comes to rest on a socket.
Loosened(cl, new) ==
  /\ new \in ClaimTable
  /\ \A n \in Names, s \in Sockets : new[n] # None /\ new[n].socketId = s =>
       cl[n] # None /\ cl[n].socketId = s /\ new[n].clientId = cl[n].clientId

LEMMA PurgeLoosens ==
  ASSUME NEW cl \in ClaimTable, NEW P
  PROVE  Loosened(cl, Purge(cl, P))
BY DEF Loosened, Purge, ClaimTable

LEMMA ReleaseLoosens ==
  ASSUME NEW cl \in ClaimTable, NEW S, NEW s
  PROVE  /\ Loosened(cl, AfterRelease(cl, S, s))
         /\ \A n \in S \cap Names : s \in Sockets /\ AfterRelease(cl, S, s)[n] # None =>
              AfterRelease(cl, S, s)[n].socketId # s
<1> DEFINE new == AfterRelease(cl, S, s)
<1>1. \A n \in Names : cl[n] # None =>
        /\ cl[n].clientId \in Owners /\ cl[n].socketId \in Sockets \cup {None} /\ cl[n].idle \in 0..IdleCap
  BY DEF ClaimTable, Entry
<1>2. None \notin Sockets
  BY NameClaimsAssumption
<1>3. \A n \in Names :
        \/ new[n] = None
        \/ new[n] = cl[n] /\ ~(n \in S /\ ReleasedBy(cl, n, s))
        \/ cl[n] # None /\ new[n] = [clientId |-> cl[n].clientId, socketId |-> None, idle |-> 0]
  BY DEF AfterRelease, ReleasedBy
<1>4. new = [n \in Names |-> new[n]]
  BY DEF AfterRelease
<1> HIDE DEF new
<1>5. ASSUME NEW n \in Names
      PROVE  new[n] \in Entry \cup {None}
  <2>1. cl[n] \in Entry \cup {None}
    BY DEF ClaimTable
  <2>2. cl[n] # None => [clientId |-> cl[n].clientId, socketId |-> None, idle |-> 0]
                          \in Entry
    BY <1>1, CapNat DEF Entry
  <2> QED BY <1>3, <2>1, <2>2
<1>6. new \in ClaimTable
  BY <1>4, <1>5 DEF ClaimTable
<1>7. ASSUME NEW n \in Names, NEW r \in Sockets, new[n] # None, new[n].socketId = r
      PROVE  /\ cl[n] # None /\ cl[n].socketId = r /\ new[n].clientId = cl[n].clientId
             /\ ~(n \in S /\ s = r)
  <2>1. ~(new[n] = [clientId |-> cl[n].clientId, socketId |-> None, idle |-> 0])
    BY <1>2, <1>7
  <2>2. new[n] = cl[n] /\ ~(n \in S /\ ReleasedBy(cl, n, s))
    BY <1>3, <1>7, <2>1
  <2> QED BY <1>7, <2>2 DEF ReleasedBy
<1> QED BY <1>6, <1>7 DEF Loosened, new

LEMMA ReleaseOwnerLoosens ==
  ASSUME NEW cl \in ClaimTable, NEW c
  PROVE  Loosened(cl, AfterReleaseOwner(cl, c))
BY DEF Loosened, AfterReleaseOwner, ClaimTable

LEMMA DeleteNameLoosens ==
  ASSUME NEW cl \in ClaimTable, NEW m
  PROVE  Loosened(cl, AfterDeleteName(cl, m))
BY DEF Loosened, AfterDeleteName, ClaimTable

LEMMA AgeLoosens ==
  ASSUME NEW cl \in ClaimTable
  PROVE  Loosened(cl, Age(cl))
<1>1. ASSUME NEW n \in Names
      PROVE  /\ Age(cl)[n] \in Entry \cup {None}
             /\ Age(cl)[n] # None => /\ cl[n] # None /\ Age(cl)[n].socketId = cl[n].socketId
                                     /\ Age(cl)[n].clientId = cl[n].clientId
  <2>1. CASE cl[n] = None
    BY <2>1 DEF Age
  <2>2. CASE cl[n] # None
    <3>1. cl[n] \in Entry
      BY <2>2 DEF ClaimTable
    <3>2. \/ cl[n].idle < IdleCap /\ Age(cl)[n] = [cl[n] EXCEPT !.idle = @ + 1]
          \/ Age(cl)[n] = cl[n]
      BY <2>2 DEF Age
    <3>3. cl[n].idle < IdleCap =>
            /\ [cl[n] EXCEPT !.idle = @ + 1] \in Entry
            /\ [cl[n] EXCEPT !.idle = @ + 1].socketId = cl[n].socketId
            /\ [cl[n] EXCEPT !.idle = @ + 1].clientId = cl[n].clientId
      BY <3>1, CapNat DEF Entry
    <3> QED BY <2>2, <3>1, <3>2, <3>3
  <2> QED BY <2>1, <2>2
<1>2. Age(cl) = [n \in Names |-> Age(cl)[n]]
  BY DEF Age
<1> DEFINE a == Age(cl)
<1>3. a \in ClaimTable
  <2>1. a = [n \in Names |-> a[n]] /\ \A n \in Names : a[n] \in Entry \cup {None}
    BY <1>1, <1>2
  <2> HIDE DEF a
  <2>2. a \in [Names -> Entry \cup {None}]
    BY <2>1
  <2> QED BY <2>2 DEF ClaimTable
<1> QED BY <1>1, <1>3 DEF Loosened

LEMMA SameLoosens == \A cl \in ClaimTable : Loosened(cl, cl)
BY DEF Loosened

LEMMA ClaimShape ==
  ASSUME NEW cl \in ClaimTable, NEW S, NEW c \in Owners, NEW s \in Sockets
  PROVE  AfterClaim(cl, S, c, s) \in ClaimTable
BY CapNat DEF AfterClaim, ClaimTable, Entry

\* Tables with at most one more host keep their shape.
LEMMA ShapeKept ==
  ASSUME NEW p, Shape(p), NEW q, NEW k0,
         DOMAIN q = Fields,
         q.sockets = [k \in Keys |-> q.sockets[k]],
         \A k \in Keys : q.sockets[k] # None => p.sockets[k] # None \/ k = k0,
         q.claims \in ClaimTable
  PROVE  Shape(q)
<1> DEFINE F == {k \in Keys : p.sockets[k] # None}
           H == {k \in Keys : q.sockets[k] # None}
<1>1. IsFiniteSet(F) /\ H \subseteq F \cup {k0}
  BY DEF Shape
<1> HIDE DEF F, H
<1>2. IsFiniteSet(F \cup {k0})
  BY <1>1, FS_AddElement
<1>3. IsFiniteSet(H)
  BY <1>1, <1>2, FS_Subset
<1> QED BY <1>3 DEF Shape, ClaimTable, H

LEMMA ShapeFields ==
  ASSUME NEW p, Shape(p)
  PROVE  /\ p.claims \in ClaimTable /\ p.sockets = [k \in Keys |-> p.sockets[k]]
         /\ IsFiniteSet({k \in Keys : p.sockets[k] # None})
BY DEF Shape, ClaimTable

LEMMA RegisterShape ==
  ASSUME NEW p, Shape(p), NEW w, NEW s, NEW h, NEW G
  PROVE  Shape(Register(p, w, s, h, G)) /\ Register(p, w, s, h, G).claims = p.claims
<1> DEFINE q == Register(p, w, s, h, G)
           F == p.sockets
<1>1. /\ q.sockets = [F EXCEPT ![h.host] = s] /\ q.claims = p.claims
      /\ DOMAIN q = Fields
  BY DEF Shape, Fields, Register
<1>2. p.claims \in ClaimTable /\ F = [k \in Keys |-> F[k]]
  BY ShapeFields
<1> HIDE DEF q, F
<1>3. /\ q.sockets = [k \in Keys |-> q.sockets[k]]
      /\ \A k \in Keys : q.sockets[k] # None => F[k] # None \/ k = h.host
  BY <1>1, <1>2
<1>4. Shape(q)
  BY <1>1, <1>2, <1>3, ShapeKept DEF F
<1> QED BY <1>1, <1>4 DEF q

LEMMA UnregisterShape ==
  ASSUME NEW p, Shape(p), NEW w, NEW k, NEW A, NEW s
  PROVE  Shape(Unregister(p, w, k, A, s)) /\ Unregister(p, w, k, A, s).claims = p.claims
<1> DEFINE q == Unregister(p, w, k, A, s)
           F == p.sockets
<1>1. CASE IsCurrentSocket(p, k, s)
  <2>1. /\ q.sockets = [F EXCEPT ![k] = None] /\ q.claims = p.claims
        /\ DOMAIN q = Fields
    BY <1>1 DEF Shape, Fields, Unregister
  <2>2. p.claims \in ClaimTable /\ F = [j \in Keys |-> F[j]]
    BY ShapeFields
  <2> HIDE DEF q, F
  <2>3. /\ q.sockets = [j \in Keys |-> q.sockets[j]]
        /\ \A j \in Keys : q.sockets[j] # None => F[j] # None \/ j = k
    BY <2>1, <2>2
  <2>4. Shape(q)
    BY <2>1, <2>2, <2>3, ShapeKept DEF F
  <2> QED BY <2>1, <2>4 DEF q
<1>2. CASE ~IsCurrentSocket(p, k, s)
  BY <1>2 DEF Unregister
<1> QED BY <1>1, <1>2

\* The tables p with other claims, or with other claims and a part of the sockets.
LEMMA ClaimsOnly ==
  ASSUME NEW p, Shape(p), NEW cl \in ClaimTable, NEW wc
  PROVE  /\ Shape([p EXCEPT !.claims = cl]) /\ [p EXCEPT !.claims = cl].claims = cl
         /\ Shape([p EXCEPT !.claims = cl, !.workerClaims = wc])
         /\ [p EXCEPT !.claims = cl, !.workerClaims = wc].claims = cl
<1> DEFINE q == [p EXCEPT !.claims = cl]
           r == [p EXCEPT !.claims = cl, !.workerClaims = wc]
<1>1. /\ q.claims = cl /\ q.sockets = p.sockets
      /\ DOMAIN q = Fields
  BY DEF Shape, Fields
<1>2. /\ r.claims = cl /\ r.sockets = p.sockets
      /\ DOMAIN r = Fields
  BY DEF Shape, Fields
<1> HIDE DEF q, r
<1>3. Shape(q)
  BY <1>1 DEF Shape, ClaimTable
<1>4. Shape(r)
  BY <1>2 DEF Shape, ClaimTable
<1> QED BY <1>1, <1>2, <1>3, <1>4 DEF q, r

LEMMA ForgetShapes ==
  ASSUME NEW p, Shape(p), NEW k, NEW K, NEW l
  PROVE  /\ Shape(ForgetHost(p, k)) /\ ForgetHost(p, k).claims = p.claims
         /\ Shape(Forgotten(p, K)) /\ Forgotten(p, K).claims = p.claims
         /\ Shape(ForgetClientEntry(p, l))
         /\ ForgetClientEntry(p, l).claims = AfterReleaseOwner(p.claims, l)
<1> DEFINE F == p.sockets
           a == ForgetHost(p, k)
           b == Forgotten(p, K)
           c == ForgetClientEntry(p, l)
<1>1. p.claims \in ClaimTable /\ F = [j \in Keys |-> F[j]]
  BY ShapeFields
<1>2. AfterReleaseOwner(p.claims, l) \in ClaimTable
  BY <1>1, ReleaseOwnerLoosens DEF Loosened
<1>3. /\ a.sockets = [F EXCEPT ![k] = None] /\ a.claims = p.claims
      /\ DOMAIN a = Fields
  BY DEF Shape, Fields, ForgetHost
<1>4. /\ b.sockets = [j \in Keys |-> IF j \in K THEN None ELSE F[j]] /\ b.claims = p.claims
      /\ DOMAIN b = Fields
  BY DEF Shape, Fields, Forgotten
<1>5. /\ c.sockets = [j \in Keys |-> IF j \in p.activeHosts[l] THEN None ELSE F[j]]
      /\ c.claims = AfterReleaseOwner(p.claims, l)
      /\ DOMAIN c = Fields
  BY DEF Shape, Fields, ForgetClientEntry
<1> HIDE DEF F, a, b, c
<1>6. /\ a.sockets = [j \in Keys |-> a.sockets[j]]
      /\ \A j \in Keys : a.sockets[j] # None => F[j] # None \/ j = None
  BY <1>1, <1>3
<1>7. /\ b.sockets = [j \in Keys |-> b.sockets[j]]
      /\ \A j \in Keys : b.sockets[j] # None => F[j] # None \/ j = None
  BY <1>4
<1>8. /\ c.sockets = [j \in Keys |-> c.sockets[j]]
      /\ \A j \in Keys : c.sockets[j] # None => F[j] # None \/ j = None
  BY <1>5
<1>9. Shape(a)
  BY <1>1, <1>3, <1>6, ShapeKept DEF F
<1>10. Shape(b)
  BY <1>1, <1>4, <1>7, ShapeKept DEF F
<1>11. Shape(c)
  BY <1>2, <1>5, <1>8, ShapeKept DEF F
<1> QED BY <1>3, <1>4, <1>5, <1>9, <1>10, <1>11 DEF a, b, c

LEMMA ExitedShape ==
  ASSUME NEW p, Shape(p), NEW w, NEW hosts
  PROVE  LET q == [WorkerExited(p, w) EXCEPT !.workerHosts = hosts]
         IN  Shape(q) /\ Loosened(p.claims, q.claims)
<1> DEFINE q == [WorkerExited(p, w) EXCEPT !.workerHosts = hosts]
           F == p.sockets
           K == Mine(p, w)
<1>1. /\ q.sockets = [k \in Keys |-> IF k \in K THEN None ELSE F[k]]
      /\ q.claims = AfterRelease(p.claims, p.workerClaims[w], None)
      /\ DOMAIN q = Fields
  BY DEF WorkerExited, Fields
<1>2. Loosened(p.claims, AfterRelease(p.claims, p.workerClaims[w], None))
  BY ShapeFields, ReleaseLoosens
<1> HIDE DEF q, F, K
<1>3. /\ q.sockets = [k \in Keys |-> q.sockets[k]]
      /\ \A k \in Keys : q.sockets[k] # None => F[k] # None \/ k = None
  BY <1>1
<1>4. q.claims \in ClaimTable
  BY <1>1, <1>2 DEF Loosened
<1>5. Shape(q)
  BY <1>1, <1>3, <1>4, ShapeKept DEF F
<1> QED BY <1>1, <1>2, <1>5 DEF q

-----------------------------------------------------------------------------
(* The steps of the primary.                                               *)

LEMMA HandledKeeps ==
  ASSUME CInv, NEW w \in Workers, NEW p, NEW msgs \in [Workers -> Seq(Messages)],
         toPrimary[w] # <<>>, Handled(w, p, msgs), Shape(p), TalksOK', RestsOK' /\ ClaimsTraced'
  PROVE  CInv'
<1>1. /\ SocketsOK /\ RoutesOK
      /\ UNCHANGED <<phase, hs, granted, at, tab, status>> /\ primary' = p
  BY DEF CInv, Handled, socketVars, workerVars
<1>2. SocketsOK'
  <2>1. \A v \in Workers : status[v] # "up" => toWorker'[v] = toWorker[v]
    BY ClusterAssumption DEF Handled, isConnected
  <2> QED BY <1>1, <2>1 DEF SocketsOK, Asked
<1>3. RoutesOK'
  BY <1>1 DEF RoutesOK
<1>4. Shape(primary)'
  BY <1>1 DEF Shape
<1> QED BY <1>2, <1>3, <1>4 DEF CInv

\* A message that grants nothing, whose answers are no answers to claims.
LEMMA QuietMessage ==
  ASSUME CInv, NEW w \in Workers, NEW p, NEW msgs \in [Workers -> Seq(Messages)],
         toPrimary[w] # <<>>, Handled(w, p, msgs), Shape(p),
         Loosened(primary.claims, p.claims),
         \A v \in Workers, s \in Sockets : Answers(s) \cap ToSet(msgs[v]) = {},
         \A n \in Names, s \in Sockets : Head(toPrimary[w]) = Release(s) =>
           ~(p.claims[n] # None /\ p.claims[n].socketId = s)
  PROVE  CInv'
<1>1. ASSUME NEW v \in Workers, NEW s \in Sockets PROVE Once(msgs[v], Answers(s))
  <2>1. \A i \in 1..Len(msgs[v]) : msgs[v][i] \in ToSet(msgs[v])
    BY SetOf
  <2> QED BY <2>1 DEF Once
<1>2. TalksOK'
  BY <1>1, HandledTalks
<1>3. ClaimsFollow(w, p, msgs)
  BY DEF Loosened, Resting, ClaimsFollow
<1>4. RestsOK' /\ ClaimsTraced'
  BY <1>3, HandledTraced
<1> QED BY <1>2, <1>4, HandledKeeps

LEMMA NothingSaid ==
  /\ Nothing \in [Workers -> Seq(Messages)]
  /\ \A v \in Workers : \A s : Answers(s) \cap ToSet(Nothing[v]) = {}
<1>1. <<>> \in Seq(Messages) /\ ToSet(<<>>) = {}
  BY Empty
<1> QED BY <1>1 DEF Nothing

\* The next message of worker w.
LEMMA NextMessage ==
  ASSUME CInv, NEW w \in Workers, toPrimary[w] # <<>>
  PROVE  /\ Head(toPrimary[w]) \in Messages /\ Head(toPrimary[w]) \in ToSet(toPrimary[w])
         /\ Shape(primary) /\ primary.claims \in ClaimTable
<1>1. toPrimary[w] \in Seq(Messages) /\ Shape(primary)
  BY DEF CInv, TalksOK
<1>2. Head(toPrimary[w]) \in Messages /\ Head(toPrimary[w]) \in ToSet(toPrimary[w])
  BY <1>1, TailParts
<1>3. primary.claims \in ClaimTable
  BY <1>1, ShapeFields
<1> QED BY <1>1, <1>2, <1>3

LEMMA SilentKeeps ==
  ASSUME CInv, NEW w \in Workers, NEW p, toPrimary[w] # <<>>, Handled(w, p, Nothing), Shape(p),
         Loosened(primary.claims, p.claims), Head(toPrimary[w]).type # "RELEASE_HOSTS"
  PROVE  CInv'
<1>1. \A s : Head(toPrimary[w]) # Release(s)
  BY DEF Release, Message
<1> QED BY <1>1, NothingSaid, QuietMessage

LEMMA OnRegisterKeeps ==
  ASSUME CInv, NEW w \in Workers, OnRegister(w)
  PROVE  CInv'
<1> DEFINE s == Arg(w)
           p == Register(primary, w, s, hs[s], granted[s])
<1>1. /\ toPrimary[w] # <<>> /\ Head(toPrimary[w]).type = "REGISTER_HOST"
      /\ Handled(w, p, Nothing)
  BY DEF OnRegister, Next1
<1>2. Shape(primary) /\ primary.claims \in ClaimTable
  BY <1>1, NextMessage
<1>3. Shape(p) /\ p.claims = primary.claims
  BY <1>2, RegisterShape
<1> HIDE DEF p
<1>4. Loosened(primary.claims, p.claims)
  BY <1>2, <1>3, SameLoosens
<1> QED BY <1>1, <1>3, <1>4, SilentKeeps

LEMMA OnUnregisterKeeps ==
  ASSUME CInv, NEW w \in Workers, OnUnregister(w)
  PROVE  CInv'
<1> DEFINE s == Arg(w)
           p == Unregister(primary, w, hs[s].host, Aliases(hs[s], granted[s]), s)
           q == Unregister(primary, w, s, {}, None)
<1>1. /\ toPrimary[w] # <<>>
      /\ \/ Head(toPrimary[w]).type = "UNREGISTER_HOST" /\ Handled(w, p, Nothing)
         \/ Head(toPrimary[w]).type = "UNREGISTER_BARE" /\ Handled(w, q, Nothing)
  BY DEF OnUnregister, Next1
<1>2. Shape(primary) /\ primary.claims \in ClaimTable
  BY <1>1, NextMessage
<1>3. Shape(p) /\ p.claims = primary.claims
  BY <1>2, UnregisterShape
<1>4. Shape(q) /\ q.claims = primary.claims
  BY <1>2, UnregisterShape
<1> HIDE DEF p, q
<1>5. Loosened(primary.claims, p.claims) /\ Loosened(primary.claims, q.claims)
  BY <1>2, <1>3, <1>4, SameLoosens
<1>6. CASE Head(toPrimary[w]).type = "UNREGISTER_HOST" /\ Handled(w, p, Nothing)
  BY <1>1, <1>3, <1>5, <1>6, SilentKeeps
<1>7. CASE Head(toPrimary[w]).type = "UNREGISTER_BARE" /\ Handled(w, q, Nothing)
  BY <1>1, <1>4, <1>5, <1>7, SilentKeeps
<1> QED BY <1>1, <1>6, <1>7

LEMMA OnForgetKeeps ==
  ASSUME CInv, NEW w \in Workers, OnForget(w)
  PROVE  CInv'
<1> DEFINE x == Arg(w)
           p == ForgetHost(primary, x)
           q == ForgetName(primary, x)
           r == ForgetClientEntry(primary, x)
<1>1. /\ toPrimary[w] # <<>>
      /\ \/ Head(toPrimary[w]).type = "FORGET_HOST" /\ Handled(w, p, Nothing)
         \/ Head(toPrimary[w]).type = "FORGET_NAME" /\ Handled(w, q, Nothing)
         \/ Head(toPrimary[w]).type = "FORGET_CLIENT" /\ Handled(w, r, Nothing)
  BY DEF OnForget, Next1
<1>2. Shape(primary) /\ primary.claims \in ClaimTable
  BY <1>1, NextMessage
<1>3. Shape(p) /\ p.claims = primary.claims
  BY <1>2, ForgetShapes
<1>4. Shape(r) /\ r.claims = AfterReleaseOwner(primary.claims, x)
  BY <1>2, ForgetShapes
<1>5. Loosened(primary.claims, AfterDeleteName(primary.claims, x))
  BY <1>2, DeleteNameLoosens
<1>6. Shape(q) /\ q.claims = AfterDeleteName(primary.claims, x)
  BY <1>2, <1>5, ClaimsOnly DEF ForgetName, Loosened
<1> HIDE DEF p, q, r
<1>7. Loosened(primary.claims, p.claims)
  BY <1>2, <1>3, SameLoosens
<1>8. Loosened(primary.claims, q.claims)
  BY <1>5, <1>6
<1>9. Loosened(primary.claims, r.claims)
  BY <1>2, <1>4, ReleaseOwnerLoosens
<1>10. CASE Head(toPrimary[w]).type = "FORGET_HOST" /\ Handled(w, p, Nothing)
  BY <1>1, <1>3, <1>7, <1>10, SilentKeeps
<1>11. CASE Head(toPrimary[w]).type = "FORGET_NAME" /\ Handled(w, q, Nothing)
  BY <1>1, <1>6, <1>8, <1>11, SilentKeeps
<1>12. CASE Head(toPrimary[w]).type = "FORGET_CLIENT" /\ Handled(w, r, Nothing)
  BY <1>1, <1>4, <1>9, <1>12, SilentKeeps
<1> QED BY <1>1, <1>10, <1>11, <1>12

LEMMA OnReleaseKeeps ==
  ASSUME CInv, NEW w \in Workers, OnRelease(w)
  PROVE  CInv'
<1> DEFINE m == Head(toPrimary[w])
           s == Arg(w)
           p == ReleaseHosts(primary, w, granted[s], s)
<1>1. toPrimary[w] # <<>> /\ m.type = "RELEASE_HOSTS" /\ Handled(w, p, Nothing)
  BY DEF OnRelease, Next1
<1>2. /\ Shape(primary) /\ primary.claims \in ClaimTable
      /\ m \in Messages /\ m \in ToSet(toPrimary[w])
  BY <1>1, NextMessage
<1>3. s \in Sockets /\ m = Release(s)
  BY <1>1, <1>2, MessageArgs DEF Arg, Release
<1>4. /\ Loosened(primary.claims, AfterRelease(primary.claims, granted[s], s))
      /\ \A n \in granted[s] \cap Names :
           s \in Sockets /\ AfterRelease(primary.claims, granted[s], s)[n] # None =>
             AfterRelease(primary.claims, granted[s], s)[n].socketId # s
  BY <1>2, ReleaseLoosens
<1>5. Shape(p) /\ p.claims = AfterRelease(primary.claims, granted[s], s)
  <2>1. DOMAIN p = Fields /\ p.sockets = primary.sockets
          /\ p.claims = AfterRelease(primary.claims, granted[s], s)
    BY <1>2 DEF Shape, Fields, ReleaseHosts
  <2> HIDE DEF p
  <2> QED BY <1>2, <1>4, <2>1 DEF Shape, ClaimTable, Loosened
<1>6. granted[s] = Asked(s)
  BY <1>2, <1>3 DEF CInv, TalksOK, TalkOK
<1> HIDE DEF p, s, m
<1>7. ASSUME NEW n \in Names, NEW r \in Sockets, m = Release(r),
             p.claims[n] # None, p.claims[n].socketId = r
      PROVE  FALSE
  <2>1. r = s
    BY <1>3, <1>7, Distinct
  <2>2. Resting(n, s)
    BY <1>4, <1>5, <1>7, <2>1 DEF Loosened, Resting
  <2>3. n \in Asked(s)
    BY <1>3, <2>2, TracedDef DEF CInv
  <2> QED BY <1>3, <1>4, <1>5, <1>6, <1>7, <2>1, <2>3
<1>8. \A v \in Workers, r \in Sockets : Answers(r) \cap ToSet(Nothing[v]) = {}
  BY NothingSaid
<1>9. Nothing \in [Workers -> Seq(Messages)]
  BY NothingSaid
<1>10. Loosened(primary.claims, p.claims)
  BY <1>4, <1>5
<1> QED BY <1>1, <1>5, <1>7, <1>8, <1>9, <1>10, QuietMessage DEF m

LEMMA ReplyParts ==
  ASSUME NEW w \in Workers, NEW s \in Sockets
  PROVE  /\ Reply(w, s, TRUE) \in [Workers -> Seq(Messages)]
         /\ Reply(w, s, FALSE) \in [Workers -> Seq(Messages)]
         /\ Answer(s, TRUE) \in ToSet(Reply(w, s, TRUE)[w])
         /\ \A v \in Workers, r \in Sockets :
              /\ Once(Reply(w, s, TRUE)[v], Answers(r)) /\ Once(Reply(w, s, FALSE)[v], Answers(r))
              /\ Answers(r) \cap ToSet(Reply(w, s, TRUE)[v]) # {} => v = w /\ r = s
              /\ Answers(r) \cap ToSet(Reply(w, s, FALSE)[v]) # {} => v = w /\ r = s
<1> DEFINE y == Answer(s, TRUE)
           n == Answer(s, FALSE)
           Y == Reply(w, s, TRUE)
           N == Reply(w, s, FALSE)
<1>1. y \in Messages /\ n \in Messages
  BY MessageTypes
<1>2. Y = [Nothing EXCEPT ![w] = <<y>>] /\ N = [Nothing EXCEPT ![w] = <<n>>]
  BY DEF Reply, Answer
<1>3. \A r : y \in Answers(r) \/ n \in Answers(r) => r = s
  BY Distinct
<1> HIDE DEF y, n, Y, N
<1>4. /\ <<y>> \in Seq(Messages) /\ ToSet(<<y>>) = {y} /\ \A M : Once(<<y>>, M)
      /\ <<n>> \in Seq(Messages) /\ ToSet(<<n>>) = {n} /\ \A M : Once(<<n>>, M)
  BY <1>1, Single
<1>5. Nothing \in [Workers -> Seq(Messages)] /\ \A v \in Workers : \A r : Answers(r) \cap ToSet(Nothing[v]) = {}
  BY NothingSaid
<1>6. ASSUME NEW v \in Workers, NEW M PROVE Once(Nothing[v], M)
  BY EmptySeq DEF Nothing, Once
<1>7. Y \in [Workers -> Seq(Messages)] /\ N \in [Workers -> Seq(Messages)]
  BY <1>2, <1>4, <1>5
<1>8. y \in ToSet(Y[w])
  BY <1>2, <1>4, <1>5
<1>9. ASSUME NEW v \in Workers, NEW r \in Sockets
      PROVE  /\ Once(Y[v], Answers(r)) /\ Once(N[v], Answers(r))
             /\ Answers(r) \cap ToSet(Y[v]) # {} => v = w /\ r = s
             /\ Answers(r) \cap ToSet(N[v]) # {} => v = w /\ r = s
  <2>1. CASE v = w
    <3>1. Y[v] = <<y>> /\ N[v] = <<n>>
      BY <1>2, <1>5, <2>1
    <3> QED BY <1>3, <1>4, <2>1, <3>1
  <2>2. CASE v # w
    <3>1. Y[v] = Nothing[v] /\ N[v] = Nothing[v]
      BY <1>2, <1>5, <2>2
    <3> QED BY <1>5, <1>6, <3>1
  <2> QED BY <2>1, <2>2
<1> QED BY <1>7, <1>8, <1>9 DEF y, Y, N

LEMMA OnClaimKeeps ==
  ASSUME CInv, NEW w \in Workers, OnClaim(w)
  PROVE  CInv'
<1> DEFINE m == Head(toPrimary[w])
           s == Arg(w)
           S == Asked(s)
           c == hs[s].owner
<1>1. /\ toPrimary[w] # <<>> /\ m.type = "CLAIM_HOSTS"
      /\ IF CanClaim(primary.claims, S, c)
           THEN Handled(w, ClaimHosts(primary, w, S, c, s), Reply(w, s, TRUE))
           ELSE \E P \in RefusalPurges(primary.claims, S) :
                  Handled(w, [primary EXCEPT !.claims = Purge(@, P)], Reply(w, s, FALSE))
  BY DEF OnClaim, Next1, Asked
<1>2. /\ Shape(primary) /\ primary.claims \in ClaimTable
      /\ m \in Messages /\ m \in ToSet(toPrimary[w])
  BY <1>1, NextMessage
<1>3. s \in Sockets /\ m = Claim(s)
  BY <1>1, <1>2, MessageArgs DEF Arg, Claim
<1>4. \A r : m # Release(r)
  BY <1>1 DEF Release, Message
<1>5. c \in Owners
  <2>1. phase[s] # "new"
    BY <1>2, <1>3 DEF CInv, TalksOK, TalkOK
  <2>2. hs[s] \in Handshakes
    BY <1>3, <2>1 DEF CInv, SocketsOK
  <2> QED BY <2>2, HandshakeParts
<1> HIDE DEF m, s, S, c
<1>6. /\ Reply(w, s, TRUE) \in [Workers -> Seq(Messages)]
      /\ Reply(w, s, FALSE) \in [Workers -> Seq(Messages)]
      /\ Answer(s, TRUE) \in ToSet(Reply(w, s, TRUE)[w])
      /\ \A v \in Workers, r \in Sockets :
           /\ Once(Reply(w, s, TRUE)[v], Answers(r)) /\ Once(Reply(w, s, FALSE)[v], Answers(r))
           /\ Answers(r) \cap ToSet(Reply(w, s, TRUE)[v]) # {} => v = w /\ r = s
           /\ Answers(r) \cap ToSet(Reply(w, s, FALSE)[v]) # {} => v = w /\ r = s
  BY <1>3, ReplyParts
<1>7. CASE CanClaim(primary.claims, S, c)
  <2> DEFINE p == ClaimHosts(primary, w, S, c, s)
             msgs == Reply(w, s, TRUE)
  <2>1. Handled(w, p, msgs)
    BY <1>1, <1>7
  <2>2. AfterClaim(primary.claims, S, c, s) \in ClaimTable
    BY <1>2, <1>3, <1>5, ClaimShape
  <2>3. Shape(p) /\ p.claims = AfterClaim(primary.claims, S, c, s)
    BY <1>2, <2>2, ClaimsOnly DEF ClaimHosts
  <2> HIDE DEF p, msgs
  <2>4. ASSUME NEW n \in Names, NEW r \in Sockets, p.claims[n] # None, p.claims[n].socketId = r
        PROVE  \/ /\ Resting(n, r) /\ p.claims[n].clientId = primary.claims[n].clientId
                  /\ m # Release(r)
               \/ /\ m = Claim(r) /\ Answer(r, TRUE) \in ToSet(msgs[w])
                  /\ n \in Asked(r) /\ p.claims[n].clientId = hs[r].owner
    <3>1. CASE n \in S
      <4>1. p.claims[n] = [clientId |-> c, socketId |-> s, idle |-> 0]
        BY <2>3, <3>1 DEF AfterClaim
      <4>2. r = s /\ p.claims[n].clientId = c
        BY <2>4, <4>1
      <4> QED BY <1>3, <1>6, <3>1, <4>2 DEF S, c, msgs
    <3>2. CASE n \notin S
      <4>1. p.claims[n] = primary.claims[n]
        BY <2>3, <3>2 DEF AfterClaim
      <4> QED BY <1>4, <2>4, <4>1 DEF Resting
    <3> QED BY <3>1, <3>2
  <2>5. msgs \in [Workers -> Seq(Messages)]
    BY <1>6 DEF msgs
  <2>6. \A v \in Workers, r \in Sockets :
          /\ Once(msgs[v], Answers(r))
          /\ Answers(r) \cap ToSet(msgs[v]) # {} => v = w /\ Head(toPrimary[w]) = Claim(r)
    BY <1>3, <1>6 DEF msgs, m
  <2>7. TalksOK'
    BY <1>1, <2>1, <2>5, <2>6, HandledTalks
  <2>9. ClaimsFollow(w, p, msgs)
    BY <2>4 DEF ClaimsFollow, m
  <2>8. RestsOK' /\ ClaimsTraced'
    BY <1>1, <2>1, <2>5, <2>9, HandledTraced
  <2> QED BY <1>1, <2>1, <2>3, <2>5, <2>7, <2>8, HandledKeeps
<1>8. CASE ~CanClaim(primary.claims, S, c)
  <2>1. PICK P : Handled(w, [primary EXCEPT !.claims = Purge(@, P)], Reply(w, s, FALSE))
    BY <1>1, <1>8
  <2> DEFINE p == [primary EXCEPT !.claims = Purge(@, P)]
             msgs == Reply(w, s, FALSE)
  <2>2. Loosened(primary.claims, Purge(primary.claims, P))
    BY <1>2, PurgeLoosens
  <2>3. Shape(p) /\ p.claims = Purge(primary.claims, P)
    BY <1>2, <2>2, ClaimsOnly DEF Loosened
  <2>4. Handled(w, p, msgs)
    BY <2>1
  <2> HIDE DEF p, msgs
  <2>5. \A n \in Names, r \in Sockets : p.claims[n] # None /\ p.claims[n].socketId = r =>
          /\ Resting(n, r) /\ p.claims[n].clientId = primary.claims[n].clientId
          /\ m # Release(r)
    BY <1>4, <2>2, <2>3 DEF Loosened, Resting
  <2>6. msgs \in [Workers -> Seq(Messages)]
    BY <1>6 DEF msgs
  <2>7. \A v \in Workers, r \in Sockets :
          /\ Once(msgs[v], Answers(r))
          /\ Answers(r) \cap ToSet(msgs[v]) # {} => v = w /\ Head(toPrimary[w]) = Claim(r)
    BY <1>3, <1>6 DEF msgs, m
  <2>8. TalksOK'
    BY <1>1, <2>4, <2>6, <2>7, HandledTalks
  <2>10. ClaimsFollow(w, p, msgs)
    BY <2>5 DEF ClaimsFollow, m
  <2>9. RestsOK' /\ ClaimsTraced'
    BY <1>1, <2>4, <2>6, <2>10, HandledTraced
  <2> QED BY <1>1, <2>3, <2>4, <2>6, <2>8, <2>9, HandledKeeps
<1> QED BY <1>7, <1>8

LEMMA OrdersParts ==
  ASSUME NEW K, K \subseteq Keys, IsFiniteSet(K)
  PROVE  /\ Orders(K) \in [Workers -> Seq(Messages)]
         /\ \A v \in Workers : \A s : Answers(s) \cap ToSet(Orders(K)[v]) = {}
<1>1. ASSUME NEW v \in Workers
      PROVE  /\ Orders(K)[v] \in Seq(Messages)
             /\ \A s : Answers(s) \cap ToSet(Orders(K)[v]) = {}
  <2> DEFINE M == {k \in K : primary.hostToWorker[k] = v}
             mine == SetToSeq(M)
             N == Cardinality(M)
             q == [i \in 1..N |-> Message("DO_DISCONNECT_SOCKET", mine[i])]
  <2>1. IsFiniteSet(M) /\ M \subseteq Keys
    <3>1. M \subseteq K
      OBVIOUS
    <3> QED BY <3>1, FS_Subset
  <2> HIDE DEF M
  <2>2. N \in Nat /\ mine \in [1..N -> M]
    BY <2>1, SetToSeqParts
  <2>3. Orders(K)[v] = q
    <3>1. DOMAIN mine = 1..N
      BY <2>2
    <3> QED BY <3>1 DEF Orders, M
  <2> HIDE DEF mine, N
  <2>4. \A i \in 1..N : q[i] \in Messages /\ q[i].type = "DO_DISCONNECT_SOCKET"
    <3> SUFFICES ASSUME NEW i \in 1..N
                 PROVE  q[i] \in Messages /\ q[i].type = "DO_DISCONNECT_SOCKET"
      OBVIOUS
    <3>1. mine[i] \in Keys
      BY <2>1, <2>2
    <3> QED BY <3>1, MessageTypes DEF Message
  <2>5. q = [i \in 1..N |-> q[i]]
    OBVIOUS
  <2> HIDE DEF q
  <2>6. q \in Seq(Messages) /\ Len(q) = N
    <3>1. q \in [1..N -> Messages]
      BY <2>4, <2>5
    <3> QED BY <2>2, <3>1, SeqDef, LenProperties
  <2>7. ToSet(q) = {q[i] : i \in 1..Len(q)}
    BY <2>6, SetOf
  <2>8. \A x \in ToSet(q) : x.type = "DO_DISCONNECT_SOCKET"
    BY <2>4, <2>6, <2>7
  <2>9. \A s, x : x \in Answers(s) => x.type = "CLAIM_HOSTS_RES"
    BY Distinct
  <2> QED BY <2>3, <2>6, <2>8, <2>9
<1>2. Orders(K) = [v \in Workers |-> Orders(K)[v]]
  BY DEF Orders
<1> HIDE DEF Orders
<1> QED BY <1>1, <1>2

LEMMA OnDisconnectKeeps ==
  ASSUME CInv, NEW w \in Workers, OnDisconnect(w)
  PROVE  CInv'
<1>1. PICK K : /\ toPrimary[w] # <<>> /\ Head(toPrimary[w]).type # "RELEASE_HOSTS"
               /\ K \subseteq Keys /\ IsFiniteSet(K)
               /\ Handled(w, Forgotten(primary, K), Orders(K))
  <2>1. CASE /\ Next1(w, "DISCONNECT_SOCKET_CLUSTER")
             /\ Handled(w, Forgotten(primary, {Arg(w)}), Orders({Arg(w)}))
    <3>1. toPrimary[w] # <<>> /\ Head(toPrimary[w]).type = "DISCONNECT_SOCKET_CLUSTER"
      BY <2>1 DEF Next1
    <3>2. Arg(w) \in Keys
      BY <3>1, NextMessage, MessageArgs DEF Arg
    <3>3. {Arg(w)} \subseteq Keys /\ IsFiniteSet({Arg(w)})
      BY <3>2, FS_Singleton
    <3> QED BY <2>1, <3>1, <3>3
  <2>2. CASE /\ Next1(w, "DISCONNECT_CLIENT_CLUSTER")
             /\ LET K == HostsOfClient(primary, hs, Arg(w))
                IN  Handled(w, Forgotten(primary, K), Orders(K))
    <3> DEFINE K == HostsOfClient(primary, hs, Arg(w))
    <3>1. toPrimary[w] # <<>> /\ Head(toPrimary[w]).type = "DISCONNECT_CLIENT_CLUSTER"
      BY <2>2 DEF Next1
    <3>2. IsFiniteSet({k \in Keys : primary.sockets[k] # None})
      BY <3>1, NextMessage, ShapeFields
    <3>3. K \subseteq {k \in Keys : primary.sockets[k] # None}
      BY DEF HostsOfClient
    <3>4. K \subseteq Keys /\ IsFiniteSet(K)
      BY <3>2, <3>3, FS_Subset
    <3>5. Handled(w, Forgotten(primary, K), Orders(K))
      BY <2>2
    <3> HIDE DEF K
    <3> QED BY <3>1, <3>4, <3>5
  <2> QED BY <2>1, <2>2 DEF OnDisconnect
<1> DEFINE p == Forgotten(primary, K)
           msgs == Orders(K)
<1>2. Shape(primary) /\ primary.claims \in ClaimTable
  BY <1>1, NextMessage
<1>3. Shape(p) /\ p.claims = primary.claims
  BY <1>2, ForgetShapes
<1>4. msgs \in [Workers -> Seq(Messages)] /\ \A v \in Workers, s \in Sockets : Answers(s) \cap ToSet(msgs[v]) = {}
  BY <1>1, OrdersParts
<1>5. \A s : Head(toPrimary[w]) # Release(s)
  BY <1>1 DEF Release, Message
<1>6. Handled(w, p, msgs)
  BY <1>1
<1> HIDE DEF p, msgs
<1>7. Loosened(primary.claims, p.claims)
  BY <1>2, <1>3, SameLoosens
<1> QED BY <1>1, <1>3, <1>4, <1>5, <1>6, <1>7, QuietMessage

LEMMA ReceiveKeeps ==
  ASSUME CInv, NEW w \in Workers, Receive(w)
  PROVE  CInv'
BY OnRegisterKeeps, OnUnregisterKeeps, OnClaimKeeps, OnReleaseKeeps, OnForgetKeeps,
   OnDisconnectKeeps DEF Receive

-----------------------------------------------------------------------------
(* Crashes, exits and the clock.                                           *)

LEMMA DiesKeeps ==
  ASSUME CInv, NEW w \in Workers, Dies(w)
  PROVE  CInv'
<1>1. /\ SocketsOK /\ RoutesOK /\ Shape(primary) /\ RestsOK
      /\ toPrimary \in [Workers -> Seq(Messages)] /\ toWorker \in [Workers -> Seq(Messages)]
      /\ \A v \in Workers, s \in Sockets : TalkOK(v, s)
  BY DEF CInv, TalksOK
<1>2. PICK i \in 0..Len(toPrimary[w]) : toPrimary' = [toPrimary EXCEPT ![w] = SubSeq(@, 1, i)]
  BY DEF Dies
<1>3. /\ status' = [status EXCEPT ![w] = "dead"]
      /\ phase' = [s \in Sockets |->
           IF at[s] = w /\ phase[s] \in {"asked", "open"} THEN "gone" ELSE phase[s]]
      /\ tab' = [tab EXCEPT ![w] = NoTables]
      /\ toWorker' = [toWorker EXCEPT ![w] = <<>>]
      /\ UNCHANGED <<hs, granted, at, primary>>
  BY DEF Dies
<1>4. /\ \A v \in Workers : status'[v] = IF v = w THEN "dead" ELSE status[v]
      /\ \A s \in Sockets : /\ at[s] # w => phase'[s] = phase[s]
                            /\ phase[s] = "gone" => phase'[s] = "gone"
                            /\ phase[s] # "new" => phase'[s] # "new"
                            /\ phase'[s] \in {"asked", "open"} => phase'[s] = phase[s] /\ at[s] # w
                            /\ phase'[s] # "new" => phase[s] # "new"
      /\ phase' \in [Sockets -> Phases]
      /\ status' \in [Workers -> {"unborn", "up", "dead", "exited"}]
  BY <1>1, <1>3 DEF SocketsOK, Phases
<1>5. SocketsOK'
  <2>1. \A v \in Workers : status'[v] # "up" => toWorker'[v] = <<>>
    BY <1>1, <1>3, <1>4 DEF SocketsOK
  <2> QED BY <1>1, <1>3, <1>4, <2>1 DEF SocketsOK, Asked
<1>6. ASSUME NEW v \in Workers, NEW k \in Keys, tab'[v].routes[k] # None
      PROVE  LET s == tab'[v].routes[k] IN
             s \in Sockets /\ phase'[s] = "open" /\ at'[s] = v /\ k \in Aliases(hs'[s], granted'[s])
  <2>1. v # w /\ tab'[v] = tab[v]
    BY <1>1, <1>3, <1>6 DEF RoutesOK, NoTables
  <2>2. LET s == tab[v].routes[k] IN
        s \in Sockets /\ phase[s] = "open" /\ at[s] = v /\ k \in Aliases(hs[s], granted[s])
    BY <1>1, <1>6, <2>1 DEF RoutesOK
  <2> QED BY <1>3, <1>4, <2>1, <2>2
<1>7. tab' = [v \in Workers |-> tab'[v]]
  BY <1>1, <1>3 DEF RoutesOK
<1>8. RoutesOK'
  BY <1>6, <1>7 DEF RoutesOK
<1>9. Shape(primary)'
  BY <1>1, <1>3 DEF Shape
<1>10. ASSUME NEW v \in Workers
       PROVE  /\ toPrimary'[v] \in Seq(Messages) /\ ToSet(toPrimary'[v]) \subseteq ToSet(toPrimary[v])
              /\ \A M : Once(toPrimary[v], M) => Once(toPrimary'[v], M)
              /\ v # w => toPrimary'[v] = toPrimary[v]
  <2> DEFINE p == SubSeq(toPrimary[w], 1, i)
  <2>1. p \in Seq(Messages) /\ ToSet(p) \subseteq ToSet(toPrimary[w])
          /\ \A M : Once(toPrimary[w], M) => Once(p, M)
    BY <1>1, CutParts
  <2>2. toPrimary'[v] = IF v = w THEN p ELSE toPrimary[v]
    BY <1>1, <1>2
  <2> HIDE DEF p
  <2> QED BY <1>1, <2>1, <2>2
<1>11. ASSUME NEW v \in Workers
       PROVE  /\ toWorker'[v] \in Seq(Messages) /\ ToSet(toWorker'[v]) \subseteq ToSet(toWorker[v])
              /\ \A M : Once(toWorker[v], M) => Once(toWorker'[v], M)
              /\ v # w => toWorker'[v] = toWorker[v]
  <2>1. CASE v = w
    <3>1. toWorker'[v] = <<>>
      BY <1>1, <1>3, <2>1
    <3>2. \A M : Once(<<>>, M)
      BY EmptySeq DEF Once
    <3> QED BY <2>1, <3>1, <3>2, Empty
  <2>2. CASE v # w
    BY <1>1, <1>3, <2>2
  <2> QED BY <2>1, <2>2
<1>12. ASSUME NEW v \in Workers, NEW s \in Sockets PROVE TalkOK(v, s)'
  <2>1. TalkOK(v, s)
    BY <1>1
  <2>2. Once(toPrimary'[v], {Claim(s)}) /\ Once(toWorker'[v], Answers(s))
    BY <1>10, <1>11, <2>1 DEF TalkOK
  <2>3. ASSUME Claim(s) \in ToSet(toPrimary'[v])
        PROVE  /\ at[s] = v /\ phase'[s] # "new"
               /\ (phase'[s] \in {"asked", "left"} \/ status'[v] \in {"dead", "exited"})
               /\ Answers(s) \cap ToSet(toWorker'[v]) = {}
    <3>1. /\ at[s] = v /\ phase[s] # "new" /\ (phase[s] \in {"asked", "left"} \/ Lost(v))
          /\ Answers(s) \cap ToSet(toWorker[v]) = {}
      BY <1>10, <2>1, <2>3 DEF TalkOK
    <3> QED BY <1>4, <1>11, <3>1 DEF Lost
  <2>4. Answers(s) \cap ToSet(toWorker'[v]) # {} => at[s] = v /\ phase'[s] # "new"
    BY <1>4, <1>11, <2>1 DEF TalkOK
  <2>5. Release(s) \in ToSet(toPrimary'[v]) =>
          at[s] = v /\ phase'[s] = "gone" /\ granted[s] = Asked(s)
    BY <1>4, <1>10, <2>1 DEF TalkOK
  <2>6. Answers(s)' = Answers(s) /\ Claim(s)' = Claim(s) /\ Release(s)' = Release(s)
    BY DEF Answers, Answer, Claim, Release
  <2> QED BY <1>3, <2>2, <2>3, <2>4, <2>5, <2>6 DEF TalkOK, Asked, Lost
<1>13. toPrimary' \in [Workers -> Seq(Messages)] /\ toWorker' \in [Workers -> Seq(Messages)]
  <2>1. toPrimary' = [v \in Workers |-> toPrimary'[v]] /\ toWorker' = [v \in Workers |-> toWorker'[v]]
    BY <1>1, <1>2, <1>3
  <2>2. \A v \in Workers : toPrimary'[v] \in Seq(Messages)
    BY <1>10
  <2>3. \A v \in Workers : toWorker'[v] \in Seq(Messages)
    BY <1>11
  <2>4. toPrimary' \in [Workers -> Seq(Messages)]
    BY <2>1, <2>2
  <2>5. toWorker' \in [Workers -> Seq(Messages)]
    BY <2>1, <2>3
  <2> QED BY <2>4, <2>5
<1>14. TalksOK'
  BY <1>12, <1>13 DEF TalksOK
<1>15. \A n \in Names, s \in Sockets : Resting(n, s)' <=> Resting(n, s)
  BY <1>3 DEF Resting
<1>16. RestsOK'
  BY <1>1, <1>4, <1>15 DEF RestsOK
<1>17. ASSUME NEW n \in Names, NEW s \in Sockets, Resting(n, s)
       PROVE  /\ n \in Asked(s) /\ hs[s].owner = primary.claims[n].clientId
              /\ \/ phase'[s] = "open" /\ n \in granted[s]
                 \/ phase'[s] = "asked" /\ Answer(s, TRUE) \in ToSet(toWorker'[at[s]])
                 \/ Release(s) \in ToSet(toPrimary'[at[s]])
                 \/ phase'[s] = "left"
                 \/ status'[at[s]] \in {"dead", "exited"}
  <2>1. n \in Asked(s) /\ hs[s].owner = primary.claims[n].clientId /\ Reason(n, s)
    BY <1>17, TracedDef DEF CInv
  <2>2. phase[s] # "new" /\ at[s] \in Workers
    BY <1>1, <1>17 DEF RestsOK, SocketsOK
  <2>3. CASE at[s] = w
    BY <1>4, <2>1, <2>2, <2>3
  <2>4. CASE at[s] # w
    <3>1. /\ phase'[s] = phase[s] /\ status'[at[s]] = status[at[s]]
          /\ toPrimary'[at[s]] = toPrimary[at[s]] /\ toWorker'[at[s]] = toWorker[at[s]]
      BY <1>4, <1>10, <1>11, <2>2, <2>4
    <3> QED BY <2>1, <3>1 DEF Reason, Lost
  <2> QED BY <2>3, <2>4
<1>18. ClaimsTraced'
  BY <1>3, <1>15, <1>17 DEF ClaimsTraced, Asked, Answer, Release
<1> QED BY <1>5, <1>8, <1>9, <1>14, <1>16, <1>18 DEF CInv

LEMMA ExitKeeps ==
  ASSUME CInv, NEW w \in Workers, Exit(w)
  PROVE  CInv'
<1>1. PICK v \in Heirs : ExitTo(w, v)
  BY DEF Exit
<1>2. v = None \/ (v \in Workers /\ status[v] = "unborn")
  BY <1>1 DEF Heirs, Having
<1>3. /\ SocketsOK /\ RoutesOK /\ Shape(primary) /\ TalksOK /\ RestsOK
  BY DEF CInv
<1> DEFINE hosts == [u \in Workers |-> IF u = v THEN {} ELSE WorkerExited(primary, w).workerHosts[u]]
           q == [WorkerExited(primary, w) EXCEPT !.workerHosts = hosts]
<1>4. /\ status[w] = "dead"
      /\ status' = [u \in Workers |->
                     IF u = w THEN "exited" ELSE IF u = v THEN "up" ELSE status[u]]
      /\ primary' = q
      /\ UNCHANGED <<phase, hs, granted, at, tab, toPrimary, toWorker>>
  BY <1>1 DEF ExitTo, socketVars
<1>5. Shape(q) /\ Loosened(primary.claims, q.claims)
  BY <1>3, ExitedShape
<1> HIDE DEF q
<1>6. \A u \in Workers : /\ status[u] = "up" => status'[u] = "up"
                         /\ status[u] \in {"dead", "exited"} => status'[u] \in {"dead", "exited"}
  BY <1>2, <1>4, ClusterAssumption
<1>7. status' \in [Workers -> {"unborn", "up", "dead", "exited"}]
  BY <1>3, <1>4 DEF SocketsOK
<1>8. SocketsOK'
  BY <1>3, <1>4, <1>6, <1>7 DEF SocketsOK, Asked
<1>9. RoutesOK'
  BY <1>3, <1>4 DEF RoutesOK
<1>10. Shape(primary)'
  BY <1>4, <1>5 DEF Shape
<1>11. ASSUME NEW u \in Workers, NEW s \in Sockets PROVE TalkOK(u, s)'
  <2>1. TalkOK(u, s)
    BY <1>3 DEF TalksOK
  <2>2. /\ Answers(s)' = Answers(s) /\ Claim(s)' = Claim(s) /\ Release(s)' = Release(s)
        /\ Asked(s)' = Asked(s)
    BY <1>4 DEF Answers, Answer, Claim, Release, Asked
  <2>3. Lost(u) => Lost(u)'
    BY <1>6 DEF Lost
  <2> QED BY <1>4, <2>1, <2>2, <2>3 DEF TalkOK
<1>12. TalksOK'
  BY <1>3, <1>4, <1>11 DEF TalksOK
<1>13. \A n \in Names, s \in Sockets : Resting(n, s)' =>
         Resting(n, s) /\ primary'.claims[n].clientId = primary.claims[n].clientId
  BY <1>4, <1>5 DEF Resting, Loosened
<1>14. RestsOK'
  BY <1>3, <1>4, <1>13 DEF RestsOK
<1>15. ASSUME NEW n \in Names, NEW s \in Sockets, Resting(n, s)
       PROVE  /\ n \in Asked(s) /\ hs[s].owner = primary.claims[n].clientId
              /\ \/ phase[s] = "open" /\ n \in granted[s]
                 \/ phase[s] = "asked" /\ Answer(s, TRUE) \in ToSet(toWorker[at[s]])
                 \/ Release(s) \in ToSet(toPrimary[at[s]])
                 \/ phase[s] = "left"
                 \/ status'[at[s]] \in {"dead", "exited"}
  <2>1. n \in Asked(s) /\ hs[s].owner = primary.claims[n].clientId /\ Reason(n, s)
    BY <1>15, TracedDef DEF CInv
  <2>2. at[s] \in Workers
    BY <1>3, <1>15 DEF RestsOK, SocketsOK
  <2> QED BY <1>6, <2>1, <2>2 DEF Reason, Lost
<1>16. ClaimsTraced'
  BY <1>4, <1>13, <1>15 DEF ClaimsTraced, Asked, Answer, Release
<1> QED BY <1>8, <1>9, <1>10, <1>12, <1>14, <1>16 DEF CInv

\* A step that leaves the sockets, the workers and their channels alone.
LEMMA CalmKeeps ==
  ASSUME CInv, UNCHANGED <<phase, hs, granted, at, tab, status, toPrimary, toWorker>>,
         Shape(primary'), Loosened(primary.claims, primary'.claims)
  PROVE  CInv'
<1>1. SocketsOK /\ RoutesOK /\ TalksOK /\ RestsOK
  BY DEF CInv
<1>2. SocketsOK'
  BY <1>1 DEF SocketsOK, Asked
<1>3. RoutesOK'
  BY <1>1 DEF RoutesOK
<1>4. Shape(primary)'
  BY DEF Shape
<1>5. TalksOK'
  BY <1>1 DEF TalksOK, TalkOK, Answers, Answer, Claim, Release, Asked, Lost
<1>6. \A n \in Names, s \in Sockets : Resting(n, s)' =>
        Resting(n, s) /\ primary'.claims[n].clientId = primary.claims[n].clientId
  BY DEF Resting, Loosened
<1>7. RestsOK'
  BY <1>1, <1>6 DEF RestsOK
<1>8. ClaimsTraced'
  BY <1>6 DEF CInv, ClaimsTraced
<1> QED BY <1>2, <1>3, <1>4, <1>5, <1>7, <1>8 DEF CInv

LEMMA HourKeeps ==
  ASSUME CInv, Hour
  PROVE  CInv'
<1>1. /\ primary' = [primary EXCEPT !.claims = Age(@)]
      /\ UNCHANGED <<phase, hs, granted, at, tab, status, toPrimary, toWorker>>
  BY DEF Hour, socketVars, workerVars
<1>2. Shape(primary) /\ primary.claims \in ClaimTable
  BY ShapeFields DEF CInv
<1> DEFINE cl == Age(primary.claims)
<1>3. Loosened(primary.claims, cl)
  BY <1>2, AgeLoosens
<1>4. cl \in ClaimTable /\ primary' = [primary EXCEPT !.claims = cl]
  BY <1>1, <1>3 DEF Loosened
<1> HIDE DEF cl
<1>5. Shape(primary') /\ primary'.claims = cl
  BY <1>2, <1>4, ClaimsOnly
<1> QED BY <1>1, <1>3, <1>5, CalmKeeps

-----------------------------------------------------------------------------
LEMMA InitCInv == Init => CInv
<1> SUFFICES ASSUME Init PROVE CInv
  OBVIOUS
<1>1. /\ phase = [s \in Sockets |-> "new"] /\ hs = [s \in Sockets |-> None]
      /\ granted = [s \in Sockets |-> {}] /\ at = [s \in Sockets |-> None]
      /\ tab = [w \in Workers |-> NoTables]
      /\ status = [w \in Workers |-> IF w \in ToSet(slots) THEN "up" ELSE "unborn"]
      /\ primary = FreshPrimary(ToSet(slots))
      /\ toPrimary = [w \in Workers |-> <<>>] /\ toWorker = [w \in Workers |-> <<>>]
  BY DEF Init
<1>2. SocketsOK
  BY <1>1 DEF SocketsOK, Phases
<1>3. RoutesOK
  BY <1>1 DEF RoutesOK, NoTables
<1>4. /\ primary.claims = [n \in Names |-> None] /\ primary.sockets = [k \in Keys |-> None]
      /\ DOMAIN primary = Fields
  BY <1>1 DEF FreshPrimary, NoClaims, Fields
<1>5. Shape(primary)
  <2>1. {k \in Keys : primary.sockets[k] # None} = {}
    BY <1>4
  <2>2. IsFiniteSet({k \in Keys : primary.sockets[k] # None})
    BY <2>1, FS_EmptySet
  <2> QED BY <1>4, <2>2 DEF Shape, ClaimTable
<1>6. TalksOK
  <2>1. <<>> \in Seq(Messages) /\ ToSet(<<>>) = {} /\ \A M : Once(<<>>, M)
    BY Empty, EmptySeq DEF Once
  <2> QED BY <1>1, <2>1 DEF TalksOK, TalkOK
<1>7. \A n \in Names, s \in Sockets : ~Resting(n, s)
  BY <1>4 DEF Resting
<1> QED BY <1>2, <1>3, <1>5, <1>6, <1>7 DEF CInv, RestsOK, ClaimsTraced

LEMMA StepCInv == CInv /\ [Next]_vars => CInv'
<1> SUFFICES ASSUME CInv, [Next]_vars PROVE CInv'
  OBVIOUS
<1>1. Shape(primary) /\ primary.claims \in ClaimTable
  BY ShapeFields DEF CInv
<1>2. Loosened(primary.claims, primary.claims)
  BY <1>1, SameLoosens
<1>3. ASSUME NEW s \in Sockets, NEW h \in Handshakes, NEW w \in Workers,
             Refuse(s, h, w) \/ Ask(s, h, w) \/ TakeOver(s, h, w)
      PROVE  CInv'
  BY <1>3, RefuseKeeps, AskKeeps, TakeOverKeeps
<1>4. ASSUME NEW s \in Sockets, GiveUp(s) \/ Close(s) PROVE CInv'
  BY <1>4, GiveUpKeeps, CloseKeeps
<1>5. ASSUME NEW w \in Workers, Answered(w) PROVE CInv'
  BY <1>5, AnsweredKeeps
<1>6. ASSUME NEW w \in Workers, DoDisconnect(w) PROVE CInv'
  BY <1>6, DoDisconnectKeeps
<1>7. ASSUME NEW w \in Workers, Receive(w) PROVE CInv'
  BY <1>7, ReceiveKeeps
<1>8. ASSUME NEW w \in Workers, Crash(w) \/ WorkerStops(w) PROVE CInv'
  BY <1>8, DiesKeeps DEF Crash, WorkerStops
<1>9. ASSUME NEW w \in Workers, Exit(w) PROVE CInv'
  BY <1>9, ExitKeeps
<1>10. ASSUME NEW w \in Workers, NEW k \in AdminKeys, RemoveTunnel(w, k) PROVE CInv'
  BY <1>10, RemoveTunnelKeeps
<1>11. ASSUME NEW w \in Workers, NEW l \in AdminLabels, RemoveClient(w, l) PROVE CInv'
  BY <1>11, RemoveClientKeeps
<1>12. CASE Hour
  BY <1>12, HourKeeps
<1>13. CASE ShutDown
  <2>1. UNCHANGED <<phase, hs, granted, at, tab, status, primary, toPrimary, toWorker>>
    BY <1>13 DEF ShutDown, socketVars, workerVars
  <2> QED BY <1>1, <1>2, <2>1, CalmKeeps
<1>14. CASE UNCHANGED vars
  <2>1. UNCHANGED <<phase, hs, granted, at, tab, status, primary, toPrimary, toWorker>>
    BY <1>14 DEF vars
  <2> QED BY <1>1, <1>2, <2>1, CalmKeeps
<1> QED BY <1>3, <1>4, <1>5, <1>6, <1>7, <1>8, <1>9, <1>10, <1>11, <1>12, <1>13, <1>14 DEF Next

\* A claimed name can be traced (cluster.js's CLAIM_HOSTS, RELEASE_HOSTS and exit
\* handlers against server.js's middleware and onDisconnect): it rests on a socket
\* of its owner that asked for it, and that socket serves it, waits for the answer
\* to its claim, has its release on the way, left before the answer, or was at a
\* worker that died.  Whatever the handshakes, the crashes, the administrator's
\* removals and the order in which the messages of different workers are handled.
THEOREM ClaimsAreTraced == Spec => []ClaimsTraced
<1>1. CInv => ClaimsTraced
  BY DEF CInv
<1> QED BY <1>1, InitCInv, StepCInv, PTL DEF Spec

-----------------------------------------------------------------------------
(* The primary's hosts.  What a worker routes and what the primary lists   *)
(* differ by the messages under way, so the invariant looks at what comes  *)
(* after a place of a queue: place 0 stands for the primary's tables.      *)

Later(q, i, m) == \E j \in (i + 1)..Len(q) : q[j] = m

LEMMA LaterMember ==
  ASSUME NEW S, NEW q \in Seq(S), NEW i \in Nat, NEW m, Later(q, i, m)
  PROVE  m \in ToSet(q)
<1>1. PICK j \in (i + 1)..Len(q) : q[j] = m
  BY DEF Later
<1>2. Len(q) \in Nat
  BY LenProperties
<1>3. j \in 1..Len(q)
  BY <1>1, <1>2
<1> QED BY <1>1, <1>3, SetOf

LEMMA LaterAll ==
  ASSUME NEW S, NEW q \in Seq(S), NEW m \in ToSet(q)
  PROVE  Later(q, 0, m)
<1>1. PICK j \in 1..Len(q) : q[j] = m
  BY SetOf
<1> QED BY <1>1 DEF Later

LEMMA LaterConcat ==
  ASSUME NEW S, NEW q \in Seq(S), NEW p \in Seq(S), NEW i \in 0..Len(q)
  PROVE  \A m : Later(q, i, m) \/ m \in ToSet(p) => Later(q \o p, i, m)
<1> DEFINE u == q \o p
<1>1. /\ u \in Seq(S) /\ Len(u) = Len(q) + Len(p)
      /\ \A j \in 1..Len(q) : j \in 1..Len(u) /\ u[j] = q[j]
      /\ \A j \in 1..Len(p) : Len(q) + j \in 1..Len(u) /\ u[Len(q) + j] = p[j]
  BY AtConcat
<1>2. Len(q) \in Nat /\ Len(p) \in Nat
  BY LenProperties
<1> HIDE DEF u
<1>3. ASSUME NEW m, Later(q, i, m) PROVE Later(u, i, m)
  <2>1. PICK j \in (i + 1)..Len(q) : q[j] = m
    BY <1>3 DEF Later
  <2>2. j \in 1..Len(q) /\ j \in (i + 1)..Len(u)
    BY <1>1, <1>2
  <2> QED BY <1>1, <2>1, <2>2 DEF Later
<1>4. ASSUME NEW m \in ToSet(p) PROVE Later(u, i, m)
  <2>1. PICK j \in 1..Len(p) : p[j] = m
    BY SetOf
  <2>2. Len(q) + j \in (i + 1)..Len(u)
    BY <1>1, <1>2
  <2> QED BY <1>1, <2>1, <2>2 DEF Later
<1> QED BY <1>3, <1>4 DEF u

\* The places of a queue when its head is gone.
LEMMA LaterTail ==
  ASSUME NEW S, NEW q \in Seq(S), q # <<>>
  PROVE  /\ Len(q) = Len(Tail(q)) + 1 /\ Len(Tail(q)) \in Nat
         /\ \A i \in 1..Len(Tail(q)) : i + 1 \in 1..Len(q) /\ Tail(q)[i] = q[i + 1]
         /\ \A i \in Nat : \A m : Later(q, i + 1, m) => Later(Tail(q), i, m)
         /\ \A m : Later(q, 0, m) => Head(q) = m \/ Later(Tail(q), 0, m)
         /\ 1 \in 1..Len(q) /\ q[1] = Head(q)
<1> DEFINE t == Tail(q)
<1>1. /\ t \in Seq(S) /\ Len(q) \in Nat \ {0} /\ Len(t) = Len(q) - 1
      /\ Head(q) = q[1] /\ \A i \in 1..Len(t) : t[i] = q[i + 1]
  <2>1. Len(q) \in Nat \ {0} /\ Head(q) = q[1]
    BY EmptySeq
  <2> QED BY <2>1, HeadTailProperties
<1> HIDE DEF t
<1>2. ASSUME NEW i \in Nat, NEW m, Later(q, i + 1, m) PROVE Later(t, i, m)
  <2>1. PICK j \in ((i + 1) + 1)..Len(q) : q[j] = m
    BY <1>2 DEF Later
  <2>2. j - 1 \in (i + 1)..Len(t) /\ j - 1 \in 1..Len(t) /\ (j - 1) + 1 = j
    BY <1>1, <2>1
  <2>3. t[j - 1] = m
    BY <1>1, <2>1, <2>2
  <2> QED BY <2>2, <2>3 DEF Later
<1>3. ASSUME NEW m, Later(q, 0, m) PROVE Head(q) = m \/ Later(t, 0, m)
  <2>1. PICK j \in 1..Len(q) : q[j] = m
    BY <1>3 DEF Later
  <2>2. CASE j = 1
    BY <1>1, <2>1, <2>2
  <2>3. CASE j # 1
    <3>1. j \in (0 + 1 + 1)..Len(q)
      BY <1>1, <2>3
    <3>2. Later(q, 0 + 1, m)
      BY <2>1, <3>1 DEF Later
    <3> QED BY <1>2, <3>2
  <2> QED BY <2>2, <2>3
<1>4. /\ Len(q) = Len(t) + 1 /\ Len(t) \in Nat /\ 1 \in 1..Len(q)
      /\ \A i \in 1..Len(t) : i + 1 \in 1..Len(q)
  BY <1>1
<1> QED BY <1>1, <1>2, <1>3, <1>4 DEF t

\* No handshake is granted or announces a host of another one: its names belong to the
\* host it dials.
OwnHosts ==
  \A h \in Handshakes : \A k \in Hosts :
    k \in Aliases(h, resolveRequestedNames(h)) => k = h.host

\* A host is registered after place i of the queue of u.
Renewed(u, h, i) == \E t \in Sockets : hs[t].host = h /\ Later(toPrimary[u], i, Reg(t))

\* Worker u routes h to s, or has stopped to and says so after place i.
Kept(u, h, s, i) ==
  \/ tab[u].routes[h] = s
  \/ tab[u].routes[h] = None /\ hs[s].host = h /\ Later(toPrimary[u], i, Unreg(s))

\* Registrations and their ends are about sockets that were connected to the sender.
SpokenOK ==
  \A u \in Workers, s \in Sockets : {Reg(s), Unreg(s)} \cap ToSet(toPrimary[u]) # {} =>
    phase[s] \in {"open", "gone"} /\ at[s] = u /\ (Unreg(s) \in ToSet(toPrimary[u]) => phase[s] = "gone")

\* The primary knows which keys a worker registered as long as it has not exited.
HeldOK ==
  /\ primary.hostToWorker \in [Keys -> Workers \cup {None}]
  /\ primary.workerHosts = [u \in Workers |-> primary.workerHosts[u]]
  /\ \A u \in Workers :
       /\ status[u] \in {"unborn", "exited"} => toPrimary[u] = <<>>
       /\ status[u] \in {"up", "dead"} => primary.workerHosts[u] \in SUBSET Keys
       /\ \A k \in Keys : primary.hostToWorker[k] = u =>
            status[u] \in {"up", "dead"} /\ k \in primary.workerHosts[u]

\* A registration that is under way is followed by a later one, or still true, or
\* followed by its end.
RegsOK ==
  \A u \in Workers : status[u] = "up" =>
    \A i \in 1..Len(toPrimary[u]), s \in Sockets : toPrimary[u][i] = Reg(s) =>
      Renewed(u, hs[s].host, i) \/ Kept(u, hs[s].host, s, i)

\* So is what the primary lists; and the end will not be taken for a stale one.
EntriesOK ==
  \A u \in Workers, h \in Hosts : status[u] = "up" /\ primary.hostToWorker[h] = u =>
    \/ Renewed(u, h, 0)
    \/ \E s \in Sockets : Kept(u, h, s, 0) /\ primary.sockets[h] \in {None, s}

RInv == SpokenOK /\ HeldOK /\ RegsOK /\ EntriesOK

LEMMA OwnHost ==
  ASSUME CInv, OwnHosts, NEW s \in Sockets, phase[s] # "new"
  PROVE  /\ hs[s].host \in Hosts /\ hs[s].host \in Keys
         /\ \A k \in Hosts : k \in AliasesOf(s) <=> k = hs[s].host
<1>1. hs[s] \in Handshakes /\ (granted[s] = {} \/ granted[s] = Asked(s))
  BY DEF CInv, SocketsOK
<1>2. \A k \in Hosts : k \in Aliases(hs[s], resolveRequestedNames(hs[s])) => k = hs[s].host
  BY <1>1 DEF OwnHosts
<1>3. AliasesOf(s) \subseteq Aliases(hs[s], resolveRequestedNames(hs[s]))
  BY <1>1 DEF AliasesOf, Aliases, Asked
<1>4. hs[s].host \in AliasesOf(s)
  BY DEF AliasesOf, Aliases
<1> QED BY <1>1, <1>2, <1>3, <1>4, HandshakeParts

LEMMA OwnHostNext ==
  ASSUME CInv', OwnHosts, NEW s \in Sockets, phase'[s] # "new"
  PROVE  /\ hs'[s].host \in Hosts /\ hs'[s].host \in Keys
         /\ \A k \in Hosts : k \in AliasesOf(s)' <=> k = hs'[s].host
<1>1. hs'[s] \in Handshakes /\ (granted'[s] = {} \/ granted'[s] = resolveRequestedNames(hs'[s]))
  BY DEF CInv, SocketsOK, Asked
<1>2. \A k \in Hosts : k \in Aliases(hs'[s], resolveRequestedNames(hs'[s])) => k = hs'[s].host
  BY <1>1 DEF OwnHosts
<1>3. AliasesOf(s)' \subseteq Aliases(hs'[s], resolveRequestedNames(hs'[s]))
  BY <1>1 DEF AliasesOf, Aliases
<1>4. hs'[s].host \in AliasesOf(s)'
  BY DEF AliasesOf, Aliases
<1> QED BY <1>1, <1>2, <1>3, <1>4, HandshakeParts

\* What a step of worker w leaves of a registration, or of a route, after a place of
\* the queue of u.
LEMMA RoutingLeaves ==
  ASSUME CInv, CInv', RInv, OwnHosts, NEW w \in Workers, NEW msgs, Routing(w, msgs),
         NEW u \in Workers, NEW i \in 0..Len(toPrimary[u]), NEW h \in Hosts
  PROVE  /\ Renewed(u, h, i) => Renewed(u, h, i)'
         /\ \A s \in Sockets : Kept(u, h, s, i) => Renewed(u, h, i)' \/ Kept(u, h, s, i)'
<1>1. /\ toPrimary \in [Workers -> Seq(Messages)] /\ msgs \in Seq(Messages)
      /\ toPrimary' = [toPrimary EXCEPT ![w] = @ \o msgs]
  BY DEF CInv, TalksOK, Routing, Sent
<1>2. \A m : Later(toPrimary[u], i, m) => Later(toPrimary'[u], i, m)
  <2>1. CASE u = w
    BY <1>1, <2>1, LaterConcat
  <2>2. CASE u # w
    BY <1>1, <2>2
  <2> QED BY <2>1, <2>2
<1>3. ASSUME NEW s \in Sockets, Reg(s) \in ToSet(toPrimary[u]) \/ Unreg(s) \in ToSet(toPrimary[u])
      PROVE  hs'[s] = hs[s]
  BY <1>3 DEF RInv, SpokenOK, Routing
<1>4. /\ \A s : Reg(s)' = Reg(s) /\ Unreg(s)' = Unreg(s)
      /\ \A m : Later(toPrimary[u], i, m) => m \in ToSet(toPrimary[u])
  BY <1>1, LaterMember DEF Reg, Unreg
<1>5. Renewed(u, h, i) => Renewed(u, h, i)'
  BY <1>2, <1>3, <1>4 DEF Renewed
<1>6. ASSUME NEW s \in Sockets, Kept(u, h, s, i), tab'[u].routes[h] = tab[u].routes[h]
      PROVE  Kept(u, h, s, i)'
  BY <1>2, <1>3, <1>4, <1>6 DEF Kept
<1>7. ASSUME NEW s \in Sockets, Kept(u, h, s, i), tab'[u].routes[h] # tab[u].routes[h]
      PROVE  Renewed(u, h, i)' \/ Kept(u, h, s, i)'
  <2>1. u = w /\ h \in Keys /\ Rerouted(w, msgs, h)
    BY <1>7, TunnelTablesAssumption DEF Routing
  <2>2. \A m \in ToSet(msgs) : Later(toPrimary'[u], i, m)
    BY <1>1, <2>1, LaterConcat
  <2> DEFINE e == tab[w].routes[h]
             f == tab'[w].routes[h]
  <2>3. CASE e # None /\ f = None /\ Unreg(e) \in ToSet(msgs)
    <3>1. s = e /\ phase[s] = "open" /\ h \in AliasesOf(s)
      BY <1>7, <2>1, <2>3 DEF Kept, CInv, RoutesOK, AliasesOf
    <3>2. hs'[s] = hs[s] /\ hs[s].host = h
      BY <3>1, OwnHost DEF Routing
    <3> QED BY <1>4, <2>1, <2>2, <2>3, <3>1, <3>2 DEF Kept
  <2>4. CASE /\ f \in Sockets /\ h \in Aliases(hs'[f], granted'[f])
             /\ Len(msgs) > 0 /\ msgs[Len(msgs)] = Reg(f)
    <3>1. PICK r \in Sockets : h \in Aliases(hs'[r], granted'[r]) /\ msgs[Len(msgs)] = Reg(r)
      BY <2>4
    <3>2. Reg(r) \in ToSet(msgs)
      <4>1. Len(msgs) \in 1..Len(msgs)
        BY <1>1, <2>4, LenProperties
      <4> QED BY <1>1, <3>1, <4>1, SetOf
    <3>3. phase'[r] = "open"
      BY <3>2 DEF Routing
    <3>4. hs'[r].host = h
      BY <3>1, <3>3, OwnHostNext DEF AliasesOf
    <3> QED BY <1>4, <2>2, <3>2, <3>4 DEF Renewed
  <2> QED BY <1>7, <2>1, <2>3, <2>4 DEF Rerouted
<1> QED BY <1>5, <1>6, <1>7

LEMMA RoutingKeeps ==
  ASSUME CInv, CInv', RInv, OwnHosts, NEW w \in Workers, NEW msgs, Routing(w, msgs)
  PROVE  RInv'
<1>1. /\ toPrimary \in [Workers -> Seq(Messages)] /\ msgs \in Seq(Messages)
      /\ toPrimary' = [toPrimary EXCEPT ![w] = @ \o msgs]
      /\ status[w] = "up" /\ status' = status /\ primary' = primary
  BY DEF CInv, TalksOK, Routing, Sent
<1> DEFINE q == toPrimary[w]
<1>2. /\ \A u \in Workers : toPrimary'[u] = IF u = w THEN q \o msgs ELSE toPrimary[u]
      /\ q \in Seq(Messages) /\ Len(q) \in Nat /\ Len(msgs) \in Nat
      /\ ToSet(q \o msgs) = ToSet(q) \cup ToSet(msgs) /\ Len(q \o msgs) = Len(q) + Len(msgs)
      /\ \A i \in 1..Len(q \o msgs) :
           \/ i \in 1..Len(q) /\ (q \o msgs)[i] = q[i]
           \/ \E j \in 1..Len(msgs) : i = Len(q) + j /\ (q \o msgs)[i] = msgs[j]
      /\ \A j \in 1..Len(msgs) : Len(q) + j \in 1..Len(q \o msgs) /\ (q \o msgs)[Len(q) + j] = msgs[j]
  <2>1. \A u \in Workers : toPrimary'[u] = IF u = w THEN q \o msgs ELSE toPrimary[u]
    BY <1>1
  <2>2. q \in Seq(Messages)
    BY <1>1
  <2> HIDE DEF q
  <2>3. Len(q) \in Nat /\ Len(msgs) \in Nat
    BY <1>1, <2>2, LenProperties
  <2> QED BY <1>1, <2>1, <2>2, <2>3, SetOfConcat, AtConcat
<1>3. \A s : Reg(s)' = Reg(s) /\ Unreg(s)' = Unreg(s)
  BY DEF Reg, Unreg
<1>4. SpokenOK'
  <2> SUFFICES ASSUME NEW u \in Workers, NEW s \in Sockets,
                      {Reg(s), Unreg(s)} \cap ToSet(toPrimary'[u]) # {}
               PROVE  /\ phase'[s] \in {"open", "gone"} /\ at'[s] = u
                      /\ Unreg(s) \in ToSet(toPrimary'[u]) => phase'[s] = "gone"
    BY <1>3 DEF SpokenOK
  <2>1. /\ {Reg(s), Unreg(s)} \cap ToSet(toPrimary[u]) # {} =>
             phase[s] \in {"open", "gone"} /\ at[s] = u
               /\ (Unreg(s) \in ToSet(toPrimary[u]) => phase[s] = "gone")
        /\ \A m : m \in ToSet(toPrimary'[u]) => m \in ToSet(toPrimary[u]) \/ (u = w /\ m \in ToSet(msgs))
    BY <1>2 DEF RInv, SpokenOK
  <2>2. /\ phase[s] # "new" => hs'[s] = hs[s] /\ at'[s] = at[s]
        /\ phase[s] \in {"open", "gone"} => phase'[s] \in {phase[s], "gone"}
        /\ Reg(s) \in ToSet(msgs) => at'[s] = w /\ phase'[s] = "open" /\ phase[s] # "open"
        /\ Unreg(s) \in ToSet(msgs) => at[s] = w /\ phase[s] = "open" /\ phase'[s] = "gone"
    BY DEF Routing
  <2>3. CASE {Reg(s), Unreg(s)} \cap ToSet(toPrimary[u]) # {}
    BY <2>1, <2>2, <2>3
  <2>4. CASE {Reg(s), Unreg(s)} \cap ToSet(toPrimary[u]) = {}
    BY <2>1, <2>2, <2>4
  <2> QED BY <2>3, <2>4
<1>5. HeldOK'
  <2>1. \A u \in Workers : status'[u] \in {"unborn", "exited"} => toPrimary'[u] = <<>>
    BY <1>1, <1>2 DEF RInv, HeldOK
  <2> QED BY <1>1, <2>1 DEF RInv, HeldOK
<1>6. ASSUME NEW u \in Workers, status'[u] = "up", NEW i \in 1..Len(toPrimary'[u]),
             NEW s \in Sockets, toPrimary'[u][i] = Reg(s)
      PROVE  Renewed(u, hs[s].host, i)' \/ Kept(u, hs[s].host, s, i)'
  <2>1. PICK h : h = hs'[s].host
    OBVIOUS
  <2>2. SUFFICES Renewed(u, h, i)' \/ Kept(u, h, s, i)'
    BY <2>1 DEF Renewed, Kept
  <2>3. CASE i \in 1..Len(toPrimary[u]) /\ toPrimary[u][i] = Reg(s)
    <3>1. Renewed(u, hs[s].host, i) \/ Kept(u, hs[s].host, s, i)
      BY <1>1, <1>6, <2>3 DEF RInv, RegsOK
    <3>2. Reg(s) \in ToSet(toPrimary[u]) /\ i \in 0..Len(toPrimary[u])
      <4> DEFINE p == toPrimary[u]
      <4>1. p \in Seq(Messages)
        BY <1>1
      <4> HIDE DEF p
      <4>2. i \in 1..Len(p) => p[i] \in ToSet(p) /\ i \in 0..Len(p)
        BY <4>1, SetOf
      <4> QED BY <2>3, <4>2 DEF p
    <3>3. phase[s] # "new"
      BY <3>2 DEF RInv, SpokenOK
    <3>4. h \in Hosts /\ h = hs[s].host
      BY <2>1, <3>3, OwnHost DEF Routing
    <3> QED BY <3>1, <3>2, <3>4, RoutingLeaves
  <2>4. CASE u = w /\ \E j \in 1..Len(msgs) : i = Len(q) + j /\ msgs[j] = Reg(s)
    <3>1. PICK j \in 1..Len(msgs) : i = Len(q) + j /\ msgs[j] = Reg(s)
      BY <2>4
    <3>2. Reg(s) \in ToSet(msgs)
      BY <1>1, <3>1, SetOf
    <3>3. phase'[s] = "open" /\ at'[s] = w
      BY <3>2 DEF Routing
    <3>4. h \in Keys /\ h \in Hosts /\ h \in Aliases(hs'[s], granted'[s])
      BY <2>1, <3>3, OwnHostNext DEF AliasesOf
    <3>5. PICK r \in Sockets : /\ r = tab'[w].routes[h] /\ h \in Aliases(hs'[r], granted'[r])
                               /\ msgs[Len(msgs)] = Reg(r)
      <4>1. Rerouted(w, msgs, h) /\ ~Unmentioned(msgs, h)
        BY <3>2, <3>4 DEF Routing, Unmentioned
      <4> QED BY <4>1 DEF Rerouted
    <3>6. CASE j = Len(msgs)
      <4>1. r = s
        BY <3>1, <3>5, <3>6 DEF Reg, Message
      <4> QED BY <2>4, <3>5, <4>1 DEF Kept
    <3>7. CASE j # Len(msgs)
      <4>1. /\ Len(msgs) \in 1..Len(msgs) /\ Len(q) + Len(msgs) \in (i + 1)..Len(q \o msgs)
            /\ (q \o msgs)[Len(q) + Len(msgs)] = Reg(r)
        <5>1. Len(msgs) \in 1..Len(msgs) /\ j < Len(msgs)
          BY <1>2, <3>1, <3>7
        <5> HIDE DEF q
        <5> QED BY <1>2, <3>1, <3>5, <5>1
      <4>2. Later(q \o msgs, i, Reg(r))
        BY <4>1 DEF Later
      <4>3. Reg(r) \in ToSet(msgs)
        BY <1>1, <3>5, <4>1, SetOf
      <4>4. hs'[r].host = h
        <5>1. phase'[r] = "open"
          BY <4>3 DEF Routing
        <5> QED BY <3>4, <3>5, <5>1, OwnHostNext DEF AliasesOf
      <4> QED BY <1>2, <1>3, <2>4, <4>2, <4>4 DEF Renewed
    <3> QED BY <3>6, <3>7
  <2>5. CASE u = w
    <3>1. i \in 1..Len(q \o msgs) /\ (q \o msgs)[i] = Reg(s)
      BY <1>2, <1>3, <1>6, <2>5
    <3> QED BY <1>2, <2>3, <2>4, <2>5, <3>1
  <2> QED BY <1>2, <1>3, <1>6, <2>3, <2>5
<1>7. RegsOK'
  BY <1>3, <1>6 DEF RegsOK
<1>8. EntriesOK'
  <2> SUFFICES ASSUME NEW u \in Workers, NEW h \in Hosts,
                      status'[u] = "up", primary'.hostToWorker[h] = u
               PROVE  \/ Renewed(u, h, 0)'
                      \/ \E s \in Sockets : Kept(u, h, s, 0)' /\ primary'.sockets[h] \in {None, s}
    BY DEF EntriesOK
  <2>1. \/ Renewed(u, h, 0)
        \/ \E s \in Sockets : Kept(u, h, s, 0) /\ primary.sockets[h] \in {None, s}
    BY <1>1 DEF RInv, EntriesOK
  <2>2. 0 \in 0..Len(toPrimary[u])
    <3>1. toPrimary[u] \in Seq(Messages)
      BY <1>1
    <3>2. Len(toPrimary[u]) \in Nat
      BY <3>1, LenProperties
    <3> QED BY <3>2
  <2>3. /\ Renewed(u, h, 0) => Renewed(u, h, 0)'
        /\ \A s \in Sockets : Kept(u, h, s, 0) => Renewed(u, h, 0)' \/ Kept(u, h, s, 0)'
    BY <2>2, RoutingLeaves
  <2> QED BY <1>1, <2>1, <2>3
<1> QED BY <1>4, <1>5, <1>7, <1>8 DEF RInv

\* The primary takes the next message of worker w: what is left of the promises.
Taken(w) ==
  /\ UNCHANGED <<hs, phase, granted, at, tab, status>>
  /\ toPrimary[w] # <<>> /\ toPrimary' = [toPrimary EXCEPT ![w] = Tail(@)]

LEMMA TakenParts ==
  ASSUME CInv, RInv, NEW w \in Workers, Taken(w)
  PROVE  LET q == toPrimary[w] IN
         /\ q \in Seq(Messages) /\ Tail(q) \in Seq(Messages) /\ ToSet(Tail(q)) \subseteq ToSet(q)
         /\ Head(q) \in Messages /\ Head(q) \in ToSet(q)
         /\ \A u \in Workers : toPrimary'[u] = IF u = w THEN Tail(q) ELSE toPrimary[u]
         /\ Len(q) = Len(Tail(q)) + 1 /\ Len(Tail(q)) \in Nat
         /\ \A i \in 1..Len(Tail(q)) : i + 1 \in 1..Len(q) /\ Tail(q)[i] = q[i + 1]
         /\ \A i \in Nat : \A m : Later(q, i + 1, m) => Later(Tail(q), i, m)
         /\ \A m : Later(q, 0, m) => Head(q) = m \/ Later(Tail(q), 0, m)
         /\ 1 \in 1..Len(q) /\ q[1] = Head(q)
<1> DEFINE q == toPrimary[w]
<1>1. q \in Seq(Messages) /\ q # <<>> /\ toPrimary \in [Workers -> Seq(Messages)]
  BY DEF CInv, TalksOK, Taken
<1>2. \A u \in Workers : toPrimary'[u] = IF u = w THEN Tail(q) ELSE toPrimary[u]
  BY <1>1 DEF Taken
<1> HIDE DEF q
<1>3. Tail(q) \in Seq(Messages) /\ ToSet(Tail(q)) \subseteq ToSet(q)
      /\ Head(q) \in Messages /\ Head(q) \in ToSet(q)
  BY <1>1, TailParts
<1> QED BY <1>1, <1>2, <1>3, LaterTail DEF q

LEMMA TakenLeaves ==
  ASSUME CInv, RInv, NEW w \in Workers, Taken(w), NEW u \in Workers, NEW h \in Hosts
  PROVE  LET m == Head(toPrimary[w]) IN
         /\ Renewed(u, h, 0) =>
              \/ Renewed(u, h, 0)'
              \/ u = w /\ \E t \in Sockets : hs[t].host = h /\ m = Reg(t)
         /\ \A s \in Sockets : Kept(u, h, s, 0) =>
              \/ Kept(u, h, s, 0)'
              \/ u = w /\ hs[s].host = h /\ m = Unreg(s)
         /\ \A s \in Sockets, i \in Nat : u = w =>
              /\ Renewed(u, h, i + 1) => Renewed(u, h, i)'
              /\ Kept(u, h, s, i + 1) => Kept(u, h, s, i)'
<1>1. /\ \A v \in Workers : toPrimary'[v] = IF v = w THEN Tail(toPrimary[w]) ELSE toPrimary[v]
      /\ \A i \in Nat : \A m : Later(toPrimary[w], i + 1, m) => Later(Tail(toPrimary[w]), i, m)
      /\ \A m : Later(toPrimary[w], 0, m) =>
           Head(toPrimary[w]) = m \/ Later(Tail(toPrimary[w]), 0, m)
  BY TakenParts
<1>2. /\ \A s : Reg(s)' = Reg(s) /\ Unreg(s)' = Unreg(s)
      /\ hs' = hs /\ tab' = tab
  BY DEF Reg, Unreg, Taken
<1>3. Renewed(u, h, 0) => \/ Renewed(u, h, 0)'
                          \/ u = w /\ \E t \in Sockets : hs[t].host = h /\ Head(toPrimary[w]) = Reg(t)
  BY <1>1, <1>2 DEF Renewed
<1>4. \A s \in Sockets : Kept(u, h, s, 0) =>
        Kept(u, h, s, 0)' \/ (u = w /\ hs[s].host = h /\ Head(toPrimary[w]) = Unreg(s))
  BY <1>1, <1>2 DEF Kept
<1>5. ASSUME NEW s \in Sockets, NEW i \in Nat, u = w
      PROVE  /\ Renewed(u, h, i + 1) => Renewed(u, h, i)'
             /\ Kept(u, h, s, i + 1) => Kept(u, h, s, i)'
  BY <1>1, <1>2, <1>5 DEF Renewed, Kept
<1> QED BY <1>3, <1>4, <1>5

LEMMA TakenKeeps ==
  ASSUME CInv, RInv, NEW w \in Workers, Taken(w)
  PROVE  /\ SpokenOK' /\ RegsOK'
         /\ \A u \in Workers : status'[u] \in {"unborn", "exited"} => toPrimary'[u] = <<>>
         /\ status[w] \in {"up", "dead"}
         /\ \A s \in Sockets : Head(toPrimary[w]) = Reg(s) => phase[s] # "new" /\
              (status[w] = "up" => Renewed(w, hs[s].host, 0)' \/ Kept(w, hs[s].host, s, 0)')
         /\ \A s \in Sockets : Head(toPrimary[w]) = Unreg(s) => phase[s] # "new"
<1> DEFINE q == toPrimary[w]
<1>1. /\ q \in Seq(Messages) /\ Tail(q) \in Seq(Messages) /\ ToSet(Tail(q)) \subseteq ToSet(q)
      /\ Head(q) \in Messages /\ Head(q) \in ToSet(q)
      /\ \A u \in Workers : toPrimary'[u] = IF u = w THEN Tail(q) ELSE toPrimary[u]
      /\ Len(q) = Len(Tail(q)) + 1 /\ Len(Tail(q)) \in Nat
      /\ \A i \in 1..Len(Tail(q)) : i + 1 \in 1..Len(q) /\ Tail(q)[i] = q[i + 1]
      /\ 1 \in 1..Len(q) /\ q[1] = Head(q)
  BY TakenParts
<1>2. /\ \A s : Reg(s)' = Reg(s) /\ Unreg(s)' = Unreg(s)
      /\ UNCHANGED <<hs, phase, granted, at, tab, status>>
  BY DEF Reg, Unreg, Taken
<1>3. SpokenOK'
  <2>1. \A u \in Workers : ToSet(toPrimary'[u]) \subseteq ToSet(toPrimary[u])
    BY <1>1
  <2> QED BY <1>2, <2>1 DEF RInv, SpokenOK
<1>4. status[w] \in {"up", "dead"}
  BY DEF RInv, HeldOK, CInv, SocketsOK, Taken
<1>5. \A u \in Workers : status'[u] \in {"unborn", "exited"} => toPrimary'[u] = <<>>
  BY <1>1, <1>2, <1>4 DEF RInv, HeldOK
<1>6. \A s \in Sockets : Reg(s) \in ToSet(q) \/ Unreg(s) \in ToSet(q) => phase[s] # "new"
  BY DEF RInv, SpokenOK
<1> HIDE DEF q
<1>7. ASSUME NEW u \in Workers, status[u] = "up", NEW i \in 1..Len(toPrimary'[u]),
             NEW s \in Sockets, toPrimary'[u][i] = Reg(s)
      PROVE  Renewed(u, hs[s].host, i)' \/ Kept(u, hs[s].host, s, i)'
  <2>1. CASE u = w
    <3>1. i \in Nat /\ i + 1 \in 1..Len(q) /\ q[i + 1] = Reg(s)
      <4>1. i \in 1..Len(Tail(q)) /\ Tail(q)[i] = Reg(s)
        BY <1>1, <1>2, <1>7, <2>1
      <4>2. i + 1 \in 1..Len(q) /\ q[i + 1] = Reg(s)
        BY <1>1, <4>1
      <4> QED BY <1>1, <4>1, <4>2
    <3>2. Renewed(w, hs[s].host, i + 1) \/ Kept(w, hs[s].host, s, i + 1)
      BY <1>7, <2>1, <3>1 DEF q, RInv, RegsOK
    <3>3. Reg(s) \in ToSet(q)
      BY <1>1, <3>1, SetOf
    <3>4. hs[s].host \in Hosts
      <4>1. phase[s] # "new"
        BY <1>6, <3>3
      <4> QED BY <4>1, HandshakeParts DEF CInv, SocketsOK
    <3>5. PICK h \in Hosts : h = hs[s].host
      BY <3>4
    <3>6. Renewed(w, h, i)' \/ Kept(w, h, s, i)'
      BY <3>1, <3>2, <3>5, TakenLeaves
    <3> QED BY <1>2, <2>1, <3>5, <3>6 DEF Renewed, Kept
  <2>2. CASE u # w
    <3>1. toPrimary'[u] = toPrimary[u]
      BY <1>1, <2>2
    <3>2. Renewed(u, hs[s].host, i) \/ Kept(u, hs[s].host, s, i)
      BY <1>7, <3>1 DEF RInv, RegsOK
    <3> QED BY <1>2, <3>1, <3>2 DEF Renewed, Kept
  <2> QED BY <2>1, <2>2
<1>8. RegsOK'
  BY <1>2, <1>7 DEF RegsOK
<1>9. ASSUME NEW s \in Sockets, Head(q) = Reg(s), status[w] = "up"
      PROVE  Renewed(w, hs[s].host, 0)' \/ Kept(w, hs[s].host, s, 0)'
  <2>1. Renewed(w, hs[s].host, 0 + 1) \/ Kept(w, hs[s].host, s, 0 + 1)
    BY <1>1, <1>9 DEF q, RInv, RegsOK
  <2>2. hs[s].host \in Hosts
    <3>1. phase[s] # "new"
      BY <1>1, <1>6, <1>9
    <3> QED BY <3>1, HandshakeParts DEF CInv, SocketsOK
  <2>3. PICK h \in Hosts : h = hs[s].host
    BY <2>2
  <2>4. Renewed(w, h, 0)' \/ Kept(w, h, s, 0)'
    BY <2>1, <2>3, TakenLeaves
  <2> QED BY <1>2, <2>3, <2>4 DEF Renewed, Kept
<1> QED BY <1>1, <1>3, <1>4, <1>5, <1>6, <1>8, <1>9 DEF q

\* The tables p list no host that the primary's do not, and the same keys elsewhere.
Fades(p) ==
  /\ p.hostToWorker \in [Keys -> Workers \cup {None}]
  /\ p.workerHosts = [u \in Workers |-> p.workerHosts[u]]
  /\ \A k \in Keys : /\ p.hostToWorker[k] \in {primary.hostToWorker[k], None}
                     /\ p.sockets[k] \in {primary.sockets[k], None}
  /\ \A u \in Workers : primary.workerHosts[u] \in SUBSET Keys =>
       /\ p.workerHosts[u] \in SUBSET Keys
       /\ \A k \in primary.workerHosts[u] : p.hostToWorker[k] = u => k \in p.workerHosts[u]

LEMMA FadingKeeps ==
  ASSUME CInv, RInv, NEW w \in Workers, Taken(w), NEW p, primary' = p, Fades(p),
         \A s \in Sockets : Head(toPrimary[w]) # Reg(s),
         \A s \in Sockets : Head(toPrimary[w]) = Unreg(s) =>
           p.hostToWorker[hs[s].host] # w \/ primary.sockets[hs[s].host] \notin {None, s}
  PROVE  RInv'
<1>1. /\ SpokenOK' /\ RegsOK' /\ status' = status
      /\ \A u \in Workers : status'[u] \in {"unborn", "exited"} => toPrimary'[u] = <<>>
  BY TakenKeeps DEF Taken
<1>2. HeldOK'
  <2>1. HeldOK /\ None \notin Workers
    BY ClusterAssumption DEF RInv
  <2>2. \A u \in Workers : status[u] \in {"up", "dead"} => p.workerHosts[u] \in SUBSET Keys
    BY <2>1 DEF HeldOK, Fades
  <2>3. \A u \in Workers, k \in Keys : p.hostToWorker[k] = u =>
          status[u] \in {"up", "dead"} /\ k \in p.workerHosts[u]
    BY <2>1 DEF HeldOK, Fades
  <2> QED BY <1>1, <2>2, <2>3 DEF HeldOK, Fades
<1>3. ASSUME NEW u \in Workers, NEW h \in Hosts, status[u] = "up", p.hostToWorker[h] = u
      PROVE  \/ Renewed(u, h, 0)'
             \/ \E s \in Sockets : Kept(u, h, s, 0)' /\ p.sockets[h] \in {None, s}
  <2>1. h \in Keys
    BY TunnelTablesAssumption
  <2>2. /\ primary.hostToWorker[h] = u
        /\ p.sockets[h] \in {primary.sockets[h], None}
    BY <1>3, <2>1, ClusterAssumption DEF Fades
  <2>3. \/ Renewed(u, h, 0)
        \/ \E s \in Sockets : Kept(u, h, s, 0) /\ primary.sockets[h] \in {None, s}
    BY <1>3, <2>2 DEF RInv, EntriesOK
  <2>4. CASE Renewed(u, h, 0)
    BY <2>4, TakenLeaves
  <2>5. ASSUME NEW s \in Sockets, Kept(u, h, s, 0), primary.sockets[h] \in {None, s}
        PROVE  Kept(u, h, s, 0)' /\ p.sockets[h] \in {None, s}
    <3>1. \/ Kept(u, h, s, 0)'
          \/ u = w /\ hs[s].host = h /\ Head(toPrimary[w]) = Unreg(s)
      BY <2>5, TakenLeaves
    <3> QED BY <1>3, <2>2, <2>5, <3>1
  <2> QED BY <2>3, <2>4, <2>5
<1>4. EntriesOK'
  BY <1>1, <1>3 DEF EntriesOK
<1> QED BY <1>1, <1>2, <1>4 DEF RInv

\* Tables that list the same hosts at the same workers.
LEMMA SameFades ==
  ASSUME RInv, NEW p, p.hostToWorker = primary.hostToWorker, p.workerHosts = primary.workerHosts,
         \A k \in Keys : p.sockets[k] \in {primary.sockets[k], None}
  PROVE  Fades(p)
BY DEF RInv, HeldOK, Fades

LEMMA UnregisterFades ==
  ASSUME CInv, RInv, NEW w \in Workers, NEW k \in Keys, NEW A, NEW s
  PROVE  /\ Fades(Unregister(primary, w, k, A, s))
         /\ IsCurrentSocket(primary, k, s) =>
              Unregister(primary, w, k, A, s).hostToWorker[k] # w
<1> DEFINE p == Unregister(primary, w, k, A, s)
           H == primary.workerHosts
           F == primary.sockets
<1>1. CASE IsCurrentSocket(primary, k, s)
  <2>1. DOMAIN primary = Fields /\ F = [j \in Keys |-> F[j]]
    BY DEF CInv, Shape
  <2>2. /\ p.hostToWorker = [j \in Keys |->
              IF j \in A \cup {k} /\ primary.hostToWorker[j] = w THEN None ELSE primary.hostToWorker[j]]
        /\ p.workerHosts = [H EXCEPT ![w] = IF @ = None THEN None ELSE @ \ (A \cup {k})]
        /\ p.sockets = [F EXCEPT ![k] = None]
    BY <1>1, <2>1 DEF Fields, Unregister, Unnoted
  <2>3. /\ H = [u \in Workers |-> H[u]] /\ None \notin Workers
        /\ primary.hostToWorker \in [Keys -> Workers \cup {None}]
    BY ClusterAssumption DEF RInv, HeldOK
  <2> HIDE DEF p, H, F
  <2>4. /\ p.workerHosts = [u \in Workers |-> p.workerHosts[u]]
        /\ \A u \in Workers : p.workerHosts[u] =
             IF u # w THEN H[u] ELSE IF H[w] = None THEN None ELSE H[w] \ (A \cup {k})
    BY <2>2, <2>3
  <2>5. \A j \in Keys : /\ p.hostToWorker[j] \in {primary.hostToWorker[j], None}
                        /\ p.sockets[j] \in {F[j], None}
                        /\ j \in A \cup {k} => p.hostToWorker[j] # w
    BY <2>1, <2>2, <2>3
  <2>6. p.hostToWorker \in [Keys -> Workers \cup {None}]
    BY <2>2, <2>3
  <2>7. ASSUME NEW u \in Workers, H[u] \in SUBSET Keys
        PROVE  /\ p.workerHosts[u] \in SUBSET Keys
               /\ \A j \in H[u] : p.hostToWorker[j] = u => j \in p.workerHosts[u]
    <3>1. p.workerHosts[u] = IF u # w THEN H[u] ELSE H[w] \ (A \cup {k})
      <4>1. None \notin SUBSET Keys
        BY ClusterAssumption
      <4> QED BY <2>4, <2>7, <4>1
    <3> QED BY <2>5, <2>7, <3>1
  <2>8. Fades(p)
    BY <2>4, <2>5, <2>6, <2>7 DEF Fades, H, F
  <2> QED BY <2>5, <2>8 DEF p
<1>2. CASE ~IsCurrentSocket(primary, k, s)
  <2>1. p = primary
    BY <1>2 DEF Unregister
  <2> HIDE DEF p
  <2>2. Fades(p)
    BY <2>1, SameFades
  <2> QED BY <1>2, <2>2 DEF p
<1> QED BY <1>1, <1>2

LEMMA RegisterKeepsRoutes ==
  ASSUME CInv, RInv, OwnHosts, NEW w \in Workers, OnRegister(w)
  PROVE  RInv'
<1>0. PICK s : s = Arg(w)
  OBVIOUS
<1> DEFINE A == AliasesOf(s)
           p == Register(primary, w, s, hs[s], granted[s])
           H == primary.workerHosts
           F == primary.sockets
<1>1. Taken(w) /\ primary' = p /\ Head(toPrimary[w]).type = "REGISTER_HOST"
  BY <1>0 DEF OnRegister, Next1, Handled, Taken, socketVars, workerVars
<1>2. s \in Sockets /\ Head(toPrimary[w]) = Reg(s)
  BY <1>0, <1>1, NextMessage, MessageArgs DEF Arg, Reg, Taken
<1>3. /\ SpokenOK' /\ RegsOK' /\ status' = status
      /\ \A u \in Workers : status'[u] \in {"unborn", "exited"} => toPrimary'[u] = <<>>
      /\ status[w] \in {"up", "dead"} /\ phase[s] # "new"
      /\ status[w] = "up" => Renewed(w, hs[s].host, 0)' \/ Kept(w, hs[s].host, s, 0)'
  BY <1>1, <1>2, TakenKeeps DEF Taken
<1>4. DOMAIN primary = Fields /\ F = [j \in Keys |-> F[j]]
  BY DEF CInv, Shape
<1>5. /\ p.hostToWorker = [k \in Keys |-> IF k \in A THEN w ELSE primary.hostToWorker[k]]
      /\ p.workerHosts = [H EXCEPT ![w] = IF @ = None THEN None ELSE @ \cup A]
      /\ p.sockets = [F EXCEPT ![hs[s].host] = s]
  BY <1>4 DEF Fields, Register, Noted, AliasesOf
<1>6. /\ H = [u \in Workers |-> H[u]] /\ None \notin Workers /\ None \notin SUBSET Keys
      /\ primary.hostToWorker \in [Keys -> Workers \cup {None}]
      /\ \A u \in Workers :
           /\ status[u] \in {"up", "dead"} => H[u] \in SUBSET Keys
           /\ \A k \in Keys : primary.hostToWorker[k] = u =>
                status[u] \in {"up", "dead"} /\ k \in H[u]
  BY ClusterAssumption DEF RInv, HeldOK
<1>7. /\ hs[s].host \in Hosts /\ hs[s].host \in Keys
      /\ \A k \in Hosts : k \in A <=> k = hs[s].host
  BY <1>2, <1>3, OwnHost
<1>8. hs'[s] = hs[s]
  BY <1>1 DEF Taken
<1> HIDE DEF A, p, H, F
<1>9. /\ p.workerHosts = [u \in Workers |-> p.workerHosts[u]]
      /\ \A u \in Workers : p.workerHosts[u] =
           IF u # w THEN H[u] ELSE IF H[w] = None THEN None ELSE H[w] \cup A
  BY <1>5, <1>6
<1>10. A \subseteq Keys
  <2>1. hs[s] \in Handshakes /\ granted[s] \subseteq Names
    BY <1>2, <1>3 DEF CInv, SocketsOK
  <2>2. hs[s].keys \subseteq Keys /\ hs[s].host \in Keys
    BY <2>1, ClusterAssumption, HandshakeParts DEF Handshake
  <2>3. \A n \in granted[s] : HostFor[n] \in Keys
    BY <2>1, TunnelTablesAssumption
  <2> QED BY <2>2, <2>3 DEF A, AliasesOf, Aliases
<1>11. HeldOK'
  <2>1. p.hostToWorker \in [Keys -> Workers \cup {None}]
    BY <1>5, <1>6
  <2>2. ASSUME NEW u \in Workers
        PROVE  /\ status[u] \in {"up", "dead"} => p.workerHosts[u] \in SUBSET Keys
               /\ \A k \in Keys : p.hostToWorker[k] = u =>
                    status[u] \in {"up", "dead"} /\ k \in p.workerHosts[u]
    <3>1. CASE u = w
      <4>1. H[w] \in SUBSET Keys /\ p.workerHosts[w] = H[w] \cup A
        BY <1>3, <1>6, <1>9
      <4> QED BY <1>3, <1>5, <1>6, <1>10, <3>1, <4>1
    <3>2. CASE u # w
      BY <1>5, <1>6, <1>9, <3>2
    <3> QED BY <3>1, <3>2
  <2> QED BY <1>1, <1>3, <1>9, <2>1, <2>2 DEF HeldOK
<1>12. ASSUME NEW u \in Workers, NEW h \in Hosts, status[u] = "up", p.hostToWorker[h] = u
       PROVE  \/ Renewed(u, h, 0)'
              \/ \E r \in Sockets : Kept(u, h, r, 0)' /\ p.sockets[h] \in {None, r}
  <2>1. h \in Keys
    BY TunnelTablesAssumption
  <2>2. CASE h = hs[s].host
    <3>1. u = w /\ p.sockets[h] = s
      BY <1>4, <1>5, <1>7, <1>12, <2>1, <2>2
    <3>2. Renewed(w, h, 0)' \/ Kept(w, h, s, 0)'
      BY <1>3, <1>8, <1>12, <2>2, <3>1 DEF Renewed, Kept
    <3> QED BY <1>2, <3>1, <3>2
  <2>3. CASE h # hs[s].host
    <3>1. primary.hostToWorker[h] = u /\ p.sockets[h] = F[h]
      BY <1>4, <1>5, <1>7, <1>12, <2>1, <2>3
    <3>2. \/ Renewed(u, h, 0)
          \/ \E r \in Sockets : Kept(u, h, r, 0) /\ F[h] \in {None, r}
      BY <1>12, <3>1 DEF RInv, EntriesOK, F
    <3>3. \A r : /\ Reg(r) = Reg(s) => r = s
                 /\ Unreg(r) # Reg(s)
      BY DEF Reg, Unreg, Message
    <3> QED BY <1>1, <1>2, <2>3, <3>1, <3>2, <3>3, TakenLeaves
  <2> QED BY <2>2, <2>3
<1>13. EntriesOK'
  BY <1>1, <1>3, <1>12 DEF EntriesOK
<1> QED BY <1>3, <1>11, <1>13 DEF RInv

LEMMA UnregisterKeepsRoutes ==
  ASSUME CInv, RInv, NEW w \in Workers, OnUnregister(w)
  PROVE  RInv'
<1> DEFINE s == Arg(w)
           p == Unregister(primary, w, hs[s].host, Aliases(hs[s], granted[s]), s)
           q == Unregister(primary, w, s, {}, None)
<1>1. /\ Taken(w)
      /\ \/ Head(toPrimary[w]).type = "UNREGISTER_HOST" /\ primary' = p
         \/ Head(toPrimary[w]).type = "UNREGISTER_BARE" /\ primary' = q
  BY DEF OnUnregister, Next1, Handled, Taken, socketVars, workerVars
<1>2. toPrimary[w] # <<>>
  BY <1>1 DEF Taken
<1>3. CASE Head(toPrimary[w]).type = "UNREGISTER_HOST" /\ primary' = p
  <2>1. s \in Sockets /\ Head(toPrimary[w]) = Unreg(s)
    BY <1>2, <1>3, NextMessage, MessageArgs DEF Arg, Unreg
  <2>2. phase[s] # "new"
    BY <1>1, <2>1, TakenKeeps
  <2>3. hs[s].host \in Keys
    BY <2>1, <2>2, HandshakeParts DEF CInv, SocketsOK
  <2>4. /\ Fades(p)
        /\ primary.sockets[hs[s].host] \in {None, s} => p.hostToWorker[hs[s].host] # w
    BY <2>3, UnregisterFades DEF IsCurrentSocket
  <2>5. \A r : Reg(r) # Unreg(s) /\ (Unreg(r) = Unreg(s) => r = s)
    BY DEF Reg, Unreg, Message
  <2> HIDE DEF s, p
  <2> QED BY <1>1, <1>3, <2>1, <2>4, <2>5, FadingKeeps
<1>4. CASE Head(toPrimary[w]).type = "UNREGISTER_BARE" /\ primary' = q
  <2>1. s \in Keys
    BY <1>2, <1>4, NextMessage, MessageArgs DEF Arg
  <2>2. Fades(q)
    BY <2>1, UnregisterFades
  <2>3. \A r : Head(toPrimary[w]) # Reg(r) /\ Head(toPrimary[w]) # Unreg(r)
    BY <1>4 DEF Reg, Unreg, Message
  <2> HIDE DEF s, q
  <2> QED BY <1>1, <1>4, <2>2, <2>3, FadingKeeps
<1> QED BY <1>1, <1>3, <1>4

\* The messages that move no host.
LEMMA OthersKeepRoutes ==
  ASSUME CInv, RInv, NEW w \in Workers,
         OnClaim(w) \/ OnRelease(w) \/ OnForget(w) \/ OnDisconnect(w)
  PROVE  RInv'
<1>1. /\ Taken(w)
      /\ Head(toPrimary[w]).type \notin {"REGISTER_HOST", "UNREGISTER_HOST"}
      /\ \/ \E S, c, s : primary' = ClaimHosts(primary, w, S, c, s)
         \/ \E P : primary' = [primary EXCEPT !.claims = Purge(@, P)]
         \/ \E G, s : primary' = ReleaseHosts(primary, w, G, s)
         \/ \E k : primary' = ForgetHost(primary, k)
         \/ \E n : primary' = ForgetName(primary, n)
         \/ \E l : primary' = ForgetClientEntry(primary, l)
         \/ \E K : primary' = Forgotten(primary, K)
  <2>1. CASE OnClaim(w)
    BY <2>1 DEF OnClaim, Next1, Handled, Taken, socketVars, workerVars
  <2>2. CASE OnRelease(w)
    BY <2>2 DEF OnRelease, Next1, Handled, Taken, socketVars, workerVars
  <2>3. CASE OnForget(w)
    BY <2>3 DEF OnForget, Next1, Handled, Taken, socketVars, workerVars
  <2>4. CASE OnDisconnect(w)
    BY <2>4 DEF OnDisconnect, Next1, Handled, Taken, socketVars, workerVars
  <2> QED BY <2>1, <2>2, <2>3, <2>4
<1>2. DOMAIN primary = Fields /\ primary.sockets = [k \in Keys |-> primary.sockets[k]]
  BY DEF CInv, Shape
<1>3. /\ primary'.hostToWorker = primary.hostToWorker
      /\ primary'.workerHosts = primary.workerHosts
      /\ \A k \in Keys : primary'.sockets[k] \in {primary.sockets[k], None}
  <2>1. CASE \E S, c, s : primary' = ClaimHosts(primary, w, S, c, s)
    BY <1>2, <2>1 DEF Fields, ClaimHosts
  <2>2. CASE \E P : primary' = [primary EXCEPT !.claims = Purge(@, P)]
    BY <1>2, <2>2 DEF Fields
  <2>3. CASE \E G, s : primary' = ReleaseHosts(primary, w, G, s)
    BY <1>2, <2>3 DEF Fields, ReleaseHosts
  <2>4. CASE \E k : primary' = ForgetHost(primary, k)
    BY <1>2, <2>4 DEF Fields, ForgetHost
  <2>5. CASE \E n : primary' = ForgetName(primary, n)
    BY <1>2, <2>5 DEF Fields, ForgetName
  <2>6. CASE \E l : primary' = ForgetClientEntry(primary, l)
    BY <1>2, <2>6 DEF Fields, ForgetClientEntry
  <2>7. CASE \E K : primary' = Forgotten(primary, K)
    BY <1>2, <2>7 DEF Fields, Forgotten
  <2> QED BY <1>1, <2>1, <2>2, <2>3, <2>4, <2>5, <2>6, <2>7
<1>4. PICK p : p = primary'
  OBVIOUS
<1>5. Fades(p)
  BY <1>3, <1>4, SameFades
<1>6. \A s : Head(toPrimary[w]) # Reg(s) /\ Head(toPrimary[w]) # Unreg(s)
  BY <1>1 DEF Reg, Unreg, Message
<1> QED BY <1>1, <1>4, <1>5, <1>6, FadingKeeps

\* A step that leaves the sockets, routes and queues of the workers that are up alone.
LEMMA StillKeepsRoutes ==
  ASSUME RInv, SpokenOK', HeldOK', hs' = hs,
         \A u \in Workers : status'[u] = "up" =>
           \/ status[u] # "up" /\ toPrimary'[u] = <<>> /\ \A h \in Hosts : primary'.hostToWorker[h] # u
           \/ status[u] = "up" /\ tab'[u] = tab[u] /\ toPrimary'[u] = toPrimary[u],
         \A h \in Hosts : \/ primary'.hostToWorker[h] = None
                          \/ /\ primary'.hostToWorker[h] = primary.hostToWorker[h]
                             /\ primary'.sockets[h] \in {primary.sockets[h], None}
  PROVE  RInv'
<1>1. \A s : Reg(s)' = Reg(s) /\ Unreg(s)' = Unreg(s)
  BY DEF Reg, Unreg
<1>2. ASSUME NEW u \in Workers, status'[u] = "up", NEW i \in 1..Len(toPrimary'[u]),
             NEW s \in Sockets, toPrimary'[u][i] = Reg(s)
      PROVE  Renewed(u, hs[s].host, i)' \/ Kept(u, hs[s].host, s, i)'
  <2>1. toPrimary'[u] # <<>>
    BY <1>2, EmptySeq
  <2>2. status[u] = "up" /\ tab'[u] = tab[u] /\ toPrimary'[u] = toPrimary[u]
    BY <1>2, <2>1
  <2>3. Renewed(u, hs[s].host, i) \/ Kept(u, hs[s].host, s, i)
    BY <1>2, <2>2 DEF RInv, RegsOK
  <2> QED BY <1>1, <2>2, <2>3 DEF Renewed, Kept
<1>3. RegsOK'
  BY <1>1, <1>2 DEF RegsOK
<1>4. ASSUME NEW u \in Workers, NEW h \in Hosts, status'[u] = "up", primary'.hostToWorker[h] = u
      PROVE  \/ Renewed(u, h, 0)'
             \/ \E s \in Sockets : Kept(u, h, s, 0)' /\ primary'.sockets[h] \in {None, s}
  <2>1. /\ status[u] = "up" /\ tab'[u] = tab[u] /\ toPrimary'[u] = toPrimary[u]
        /\ primary.hostToWorker[h] = u /\ primary'.sockets[h] \in {primary.sockets[h], None}
    BY <1>4, ClusterAssumption
  <2>2. \/ Renewed(u, h, 0)
        \/ \E s \in Sockets : Kept(u, h, s, 0) /\ primary.sockets[h] \in {None, s}
    BY <2>1 DEF RInv, EntriesOK
  <2> QED BY <1>1, <2>1, <2>2 DEF Renewed, Kept
<1>5. EntriesOK'
  BY <1>4 DEF EntriesOK
<1> QED BY <1>3, <1>5 DEF RInv

LEMMA DiesKeepsRoutes ==
  ASSUME CInv, RInv, NEW w \in Workers, Dies(w)
  PROVE  RInv'
<1>1. toPrimary \in [Workers -> Seq(Messages)] /\ SocketsOK /\ tab = [v \in Workers |-> tab[v]]
  BY DEF CInv, TalksOK, RoutesOK
<1>2. PICK i \in 0..Len(toPrimary[w]) : toPrimary' = [toPrimary EXCEPT ![w] = SubSeq(@, 1, i)]
  BY DEF Dies
<1>3. /\ status[w] = "up"
      /\ \A u \in Workers : status'[u] = IF u = w THEN "dead" ELSE status[u]
      /\ \A u \in Workers \ {w} : tab'[u] = tab[u] /\ toPrimary'[u] = toPrimary[u]
      /\ \A s \in Sockets : phase'[s] = phase[s] \/ phase'[s] = "gone"
      /\ UNCHANGED <<hs, at, primary>>
  BY <1>1, <1>2 DEF Dies, SocketsOK
<1>4. \A u \in Workers : ToSet(toPrimary'[u]) \subseteq ToSet(toPrimary[u])
  <2> DEFINE p == SubSeq(toPrimary[w], 1, i)
  <2>1. ToSet(p) \subseteq ToSet(toPrimary[w])
    BY <1>1, CutParts
  <2>2. toPrimary'[w] = p
    BY <1>1, <1>2
  <2> QED BY <1>3, <2>1, <2>2
<1>5. SpokenOK'
  <2>1. \A s : Reg(s)' = Reg(s) /\ Unreg(s)' = Unreg(s)
    BY DEF Reg, Unreg
  <2> QED BY <1>3, <1>4, <2>1 DEF RInv, SpokenOK
<1>6. HeldOK'
  BY <1>3 DEF RInv, HeldOK
<1> QED BY <1>3, <1>5, <1>6, StillKeepsRoutes DEF RInv

LEMMA ExitKeepsRoutes ==
  ASSUME CInv, RInv, ~LateMessages, NEW w \in Workers, Exit(w)
  PROVE  RInv'
<1>1. PICK v \in Heirs : ExitTo(w, v)
  BY DEF Exit
<1> DEFINE H == primary.workerHosts
           K == Mine(primary, w)
<1>2. /\ v = None \/ (v \in Workers /\ status[v] = "unborn")
      /\ status[w] = "dead" /\ toPrimary[w] = <<>>
      /\ status' = [u \in Workers |->
                     IF u = w THEN "exited" ELSE IF u = v THEN "up" ELSE status[u]]
      /\ UNCHANGED <<phase, hs, at, tab, toPrimary>>
  BY <1>1 DEF ExitTo, Heirs, Having, socketVars
<1>3. /\ primary'.hostToWorker = [k \in Keys |-> IF k \in K THEN None ELSE primary.hostToWorker[k]]
      /\ primary'.sockets = [k \in Keys |-> IF k \in K THEN None ELSE primary.sockets[k]]
      /\ primary'.workerHosts =
           [u \in Workers |-> IF u = v THEN {} ELSE [H EXCEPT ![w] = None][u]]
  BY <1>1 DEF ExitTo, WorkerExited
<1>4. HeldOK /\ None \notin Workers /\ Hosts \subseteq Keys
      /\ status \in [Workers -> {"unborn", "up", "dead", "exited"}]
  BY ClusterAssumption, TunnelTablesAssumption DEF RInv, CInv, SocketsOK
<1>5. \A k \in Keys : primary.hostToWorker[k] = w => k \in K
  BY <1>4 DEF HeldOK, Mine
<1> HIDE DEF K
<1>6. SpokenOK'
  BY <1>2 DEF RInv, SpokenOK, Reg, Unreg
<1>7. ASSUME NEW u \in Workers
      PROVE  /\ status'[u] \in {"unborn", "exited"} => toPrimary'[u] = <<>>
             /\ status'[u] \in {"up", "dead"} => primary'.workerHosts[u] \in SUBSET Keys
             /\ \A k \in Keys : primary'.hostToWorker[k] = u =>
                  status'[u] \in {"up", "dead"} /\ k \in primary'.workerHosts[u]
  <2>1. /\ status[u] \in {"unborn", "exited"} => toPrimary[u] = <<>>
        /\ status[u] \in {"up", "dead"} => H[u] \in SUBSET Keys
        /\ \A k \in Keys : primary.hostToWorker[k] = u => status[u] \in {"up", "dead"} /\ k \in H[u]
    BY <1>4 DEF HeldOK
  <2>2. \A k \in Keys : primary'.hostToWorker[k] = u => primary.hostToWorker[k] = u /\ u # w
    BY <1>3, <1>4, <1>5
  <2>3. /\ status'[u] = IF u = w THEN "exited" ELSE IF u = v THEN "up" ELSE status[u]
        /\ u # w => primary'.workerHosts[u] = IF u = v THEN {} ELSE H[u]
    <3>1. H = [t \in Workers |-> H[t]]
      BY <1>4 DEF HeldOK
    <3> HIDE DEF H
    <3> QED BY <1>2, <1>3, <3>1
  <2> QED BY <1>2, <1>4, <2>1, <2>2, <2>3
<1>8. HeldOK'
  <2>1. primary'.hostToWorker \in [Keys -> Workers \cup {None}]
    BY <1>3, <1>4 DEF HeldOK
  <2>2. primary'.workerHosts = [u \in Workers |-> primary'.workerHosts[u]]
    BY <1>3
  <2> QED BY <1>7, <2>1, <2>2 DEF HeldOK
<1>9. ASSUME NEW u \in Workers, status'[u] = "up"
      PROVE  \/ status[u] # "up" /\ toPrimary'[u] = <<>> /\ \A h \in Hosts : primary'.hostToWorker[h] # u
             \/ status[u] = "up" /\ tab'[u] = tab[u] /\ toPrimary'[u] = toPrimary[u]
  <2>1. CASE u = v
    BY <1>2, <1>3, <1>4, <2>1 DEF HeldOK
  <2>2. CASE u # v
    BY <1>2, <1>9, <2>2
  <2> QED BY <2>1, <2>2
<1>10. \A h \in Hosts : \/ primary'.hostToWorker[h] = None
                        \/ /\ primary'.hostToWorker[h] = primary.hostToWorker[h]
                           /\ primary'.sockets[h] \in {primary.sockets[h], None}
  BY <1>3, <1>4
<1> QED BY <1>2, <1>6, <1>8, <1>9, <1>10, StillKeepsRoutes

LEMMA CalmKeepsRoutes ==
  ASSUME RInv, UNCHANGED <<phase, hs, at, tab, status, toPrimary>>,
         primary'.hostToWorker = primary.hostToWorker, primary'.sockets = primary.sockets,
         primary'.workerHosts = primary.workerHosts
  PROVE  RInv'
<1>1. SpokenOK' /\ HeldOK'
  BY DEF RInv, SpokenOK, HeldOK, Reg, Unreg
<1> QED BY <1>1, StillKeepsRoutes

LEMMA InitRInv == Init => RInv
<1> SUFFICES ASSUME Init PROVE RInv
  OBVIOUS
<1> DEFINE W == ToSet(slots)
<1>1. /\ status = [w \in Workers |-> IF w \in W THEN "up" ELSE "unborn"]
      /\ primary = FreshPrimary(W)
      /\ toPrimary = [w \in Workers |-> <<>>]
  BY DEF Init
<1> HIDE DEF W
<1>2. /\ primary.hostToWorker = [k \in Keys |-> None]
      /\ primary.workerHosts = [w \in Workers |-> IF w \in W THEN {} ELSE None]
  BY <1>1 DEF FreshPrimary
<1>3. None \notin Workers /\ Hosts \subseteq Keys
  BY ClusterAssumption, TunnelTablesAssumption
<1>4. HeldOK
  <2>1. primary.workerHosts = [w \in Workers |-> primary.workerHosts[w]]
    BY <1>2
  <2> QED BY <1>1, <1>2, <1>3, <2>1 DEF HeldOK
<1>5. \A u \in Workers : ToSet(toPrimary[u]) = {} /\ Len(toPrimary[u]) = 0
  BY <1>1, Empty, EmptySeq
<1>6. SpokenOK /\ RegsOK
  <2>1. SpokenOK
    BY <1>5 DEF SpokenOK
  <2>2. \A u \in Workers : 1..Len(toPrimary[u]) = {}
    BY <1>5
  <2>3. RegsOK
    BY <2>2 DEF RegsOK
  <2> QED BY <2>1, <2>3
<1>7. EntriesOK
  BY <1>2, <1>3 DEF EntriesOK
<1> QED BY <1>4, <1>6, <1>7 DEF RInv

LEMMA ExitDisturbs ==
  ASSUME NEW w \in Workers, Exit(w)
  PROVE  ~Undisturbed'
<1>1. status'[w] = "exited"
  BY DEF Exit, ExitTo
<1> QED BY <1>1 DEF Undisturbed, Having

LEMMA StepRInv ==
  ASSUME OwnHosts
  PROVE  CInv /\ RInv /\ [Next]_vars /\ (~LateMessages \/ Undisturbed') => RInv'
<1> SUFFICES ASSUME CInv, RInv, [Next]_vars, ~LateMessages \/ Undisturbed' PROVE RInv'
  OBVIOUS
<1>1. CInv'
  BY StepCInv
<1>2. ASSUME Steered PROVE RInv'
  BY <1>1, <1>2, RoutingKeeps DEF Steered
<1>3. ASSUME NEW s \in Sockets, NEW h \in Handshakes, NEW w \in Workers,
             Refuse(s, h, w) \/ Ask(s, h, w) \/ TakeOver(s, h, w)
      PROVE  RInv'
  BY <1>2, <1>3, RefuseKeeps, AskKeeps, TakeOverKeeps
<1>4. ASSUME NEW s \in Sockets, GiveUp(s) \/ Close(s) PROVE RInv'
  BY <1>2, <1>4, GiveUpKeeps, CloseKeeps
<1>5. ASSUME NEW w \in Workers, Answered(w) PROVE RInv'
  BY <1>2, <1>5, AnsweredKeeps
<1>6. ASSUME NEW w \in Workers, DoDisconnect(w) PROVE RInv'
  BY <1>2, <1>6, DoDisconnectKeeps
<1>7. ASSUME NEW w \in Workers, Receive(w) PROVE RInv'
  BY <1>7, RegisterKeepsRoutes, UnregisterKeepsRoutes, OthersKeepRoutes DEF Receive
<1>8. ASSUME NEW w \in Workers, Crash(w) \/ WorkerStops(w) PROVE RInv'
  BY <1>8, DiesKeepsRoutes DEF Crash, WorkerStops
<1>9. ASSUME NEW w \in Workers, Exit(w) PROVE RInv'
  BY <1>9, ExitKeepsRoutes, ExitDisturbs
<1>10. ASSUME NEW w \in Workers, NEW k \in AdminKeys, RemoveTunnel(w, k) PROVE RInv'
  BY <1>2, <1>10, RemoveTunnelKeeps
<1>11. ASSUME NEW w \in Workers, NEW l \in AdminLabels, RemoveClient(w, l) PROVE RInv'
  BY <1>2, <1>11, RemoveClientKeeps
<1>12. CASE Hour
  <2>1. /\ primary' = [primary EXCEPT !.claims = Age(@)]
        /\ UNCHANGED <<phase, hs, at, tab, status, toPrimary>>
    BY <1>12 DEF Hour, socketVars, workerVars
  <2>2. DOMAIN primary = Fields
    BY DEF CInv, Shape
  <2>3. /\ primary'.hostToWorker = primary.hostToWorker /\ primary'.sockets = primary.sockets
        /\ primary'.workerHosts = primary.workerHosts
    BY <2>1, <2>2 DEF Fields
  <2> QED BY <2>1, <2>3, CalmKeepsRoutes
<1>13. CASE ShutDown \/ UNCHANGED vars
  <2>1. UNCHANGED <<phase, hs, at, tab, status, toPrimary, primary>>
    BY <1>13 DEF ShutDown, socketVars, workerVars, vars
  <2> QED BY <2>1, CalmKeepsRoutes
<1> QED BY <1>3, <1>4, <1>5, <1>6, <1>7, <1>8, <1>9, <1>10, <1>11, <1>12, <1>13 DEF Next

\* In a state of the invariant, a worker whose messages were all handled has a route for
\* every host that the primary lists for it.
LEMMA RoutedAtRest == CInv /\ RInv => NoStaleRoutes
<1> SUFFICES ASSUME CInv, RInv, Quiet, NEW k \in Hosts, primary.hostToWorker[k] # None
             PROVE  tab[primary.hostToWorker[k]].routes[k] # None
  BY DEF NoStaleRoutes
<1>1. PICK u \in Workers : primary.hostToWorker[k] = u
  BY TunnelTablesAssumption DEF RInv, HeldOK
<1>2. status[u] = "up" /\ toPrimary[u] = <<>>
  BY <1>1, TunnelTablesAssumption DEF RInv, HeldOK, Quiet
<1>3. \A m : ~Later(toPrimary[u], 0, m)
  BY <1>2, EmptySeq DEF Later
<1>4. PICK s \in Sockets : tab[u].routes[k] = s
  BY <1>1, <1>2, <1>3 DEF RInv, EntriesOK, Renewed, Kept
<1> QED BY <1>1, <1>4, NameClaimsAssumption

\* No host is left handed to a worker that has no tunnel for it (cluster.js's
\* REGISTER_HOST and UNREGISTER_HOST, isCurrentSocket, and the exit handler, against what
\* server.js's handlers tell the primary): once the channels are empty, the worker that the
\* primary lists for a host has a route for it.  Whatever takeovers, crashes, removals and
\* claims that time out, and however the messages of different workers interleave.  The
\* clients are granted no host but the one they dial, and an exit is noticed after the
\* last message of the worker: without either of them the property is false.
THEOREM RoutesAreServed ==
  ASSUME OwnHosts, ~LateMessages
  PROVE  Spec => []NoStaleRoutes
<1>1. CInv /\ RInv /\ [Next]_vars => RInv'
  BY StepRInv
<1> QED BY <1>1, RoutedAtRest, InitCInv, InitRInv, StepCInv, PTL DEF Spec

-----------------------------------------------------------------------------
(* Where visitors are handed to, as long as no worker was lost and nobody  *)
(* was removed.                                                            *)

Home(h) == slots[hostSlot[h]]
Named(g) == {g.host} \cup g.keys

\* The ids a client is matched with are among its labels, and other hosts of the same
\* slot have other labels.  One host is announced with the same
\* labels each time, unless clients compete for it by its name and keep it while they
\* are connected.
OwnKeys ==
  /\ \A h \in Handshakes : h.ids \subseteq h.keys
  /\ \A g, h \in Handshakes : hostSlot[g.host] = hostSlot[h.host] =>
       IF g.host # h.host THEN g.keys \cap h.keys = {}
       ELSE \/ g.keys = h.keys
            \/ /\ g.owner # h.owner /\ {g.owner, h.owner} \cap EphemeralOwners = {}
               /\ NameOf[h.host] # None

\* Every slot has a worker that is up, and a socket is at the worker of its host.
HomesOK ==
  /\ slots \in [Slots -> Workers] /\ IsInjective(slots)
  /\ \A i \in Slots : status[slots[i]] = "up"
  /\ \A s \in Sockets : phase[s] # "new" => at[s] = Home(hs[s].host)

\* Nothing that an administrator sends is under way.
Usual == {"REGISTER_HOST", "UNREGISTER_HOST", "RELEASE_HOSTS", "CLAIM_HOSTS"}

UsualOK ==
  \A w \in Workers : /\ \A m \in ToSet(toPrimary[w]) : m.type \in Usual
                     /\ \A m \in ToSet(toWorker[w]) : m.type = "CLAIM_HOSTS_RES"

\* The labels of a tunnel lead to it as long as its host does.
TogetherOK ==
  \A s \in Sockets : phase[s] = "open" => \A k \in hs[s].keys :
    tab[at[s]].routes[k] = s <=> tab[at[s]].routes[hs[s].host] = s

\* A host is its own alias, and only labels with a route are others; the hosts that are
\* active are the ones routed, but for those in E.
LedgerOK(t, E) ==
  /\ \A k \in Keys : t.primary[k] # None =>
       t.primary[k] = k \/ (k \notin Hosts /\ t.routes[k] # None)
  /\ t.active \subseteq Hosts
  /\ \A h \in Hosts \ E : h \in t.active <=> t.routes[h] # None

LedgersOK == \A w \in Workers : LedgerOK(tab[w], {})

\* The registration of the socket that w routes h to is the last one of the host: it is
\* at place i of the queue, or at place 0, in the primary's tables.
LastSaid(w, h, s, i) ==
  /\ IF i = 0 THEN primary.hostToWorker[h] = w /\ primary.sockets[h] = s
              ELSE toPrimary[w][i] = Reg(s)
  /\ ~Renewed(w, h, i)

SaidOK ==
  \A w \in Workers, h \in Hosts : tab[w].routes[h] # None =>
    \E i \in 0..Len(toPrimary[w]) : LastSaid(w, h, tab[w].routes[h], i)

\* Who has key k at another worker than w.
Elsewhere(k, w) == \E r \in Sockets : phase[r] # "new" /\ k \in Named(hs[r]) /\ at[r] # w

\* The keys of a socket that is listed are listed with it, and a key is listed for such
\* a socket.
ListedOK ==
  /\ \A h \in Keys : primary.sockets[h] # None =>
       LET s == primary.sockets[h] IN
       /\ h \in Hosts /\ s \in Sockets /\ phase[s] # "new" /\ hs[s].host = h
       /\ primary.hostToWorker[h] = Home(h)
       /\ \A k \in hs[s].keys : primary.hostToWorker[k] = Home(h) \/ Elsewhere(k, Home(h))
  /\ \A k \in Keys : primary.hostToWorker[k] # None =>
       \E s \in Sockets : /\ phase[s] # "new" /\ k \in Named(hs[s])
                          /\ at[s] = primary.hostToWorker[k]
                          /\ primary.sockets[hs[s].host] = s

\* Socket s is registered at place i of the queue of w, or at place 0, in the primary's
\* tables.
Said(w, i, s) ==
  IF i = 0 THEN primary.sockets[hs[s].host] = s /\ at[s] = w ELSE toPrimary[w][i] = Reg(s)

\* Between places i and j of the queue of w the registration of r neither ends nor is
\* followed by another one of its host.
Stands(w, i, j, r) ==
  \A l \in (i + 1)..(j - 1) :
    /\ toPrimary[w][l] # Unreg(r)
    /\ \A t \in Sockets : toPrimary[w][l] = Reg(t) => hs[t].host # hs[r].host

\* Labels change only when the host has been given up.
EpochsOK ==
  \A w \in Workers : \A i \in 0..Len(toPrimary[w]), j \in 1..Len(toPrimary[w]) :
    \A r, s \in Sockets :
      /\ i < j /\ phase[r] # "new" /\ phase[s] # "new" /\ hs[r].host = hs[s].host
      /\ Said(w, i, r) /\ toPrimary[w][j] = Reg(s) /\ Stands(w, i, j, r)
      => hs[r].keys = hs[s].keys

\* Two sockets of clients that compete for a host.
Rivals(e, r) == hs[e].host = hs[r].host /\ hs[e].keys # hs[r].keys

\* The name of host h rests on socket x, of client c.
RestsFor(h, x, c) == Resting(NameOf[h], x) /\ hs[x].owner = c

\* A socket whose answer is under way waits for it, or left.
WaitingOK ==
  \A w \in Workers, s \in Sockets :
    Answers(s) \cap ToSet(toWorker[w]) # {} => phase[s] \in {"asked", "left"}

\* The name of a host that has been granted to a durable client is still his when the
\* answer arrives: it rests on that socket, or on one that is answered later.
GrantedOK ==
  \A w \in Workers : \A i \in 1..Len(toWorker[w]), s \in Sockets :
    /\ toWorker[w][i] = Answer(s, TRUE)
    /\ NameOf[hs[s].host] # None /\ hs[s].owner \notin EphemeralOwners
    => \E j \in i..Len(toWorker[w]), x \in Sockets :
         toWorker[w][j] = Answer(x, TRUE) /\ RestsFor(hs[s].host, x, hs[s].owner)

\* A claim of a rival meets the name of a host that has a tunnel before it can be released.
BarredOK ==
  \A w \in Workers, h \in Hosts : tab[w].routes[h] # None =>
    \A r \in Sockets, j \in 1..Len(toPrimary[w]) :
      toPrimary[w][j] = Claim(r) /\ Rivals(tab[w].routes[h], r) =>
        \E x \in Sockets : /\ RestsFor(h, x, hs[tab[w].routes[h]].owner)
                           /\ \A i \in 1..(j - 1) : toPrimary[w][i] # Release(x)

\* So a rival is not granted the name as long as the host has its tunnel.
UnrivalledOK ==
  \A w \in Workers, h \in Hosts : tab[w].routes[h] # None =>
    \A r \in Sockets : Answer(r, TRUE) \in ToSet(toWorker[w]) => ~Rivals(tab[w].routes[h], r)

ContestOK == WaitingOK /\ GrantedOK /\ BarredOK /\ UnrivalledOK

UInv ==
  /\ HomesOK /\ UsualOK /\ TogetherOK /\ LedgersOK /\ SaidOK /\ ListedOK /\ EpochsOK
  /\ ContestOK

\* What is announced for a host is its name and its labels, whatever was granted.
LEMMA NamedAliases ==
  ASSUME OwnHosts, NEW h \in Handshakes, NEW G, G = {} \/ G = resolveRequestedNames(h)
  PROVE  Aliases(h, G) = Named(h)
<1>1. resolveRequestedNames(h) \subseteq Names /\ h.host \in Hosts
  BY HandshakeParts
<1>2. \A n \in resolveRequestedNames(h) : HostFor[n] \in Hosts
  BY <1>1, TunnelTablesAssumption
<1>3. \A n \in resolveRequestedNames(h) : HostFor[n] = h.host
  BY <1>2 DEF OwnHosts, Aliases
<1> QED BY <1>3 DEF Aliases, Named

LEMMA NamedSockets ==
  ASSUME CInv, OwnHosts, NEW s \in Sockets, phase[s] # "new"
  PROVE  hs[s] \in Handshakes /\ AliasesOf(s) = Named(hs[s])
<1>1. hs[s] \in Handshakes /\ (granted[s] = {} \/ granted[s] = resolveRequestedNames(hs[s]))
  BY DEF CInv, SocketsOK, Asked
<1> QED BY <1>1, NamedAliases DEF AliasesOf

LEMMA NamedSocketsNext ==
  ASSUME CInv', OwnHosts, NEW s \in Sockets, phase'[s] # "new"
  PROVE  hs'[s] \in Handshakes /\ Aliases(hs'[s], granted'[s]) = Named(hs'[s])
<1>1. hs'[s] \in Handshakes /\ (granted'[s] = {} \/ granted'[s] = resolveRequestedNames(hs'[s]))
  BY DEF CInv, SocketsOK, Asked
<1> QED BY <1>1, NamedAliases

\* No label is another host.
LEMMA NamedParts ==
  ASSUME OwnHosts, NEW g \in Handshakes
  PROVE  /\ g.host \in Hosts /\ g.host \in Keys /\ g.keys \subseteq Keys
         /\ Named(g) \cap Hosts = {g.host}
         /\ \A k \in Named(g) : k # g.host => k \in g.keys /\ k \notin Hosts
<1>1. g.host \in Hosts /\ g.host \in Keys
  BY HandshakeParts
<1>2. g.keys \subseteq Keys
  BY ClusterAssumption DEF Handshake
<1>3. \A k \in g.keys : k \in Hosts => k = g.host
  BY DEF OwnHosts, Aliases
<1> QED BY <1>1, <1>2, <1>3 DEF Named

\* A worker is the home of the hosts of one slot.
LEMMA SameHome ==
  ASSUME HomesOK, OwnKeys, NEW g \in Handshakes, NEW h \in Handshakes, Home(g.host) = Home(h.host),
         g.keys \cap h.keys # {}
  PROVE  g.host = h.host
<1>1. /\ g.host \in Hosts /\ h.host \in Hosts
      /\ hostSlot[g.host] \in Slots /\ hostSlot[h.host] \in Slots
  BY HandshakeParts, ClusterAssumption
<1>2. hostSlot[g.host] = hostSlot[h.host]
  BY <1>1 DEF HomesOK, Home, IsInjective
<1> QED BY <1>2 DEF OwnKeys

\* One client announces a host with the same labels each time.
LEMMA SameClient ==
  ASSUME OwnKeys, NEW g \in Handshakes, NEW h \in Handshakes, g.host = h.host, g.owner = h.owner
  PROVE  g.keys = h.keys
BY DEF OwnKeys

\* Who competes for a host asks for its name, and keeps it while connected.
LEMMA RivalParts ==
  ASSUME CInv, OwnHosts, OwnKeys, NEW e \in Sockets, NEW r \in Sockets,
         phase[e] # "new", phase[r] # "new", Rivals(e, r)
  PROVE  /\ hs[e].owner # hs[r].owner /\ {hs[e].owner, hs[r].owner} \cap EphemeralOwners = {}
         /\ NameOf[hs[e].host] \in Names /\ NameOf[hs[e].host] # None
         /\ NameOf[hs[e].host] \in Asked(e) /\ NameOf[hs[e].host] \in Asked(r)
<1>1. hs[e] \in Handshakes /\ hs[r] \in Handshakes
  BY DEF CInv, SocketsOK
<1>2. /\ hs[e].owner # hs[r].owner /\ {hs[e].owner, hs[r].owner} \cap EphemeralOwners = {}
      /\ NameOf[hs[e].host] # None
  BY <1>1 DEF OwnKeys, Rivals
<1>3. hs[e].host \in Hosts
  BY <1>1, HandshakeParts
<1>4. NameOf[hs[e].host] \in Names
  BY <1>2, <1>3, TunnelTablesAssumption
<1>5. \A g : NameOf[g.host] # None => NameOf[g.host] \in resolveRequestedNames(g)
  BY DEF resolveRequestedNames
<1> QED BY <1>2, <1>4, <1>5 DEF Asked, Rivals

\* A socket that asks for the name of a host dials it.
LEMMA AsksForHost ==
  ASSUME CInv, OwnHosts, NEW e \in Sockets, NEW x \in Sockets, phase[e] # "new", phase[x] # "new",
         NEW n \in Names, n \in Asked(e), n \in Asked(x)
  PROVE  hs[x].host = hs[e].host
<1>1. hs[e] \in Handshakes /\ hs[x] \in Handshakes /\ HostFor[n] \in Hosts
  BY TunnelTablesAssumption DEF CInv, SocketsOK
<1>2. ASSUME NEW s \in Sockets, hs[s] \in Handshakes, n \in Asked(s) PROVE hs[s].host = HostFor[n]
  BY <1>1, <1>2 DEF OwnHosts, Asked, Aliases
<1> QED BY <1>1, <1>2

-----------------------------------------------------------------------------
(* The tables of a worker: what connecting and closing do to them.         *)

LEMMA ConnectRoutes ==
  ASSUME NEW t, NEW s, NEW h \in Handshakes, NEW G, Aliases(h, G) = Named(h)
  PROVE  \A k \in Keys : Connect(t, s, h, G).routes[k] = IF k \in Named(h) THEN s ELSE t.routes[k]
BY DEF Connect

LEMMA ConnectLedger ==
  ASSUME OwnHosts, NEW t, NEW s \in Sockets, NEW h \in Handshakes, NEW G,
         Aliases(h, G) = Named(h), LedgerOK(t, {h.host})
  PROVE  LedgerOK(Connect(t, s, h, G), {})
<1> DEFINE c == Connect(t, s, h, G)
<1>1. /\ \A k \in Keys : c.routes[k] = IF k \in Named(h) THEN s ELSE t.routes[k]
      /\ \A k \in Keys : c.primary[k] = IF k \in Named(h) THEN h.host ELSE t.primary[k]
      /\ c.active = t.active \cup {h.host}
  BY DEF Connect
<1>2. Named(h) \cap Hosts = {h.host} /\ h.host \in Hosts /\ Hosts \subseteq Keys
  BY NamedParts, TunnelTablesAssumption
<1>3. s # None
  BY NameClaimsAssumption
<1> HIDE DEF c
<1>4. \A k \in Keys : c.primary[k] # None =>
        c.primary[k] = k \/ (k \notin Hosts /\ c.routes[k] # None)
  BY <1>1, <1>2, <1>3 DEF LedgerOK
<1>5. c.active \subseteq Hosts
  BY <1>1, <1>2 DEF LedgerOK
<1>6. \A k \in Hosts : k \in c.active <=> c.routes[k] # None
  BY <1>1, <1>2, <1>3 DEF LedgerOK
<1> QED BY <1>4, <1>5, <1>6 DEF LedgerOK, c

LEMMA DropLedger ==
  ASSUME CInv, OwnHosts, NEW w \in Workers, NEW e \in Sockets, phase[e] = "open", NEW first, NEW E,
         \/ first[e] = None
         \/ first[e] = hs[e].host /\ hs[e].host \in E,
         LedgerOK(tab[w], {})
  PROVE  LedgerOK(Drop(tab[w], {e}, first, hs, granted), E)
<1> DEFINE t == tab[w]
           d == Drop(t, {e}, first, hs, granted)
           H == hs[e].host
<1>1. /\ H \in Hosts /\ \A k \in Hosts : k \in AliasesOf(e) <=> k = H
      /\ Hosts \subseteq Keys /\ None \notin Hosts
  BY OwnHost, TunnelTablesAssumption
<1>2. \A k \in Keys : IF t.routes[k] \in {e} \cup {None}
                        THEN d.routes[k] = None ELSE d.routes[k] = t.routes[k]
  <2> PICK V : V = {e}
    OBVIOUS
  <2>1. \A k \in Keys : LET r == Drop(tab[w], V, first, hs, granted).routes[k] IN
          IF tab[w].routes[k] \in V \cup {None} THEN r = None ELSE r = tab[w].routes[k]
    BY DropParts
  <2> QED BY <2>1
<1>3. \A k \in Keys : /\ d.primary[k] \in {t.primary[k], None}
                      /\ t.routes[k] = e /\ k \notin Hosts => d.primary[k] = None
  <2>1. ASSUME NEW k \in Keys, t.routes[k] = e, k \notin Hosts
        PROVE  Unaliased(t, k, {e}, first, hs, granted)
    <3>1. k \in AliasesOf(e) /\ k # H /\ k # first[e]
      <4>1. k \in AliasesOf(e)
        BY <2>1, NameClaimsAssumption DEF CInv, RoutesOK, AliasesOf
      <4> QED BY <1>1, <2>1, <4>1, TunnelTablesAssumption
    <3> HIDE DEF t
    <3> QED BY <2>1, <3>1 DEF Unaliased, Unrouted, AliasesOf
  <2> QED BY <2>1 DEF Drop
<1>4. d.active = t.active \ {hs[s].host : s \in {r \in {e} : StillPrimary(t, r, first, hs)}}
  BY DEF Drop
<1>5. d.active = IF t.routes[H] = e /\ first[e] # H THEN t.active \ {H} ELSE t.active
  <2>1. CASE t.routes[H] = e /\ first[e] # H
    <3>1. {r \in {e} : StillPrimary(t, r, first, hs)} = {e}
      BY <2>1 DEF StillPrimary
    <3> HIDE DEF t
    <3> QED BY <1>4, <2>1, <3>1
  <2>2. CASE ~(t.routes[H] = e /\ first[e] # H)
    <3>1. {r \in {e} : StillPrimary(t, r, first, hs)} = {}
      BY <2>2 DEF StillPrimary
    <3> HIDE DEF t
    <3> QED BY <1>4, <2>2, <3>1
  <2> QED BY <2>1, <2>2
<1>6. \A k \in Hosts : t.routes[k] = e => k = H
  <2>1. \A k \in Keys : t.routes[k] = e => k \in AliasesOf(e)
    BY NameClaimsAssumption DEF CInv, RoutesOK, AliasesOf
  <2> QED BY <1>1, <2>1
<1>7. LedgerOK(t, {}) /\ e # None
  BY NameClaimsAssumption
<1> HIDE DEF t, d, H
<1>8. ASSUME NEW k \in Keys, d.primary[k] # None, d.primary[k] # k
      PROVE  k \notin Hosts /\ d.routes[k] # None
  <2>1. t.primary[k] = d.primary[k]
    BY <1>3, <1>8
  <2>2. k \notin Hosts /\ t.routes[k] # None
    BY <1>7, <1>8, <2>1 DEF LedgerOK
  <2>3. t.routes[k] # e
    BY <1>3, <1>8, <2>2
  <2>4. d.routes[k] = t.routes[k]
    BY <1>2, <2>2, <2>3
  <2> QED BY <2>2, <2>4
<1>9. d.active \subseteq Hosts
  BY <1>5, <1>7 DEF LedgerOK
<1>10. ASSUME NEW k \in Hosts \ E PROVE k \in d.active <=> d.routes[k] # None
  <2>1. /\ k \in t.active <=> t.routes[k] # None
        /\ IF t.routes[k] \in {e} \cup {None}
             THEN d.routes[k] = None ELSE d.routes[k] = t.routes[k]
    BY <1>1, <1>2, <1>7 DEF LedgerOK
  <2>2. CASE k = H
    <3>1. first[e] = None /\ first[e] # H
      BY <1>1, <1>10, <2>2 DEF H
    <3> QED BY <1>5, <1>7, <2>1, <2>2, <3>1
  <2>3. CASE k # H
    <3>1. t.routes[k] # e /\ (k \in d.active <=> k \in t.active)
      BY <1>5, <1>6, <2>3
    <3> QED BY <1>7, <2>1, <3>1
  <2> QED BY <2>2, <2>3
<1> QED BY <1>8, <1>9, <1>10 DEF LedgerOK, d, t

-----------------------------------------------------------------------------
(* The steps of the workers: where sockets are, what is said, the ledgers. *)

LEMMA HomeIs ==
  ASSUME HomesOK, NEW h \in Hosts
  PROVE  workerForHost(h) = Home(h) /\ Home(h) \in Workers
<1>1. hostSlot[h] \in Slots /\ None \notin Workers
  BY ClusterAssumption
<1>2. Home(h) \in Workers /\ status[Home(h)] = "up"
  BY <1>1 DEF HomesOK, Home
<1> QED BY <1>1, <1>2 DEF workerForHost, isConnected, Home

LEMMA HomesKept ==
  ASSUME HomesOK, slots' = slots, status' = status,
         \A s \in Sockets : phase'[s] # "new" =>
           \/ phase[s] # "new" /\ hs'[s] = hs[s] /\ at'[s] = at[s]
           \/ at'[s] = Home(hs'[s].host)
  PROVE  HomesOK'
BY DEF HomesOK, Home

LEMMA LedgersKept ==
  ASSUME \A u \in Workers : LedgerOK(tab'[u], {})
  PROVE  LedgersOK'
BY DEF LedgersOK, LedgerOK

\* What w has sent more.
LEMMA SentParts ==
  ASSUME CInv, NEW w \in Workers, NEW msgs \in Seq(Messages), toPrimary' = Sent(w, msgs)
  PROVE  /\ \A u \in Workers :
              toPrimary'[u] = IF u = w THEN toPrimary[w] \o msgs ELSE toPrimary[u]
         /\ ToSet(toPrimary[w] \o msgs) = ToSet(toPrimary[w]) \cup ToSet(msgs)
         /\ \A u \in Workers : \A m : m \in ToSet(toPrimary'[u]) =>
              m \in ToSet(toPrimary[u]) \/ (u = w /\ m \in ToSet(msgs))
<1>1. toPrimary \in [Workers -> Seq(Messages)]
  BY DEF CInv, TalksOK
<1> PICK q : q = toPrimary[w]
  OBVIOUS
<1>2. ToSet(q \o msgs) = ToSet(q) \cup ToSet(msgs)
  <2>1. q \in Seq(Messages)
    BY <1>1
  <2> QED BY <2>1, SetOfConcat
<1>3. \A u \in Workers : toPrimary'[u] = IF u = w THEN q \o msgs ELSE toPrimary[u]
  BY <1>1 DEF Sent
<1>4. \A u \in Workers : \A m : m \in ToSet(toPrimary'[u]) =>
        m \in ToSet(toPrimary[u]) \/ (u = w /\ m \in ToSet(msgs))
  BY <1>2, <1>3
<1> QED BY <1>2, <1>3, <1>4

LEMMA UsualSent ==
  ASSUME CInv, UsualOK, NEW w \in Workers, NEW msgs \in Seq(Messages), toPrimary' = Sent(w, msgs),
         \A m \in ToSet(msgs) : m.type \in Usual,
         toWorker' = toWorker \/ (toWorker[w] # <<>> /\ toWorker' = [toWorker EXCEPT ![w] = Tail(@)])
  PROVE  UsualOK'
<1>1. toPrimary \in [Workers -> Seq(Messages)] /\ toWorker \in [Workers -> Seq(Messages)]
  BY DEF CInv, TalksOK
<1>2. ASSUME NEW u \in Workers, NEW m \in ToSet(toPrimary'[u]) PROVE m.type \in Usual
  <2>1. toPrimary'[u] = IF u = w THEN toPrimary[w] \o msgs ELSE toPrimary[u]
    BY <1>1 DEF Sent
  <2>2. ToSet(toPrimary[w] \o msgs) = ToSet(toPrimary[w]) \cup ToSet(msgs)
    BY <1>1, SetOfConcat
  <2> QED BY <1>2, <2>1, <2>2 DEF UsualOK
<1>3. ASSUME NEW u \in Workers, NEW m \in ToSet(toWorker'[u]) PROVE m.type = "CLAIM_HOSTS_RES"
  <2>1. CASE toWorker' = toWorker
    BY <1>3, <2>1 DEF UsualOK
  <2>2. CASE toWorker[w] # <<>> /\ toWorker' = [toWorker EXCEPT ![w] = Tail(@)]
    <3>1. toWorker'[u] = IF u = w THEN Tail(toWorker[w]) ELSE toWorker[u]
      BY <1>1, <2>2
    <3>2. ToSet(Tail(toWorker[w])) \subseteq ToSet(toWorker[w])
      BY <1>1, <2>2, TailParts
    <3> QED BY <1>3, <3>1, <3>2 DEF UsualOK
  <2> QED BY <2>1, <2>2
<1> QED BY <1>2, <1>3 DEF UsualOK

\* What is kept by a step that says only what is usual.
Steady == HomesOK' /\ UsualOK' /\ LedgersOK' /\ slots' = slots /\ status' = status

\* A socket connects when its claim is granted, or in the place of one of its client, and
\* brings its host and its labels; an answer is received once; and a host is claimed
\* only when it has no tunnel.
Settled(s) ==
  LET e == tab[at'[s]].routes[hs'[s].host] IN
  /\ \A k \in Named(hs'[s]) : tab'[at'[s]].routes[k] = s
  /\ \/ phase[s] = "asked" /\ Answer(s, TRUE) \in ToSet(toWorker[at'[s]])
     \/ e # None /\ hs[e].owner = hs'[s].owner

Settles ==
  /\ \A s \in Sockets : phase[s] # "open" /\ phase'[s] = "open" => Settled(s)
  /\ \A w \in Workers, s \in Sockets :
       Answers(s) \cap ToSet(toWorker'[w]) # {} /\ phase[s] \in {"asked", "left"} =>
         phase'[s] \in {"asked", "left"}
  /\ \A w \in Workers, s \in Sockets :
       Claim(s) \in ToSet(toPrimary'[w]) \ ToSet(toPrimary[w]) =>
         tab'[w].routes[hs'[s].host] = None

\* A socket that arrives is at the worker of its host.
LEMMA ArrivingKeepsHomes ==
  ASSUME CInv, HomesOK, NEW s \in Sockets, NEW h \in Handshakes, NEW w \in Workers,
         w = workerForHost(h.host), phase[s] = "new", slots' = slots, status' = status,
         hs' = [hs EXCEPT ![s] = h], at' = [at EXCEPT ![s] = w],
         \A r \in Sockets \ {s} : phase'[r] # "new" => phase[r] # "new"
  PROVE  HomesOK' /\ Home(h.host) = w
<1>1. h.host \in Hosts /\ SocketsOK
  BY HandshakeParts DEF CInv
<1>2. Home(h.host) = w
  BY <1>1, HomeIs
<1>3. /\ hs'[s] = h /\ at'[s] = w
      /\ \A r \in Sockets \ {s} : hs'[r] = hs[r] /\ at'[r] = at[r]
  BY <1>1 DEF SocketsOK
<1>4. ASSUME NEW r \in Sockets, phase'[r] # "new"
      PROVE  \/ phase[r] # "new" /\ hs'[r] = hs[r] /\ at'[r] = at[r]
             \/ at'[r] = Home(hs'[r].host)
  <2>1. CASE r = s
    BY <1>2, <1>3, <2>1
  <2>2. CASE r # s
    BY <1>3, <1>4, <2>2
  <2> QED BY <2>1, <2>2
<1>5. HomesOK'
  BY <1>4, HomesKept
<1> QED BY <1>2, <1>5

LEMMA RefuseOrAskSteady ==
  ASSUME CInv, HomesOK, UsualOK, LedgersOK, NEW s \in Sockets, NEW h \in Handshakes,
         NEW w \in Workers, Refuse(s, h, w) \/ Ask(s, h, w)
  PROVE  Steady
<1>1. /\ phase[s] = "new" /\ w = workerForHost(h.host)
      /\ hs' = [hs EXCEPT ![s] = h] /\ at' = [at EXCEPT ![s] = w]
      /\ UNCHANGED <<tab, status, slots, toWorker>>
      /\ \E p \in {"gone", "asked"} : phase' = [phase EXCEPT ![s] = p]
      /\ toPrimary' = toPrimary \/ toPrimary' = Sent(w, <<Message("CLAIM_HOSTS", s)>>)
  BY DEF Refuse, Ask, Arrive, workerVars
<1>2. \A r \in Sockets \ {s} : phase'[r] # "new" => phase[r] # "new"
  BY <1>1 DEF CInv, SocketsOK
<1>3. HomesOK'
  BY <1>1, <1>2, ArrivingKeepsHomes
<1>4. UsualOK'
  <2>1. CASE toPrimary' = toPrimary
    BY <1>1, <2>1 DEF UsualOK
  <2>2. CASE toPrimary' = Sent(w, <<Message("CLAIM_HOSTS", s)>>)
    <3> PICK m : m = Message("CLAIM_HOSTS", s)
      OBVIOUS
    <3>1. m \in Messages /\ m.type = "CLAIM_HOSTS"
      BY MessageTypes DEF Message
    <3> PICK msgs : msgs = <<m>>
      OBVIOUS
    <3>2. msgs \in Seq(Messages) /\ ToSet(msgs) = {m} /\ toPrimary' = Sent(w, msgs)
      BY <2>2, <3>1, Single
    <3> QED BY <1>1, <3>1, <3>2, UsualSent DEF Usual
  <2> QED BY <1>1, <2>1, <2>2
<1>5. LedgersOK'
  BY <1>1, LedgersKept DEF LedgersOK
<1> QED BY <1>1, <1>3, <1>4, <1>5 DEF Steady

LEMMA GiveUpSteady ==
  ASSUME CInv, HomesOK, UsualOK, LedgersOK, NEW s \in Sockets, GiveUp(s)
  PROVE  Steady
<1>1. /\ phase[s] = "asked" /\ phase' = [phase EXCEPT ![s] = "left"]
      /\ UNCHANGED <<hs, at, tab, status, slots, toPrimary, toWorker>>
  BY DEF GiveUp, workerVars
<1>2. \A r \in Sockets : phase'[r] # "new" => phase[r] # "new"
  BY <1>1 DEF CInv, SocketsOK
<1>3. HomesOK'
  BY <1>1, <1>2, HomesKept
<1>4. LedgersOK'
  BY <1>1, LedgersKept DEF LedgersOK
<1> QED BY <1>1, <1>3, <1>4 DEF Steady, UsualOK

LEMMA CloseSteady ==
  ASSUME CInv, OwnHosts, HomesOK, UsualOK, LedgersOK, NEW s \in Sockets, Close(s)
  PROVE  Steady
<1>1. SocketsOK /\ tab = [u \in Workers |-> tab[u]] /\ phase[s] = "open"
  BY DEF CInv, RoutesOK, Close
<1> PICK w \in Workers : w = at[s]
  BY <1>1 DEF SocketsOK
<1>2. /\ phase' = [phase EXCEPT ![s] = "gone"]
      /\ tab' = [tab EXCEPT ![w] = Drop(@, {s}, NoFirst, hs, granted)]
      /\ toPrimary' = Sent(w, Farewell(s))
      /\ UNCHANGED <<hs, at, status, slots, toWorker>>
  BY DEF Close
<1>3. \A r \in Sockets : phase'[r] # "new" => phase[r] # "new"
  BY <1>1, <1>2 DEF SocketsOK
<1>4. HomesOK'
  BY <1>2, <1>3, HomesKept
<1>5. Farewell(s) \in Seq(Messages) /\ \A m \in ToSet(Farewell(s)) : m.type \in Usual
  BY FarewellParts DEF Message, Release, Usual
<1>6. UsualOK'
  BY <1>2, <1>5, UsualSent
<1> PICK first : first = NoFirst
  OBVIOUS
<1>7. first[s] = None
  BY DEF NoFirst
<1>8. LedgerOK(Drop(tab[w], {s}, first, hs, granted), {})
  BY <1>1, <1>7, DropLedger DEF LedgersOK
<1>9. \A u \in Workers :
        tab'[u] = IF u = w THEN Drop(tab[w], {s}, first, hs, granted) ELSE tab[u]
  BY <1>1, <1>2
<1>10. \A u \in Workers : LedgerOK(tab'[u], {})
  BY <1>8, <1>9 DEF LedgersOK
<1>11. LedgersOK'
  BY <1>2, <1>10, LedgersKept
<1> QED BY <1>2, <1>4, <1>6, <1>11 DEF Steady

LEMMA TakeOverSteady ==
  ASSUME CInv, OwnHosts, HomesOK, UsualOK, LedgersOK, NEW s \in Sockets, NEW h \in Handshakes,
         NEW w \in Workers, TakeOver(s, h, w)
  PROVE  Steady
<1>1. SocketsOK /\ tab = [u \in Workers |-> tab[u]] /\ h.host \in Hosts /\ h.host \in Keys
  BY HandshakeParts DEF CInv, RoutesOK
<1> PICK e : e = tab[w].routes[h.host]
  OBVIOUS
<1>2. e # None /\ phase[e] = "open"
  BY DEF TakeOver, LiveAt
<1>3. e \in Sockets /\ h.host \in AliasesOf(e)
  BY <1>1, <1>2 DEF CInv, RoutesOK, AliasesOf
<1>4. hs[e].host = h.host
  BY <1>1, <1>2, <1>3, OwnHost
<1> PICK first : first = [NoFirst EXCEPT ![e] = h.host]
  OBVIOUS
<1> PICK closed : closed = Drop(tab[w], {e}, first, hs, granted)
  OBVIOUS
<1>5. /\ phase[s] = "new" /\ w = workerForHost(h.host)
      /\ phase' = [phase EXCEPT ![e] = "gone", ![s] = "open"]
      /\ hs' = [hs EXCEPT ![s] = h] /\ at' = [at EXCEPT ![s] = w]
      /\ tab' = [tab EXCEPT ![w] = Connect(closed, s, h, {})]
      /\ toPrimary' = Sent(w, Farewell(e) \o <<Message("REGISTER_HOST", s)>>)
      /\ UNCHANGED <<status, slots, toWorker>>
  BY DEF TakeOver
<1>6. \A r \in Sockets \ {s} : phase'[r] # "new" => phase[r] # "new"
  BY <1>1, <1>2, <1>3, <1>5 DEF SocketsOK
<1>7. HomesOK' /\ Home(h.host) = w
  BY <1>5, <1>6, ArrivingKeepsHomes
<1>8. UsualOK'
  <2>1. PICK far \in Seq(Messages), reg \in Seq(Messages) :
          /\ toPrimary' = Sent(w, far \o reg) /\ ToSet(reg) = {Message("REGISTER_HOST", s)}
          /\ \A m : m \in ToSet(far) <=> \/ m = Message("UNREGISTER_HOST", e)
                                         \/ granted[e] # {} /\ m = Release(e)
    <3>1. Message("REGISTER_HOST", s) \in Messages
      BY MessageTypes
    <3>2. /\ Farewell(e) \in Seq(Messages) /\ <<Message("REGISTER_HOST", s)>> \in Seq(Messages)
          /\ ToSet(<<Message("REGISTER_HOST", s)>>) = {Message("REGISTER_HOST", s)}
          /\ \A m : m \in ToSet(Farewell(e)) <=> \/ m = Message("UNREGISTER_HOST", e)
                                                 \/ granted[e] # {} /\ m = Release(e)
      BY <1>3, <3>1, Single, FarewellParts
    <3> QED BY <1>5, <3>2
  <2>2. far \o reg \in Seq(Messages) /\ ToSet(far \o reg) = ToSet(far) \cup ToSet(reg)
    BY SetOfConcat
  <2>3. \A m \in ToSet(far \o reg) : m.type \in Usual
    BY <2>1, <2>2 DEF Message, Release, Usual
  <2> QED BY <1>5, <2>1, <2>2, <2>3, UsualSent
<1>9. first[e] = h.host
  BY <1>3 DEF NoFirst
<1>10. LedgerOK(closed, {h.host})
  BY <1>2, <1>3, <1>4, <1>9, DropLedger DEF LedgersOK
<1>11. Aliases(h, {}) = Named(h)
  BY NamedAliases
<1>12. LedgerOK(Connect(closed, s, h, {}), {})
  BY <1>7, <1>10, <1>11, ConnectLedger
<1>13. \A u \in Workers : tab'[u] = IF u = w THEN Connect(closed, s, h, {}) ELSE tab[u]
  BY <1>1, <1>5
<1>14. \A u \in Workers : LedgerOK(tab'[u], {})
  BY <1>12, <1>13 DEF LedgersOK
<1>15. LedgersOK'
  BY <1>5, <1>14, LedgersKept
<1> QED BY <1>5, <1>7, <1>8, <1>15 DEF Steady

LEMMA AnsweredSteady ==
  ASSUME CInv, OwnHosts, HomesOK, UsualOK, LedgersOK, NEW w \in Workers, Answered(w)
  PROVE  Steady
<1>1. SocketsOK /\ TalksOK /\ tab = [u \in Workers |-> tab[u]]
  BY DEF CInv, RoutesOK
<1> PICK m : m = Head(toWorker[w])
  OBVIOUS
<1> PICK s : s = m.arg
  OBVIOUS
<1> PICK G : G = resolveRequestedNames(hs[s])
  OBVIOUS
<1> PICK msgs : msgs = <<Message("REGISTER_HOST", s)>>
  OBVIOUS
<1>2. /\ toWorker[w] # <<>> /\ m.type = "CLAIM_HOSTS_RES"
      /\ toWorker' = [toWorker EXCEPT ![w] = Tail(@)]
      /\ UNCHANGED <<hs, at, status, slots>>
      /\ IF phase[s] = "asked" /\ m.ok
           THEN /\ phase' = [phase EXCEPT ![s] = "open"]
                /\ tab' = [tab EXCEPT ![w] = Connect(@, s, hs[s], G)]
                /\ toPrimary' = Sent(w, msgs)
           ELSE /\ phase' = [phase EXCEPT ![s] = IF @ = "asked" THEN "gone" ELSE @]
                /\ UNCHANGED <<tab, toPrimary>>
  BY DEF Answered
<1>3. s \in Sockets /\ m \in ToSet(toWorker[w]) /\ m \in Answers(s)
  <2>1. m \in Messages /\ m \in ToSet(toWorker[w])
    BY <1>1, <1>2, TailParts DEF TalksOK
  <2>2. s \in Sockets /\ m.ok \in BOOLEAN /\ m = Answer(s, m.ok)
    BY <1>2, <2>1, MessageArgs
  <2> QED BY <2>1, <2>2 DEF Answers
<1>4. at[s] = w /\ phase[s] # "new"
  BY <1>1, <1>3 DEF TalksOK, TalkOK
<1>5. hs[s] \in Handshakes /\ Home(hs[s].host) = w
  BY <1>1, <1>3, <1>4 DEF SocketsOK, HomesOK
<1>6. \A r \in Sockets : phase'[r] # "new" => phase[r] # "new"
  BY <1>1, <1>2, <1>3, <1>4 DEF SocketsOK
<1>7. HomesOK'
  BY <1>2, <1>6, HomesKept
<1>8. CASE phase[s] = "asked" /\ m.ok
  <2>1. Message("REGISTER_HOST", s) \in Messages
    BY <1>3, MessageTypes
  <2>2. msgs \in Seq(Messages) /\ ToSet(msgs) = {Message("REGISTER_HOST", s)}
    BY <2>1, Single
  <2>3. \A n \in ToSet(msgs) : n.type \in Usual
    BY <2>2 DEF Message, Usual
  <2>4. UsualOK'
    BY <1>2, <1>8, <2>2, <2>3, UsualSent
  <2>5. Aliases(hs[s], G) = Named(hs[s])
    BY <1>5, NamedAliases
  <2>6. LedgerOK(tab[w], {hs[s].host})
    BY DEF LedgersOK, LedgerOK
  <2>7. LedgerOK(Connect(tab[w], s, hs[s], G), {})
    BY <1>3, <1>5, <2>5, <2>6, ConnectLedger
  <2>8. \A u \in Workers : tab'[u] = IF u = w THEN Connect(tab[w], s, hs[s], G) ELSE tab[u]
    BY <1>1, <1>2, <1>8
  <2>9. \A u \in Workers : LedgerOK(tab'[u], {})
    BY <2>7, <2>8 DEF LedgersOK
  <2>10. LedgersOK'
    BY <1>2, <2>9, LedgersKept
  <2> QED BY <1>2, <1>7, <2>4, <2>10 DEF Steady
<1>9. CASE ~(phase[s] = "asked" /\ m.ok)
  <2>1. UNCHANGED <<tab, toPrimary>>
    BY <1>2, <1>9
  <2>2. UsualOK'
    <3>1. /\ <<>> \in Seq(Messages) /\ ToSet(<<>>) = {}
      BY Empty
    <3>2. toPrimary' = Sent(w, <<>>)
      BY <2>1, NothingSent
    <3> QED BY <1>2, <3>1, <3>2, UsualSent
  <2>3. LedgersOK'
    BY <1>2, <2>1, LedgersKept DEF LedgersOK
  <2> QED BY <1>2, <1>7, <2>2, <2>3 DEF Steady
<1> QED BY <1>8, <1>9

LEMMA RefuseOrAskSettles ==
  ASSUME CInv, NEW s \in Sockets, NEW h \in Handshakes, NEW w \in Workers,
         Refuse(s, h, w) \/ Ask(s, h, w)
  PROVE  Settles
<1>1. SocketsOK /\ toPrimary \in [Workers -> Seq(Messages)]
  BY DEF CInv, TalksOK
<1>2. /\ phase[s] = "new" /\ hs' = [hs EXCEPT ![s] = h]
      /\ UNCHANGED <<tab, toWorker>>
      /\ \E p \in {"gone", "asked"} : phase' = [phase EXCEPT ![s] = p]
      /\ \/ toPrimary' = toPrimary
         \/ ~LiveAt(w, h) /\ toPrimary' = Sent(w, <<Message("CLAIM_HOSTS", s)>>)
  BY DEF Refuse, Ask, Arrive, workerVars
<1>3. \A r \in Sockets \ {s} : phase'[r] = phase[r]
  BY <1>1, <1>2 DEF SocketsOK
<1>4. phase'[s] # "open"
  BY <1>1, <1>2 DEF SocketsOK
<1>5. ASSUME NEW u \in Workers, NEW r \in Sockets,
             Claim(r) \in ToSet(toPrimary'[u]) \ ToSet(toPrimary[u])
      PROVE  tab'[u].routes[hs'[r].host] = None
  <2> PICK m : m = Message("CLAIM_HOSTS", s)
    OBVIOUS
  <2>1. m \in Messages
    BY MessageTypes
  <2>2. ~LiveAt(w, h) /\ toPrimary' = Sent(w, <<m>>)
    BY <1>2, <1>5
  <2> PICK msgs : msgs = <<m>>
    OBVIOUS
  <2>3. msgs \in Seq(Messages) /\ ToSet(msgs) = {m}
    BY <2>1, Single
  <2>6. u = w /\ r = s
    <3>1. u = w /\ Claim(r) = m
      BY <1>5, <2>2, <2>3, SentParts
    <3> QED BY <3>1 DEF Claim, Message
  <2>7. hs'[s] = h
    BY <1>1, <1>2 DEF SocketsOK
  <2>8. tab[w].routes[h.host] = None
    BY <2>2, HandshakeParts DEF LiveAt, CInv, RoutesOK
  <2> QED BY <1>2, <2>6, <2>7, <2>8
<1> QED BY <1>2, <1>3, <1>4, <1>5 DEF Settles

\* A step that sends no claim and opens no socket.
LEMMA ClosingSettles ==
  ASSUME CInv, NEW w \in Workers, NEW msgs \in Seq(Messages), toPrimary' = Sent(w, msgs),
         \A s \in Sockets : Claim(s) \notin ToSet(msgs),
         toWorker' = toWorker,
         \A s \in Sockets : \/ phase'[s] = phase[s]
                            \/ phase[s] = "asked" /\ phase'[s] = "left"
                            \/ phase[s] = "open"
  PROVE  Settles
<1>1. ASSUME NEW u \in Workers, NEW r \in Sockets, Claim(r) \in ToSet(toPrimary'[u])
      PROVE  Claim(r) \in ToSet(toPrimary[u])
  BY <1>1, SentParts
<1> QED BY <1>1 DEF Settles

LEMMA GiveUpSettles ==
  ASSUME CInv, NEW s \in Sockets, GiveUp(s)
  PROVE  Settles
<1>1. /\ phase[s] = "asked" /\ phase' = [phase EXCEPT ![s] = "left"]
      /\ UNCHANGED <<toPrimary, toWorker>>
  BY DEF GiveUp
<1>2. \A r \in Sockets : phase'[r] = phase[r] \/ (phase[r] = "asked" /\ phase'[r] = "left")
  BY <1>1 DEF CInv, SocketsOK
<1> QED BY <1>1, <1>2 DEF Settles

LEMMA CloseSettles ==
  ASSUME CInv, NEW s \in Sockets, Close(s)
  PROVE  Settles
<1>1. /\ phase[s] = "open" /\ phase' = [phase EXCEPT ![s] = "gone"]
      /\ toPrimary' = Sent(at[s], Farewell(s)) /\ toWorker' = toWorker
  BY DEF Close
<1>2. at[s] \in Workers /\ \A r \in Sockets : phase'[r] = phase[r] \/ phase[r] = "open"
  BY <1>1 DEF CInv, SocketsOK
<1>3. /\ Farewell(s) \in Seq(Messages)
      /\ \A r \in Sockets : Claim(r) \notin ToSet(Farewell(s))
  BY FarewellParts DEF Message, Release, Claim
<1> QED BY <1>1, <1>2, <1>3, ClosingSettles

LEMMA TakeOverSettles ==
  ASSUME CInv, OwnHosts, NEW s \in Sockets, NEW h \in Handshakes, NEW w \in Workers,
         TakeOver(s, h, w)
  PROVE  Settles
<1>1. /\ SocketsOK /\ tab = [u \in Workers |-> tab[u]] /\ toPrimary \in [Workers -> Seq(Messages)]
      /\ h.host \in Hosts /\ h.host \in Keys
  BY HandshakeParts DEF CInv, RoutesOK, TalksOK
<1> PICK e : e = tab[w].routes[h.host]
  OBVIOUS
<1> PICK closed : closed = Drop(tab[w], {e}, [NoFirst EXCEPT ![e] = h.host], hs, granted)
  OBVIOUS
<1>2. /\ phase[s] = "new" /\ e # None /\ phase[e] = "open" /\ hs[e].owner = h.owner
      /\ phase' = [phase EXCEPT ![e] = "gone", ![s] = "open"]
      /\ hs' = [hs EXCEPT ![s] = h] /\ at' = [at EXCEPT ![s] = w]
      /\ tab' = [tab EXCEPT ![w] = Connect(closed, s, h, {})]
      /\ toPrimary' = Sent(w, Farewell(e) \o <<Message("REGISTER_HOST", s)>>)
      /\ toWorker' = toWorker
  BY DEF TakeOver, LiveAt, MayReplace
<1>3. e \in Sockets
  BY <1>1, <1>2 DEF CInv, RoutesOK
<1>4. /\ phase'[s] = "open" /\ hs'[s] = h /\ at'[s] = w
      /\ \A r \in Sockets \ {s} : phase'[r] = phase[r] \/ (phase[r] = "open" /\ phase'[r] = "gone")
  BY <1>1, <1>2, <1>3 DEF SocketsOK
<1>5. \A k \in Named(h) : tab'[w].routes[k] = s
  <2>1. Named(h) \subseteq Keys /\ Aliases(h, {}) = Named(h)
    BY NamedParts, NamedAliases DEF Named
  <2>2. tab'[w] = Connect(closed, s, h, {})
    BY <1>1, <1>2
  <2> QED BY <2>1, <2>2, ConnectRoutes
<1>6. ASSUME NEW u \in Workers, NEW r \in Sockets, Claim(r) \in ToSet(toPrimary'[u])
      PROVE  Claim(r) \in ToSet(toPrimary[u])
  <2>1. PICK far \in Seq(Messages), reg \in Seq(Messages) :
          /\ toPrimary' = Sent(w, far \o reg) /\ ToSet(reg) = {Message("REGISTER_HOST", s)}
          /\ \A m : m \in ToSet(far) <=> \/ m = Message("UNREGISTER_HOST", e)
                                         \/ granted[e] # {} /\ m = Release(e)
    <3>1. Message("REGISTER_HOST", s) \in Messages
      BY MessageTypes
    <3>2. /\ Farewell(e) \in Seq(Messages) /\ <<Message("REGISTER_HOST", s)>> \in Seq(Messages)
          /\ ToSet(<<Message("REGISTER_HOST", s)>>) = {Message("REGISTER_HOST", s)}
          /\ \A m : m \in ToSet(Farewell(e)) <=> \/ m = Message("UNREGISTER_HOST", e)
                                                 \/ granted[e] # {} /\ m = Release(e)
      BY <1>3, <3>1, Single, FarewellParts
    <3> QED BY <1>2, <3>2
  <2>2. far \o reg \in Seq(Messages) /\ ToSet(far \o reg) = ToSet(far) \cup ToSet(reg)
    BY SetOfConcat
  <2>3. Claim(r) \notin ToSet(far \o reg)
    BY <2>1, <2>2 DEF Message, Release, Claim
  <2> PICK all : all = far \o reg
    OBVIOUS
  <2> QED BY <1>6, <2>1, <2>2, <2>3, SentParts
<1>7. ASSUME NEW r \in Sockets, phase[r] # "open", phase'[r] = "open" PROVE r = s
  BY <1>4, <1>7
<1>8. \A r \in Sockets : phase[r] \in {"asked", "left"} => phase'[r] = phase[r]
  BY <1>2, <1>4
<1>9. ASSUME NEW r \in Sockets, phase[r] # "open", phase'[r] = "open"
      PROVE  /\ at'[r] = w /\ hs'[r] = h /\ r = s
             /\ tab[w].routes[h.host] = e
  BY <1>4, <1>7, <1>9
<1>10. \A r \in Sockets : phase[r] # "open" /\ phase'[r] = "open" => Settled(r)
  BY <1>2, <1>5, <1>9 DEF Settled
<1> QED BY <1>2, <1>6, <1>8, <1>10 DEF Settles

LEMMA AnsweredSettles ==
  ASSUME CInv, OwnHosts, NEW w \in Workers, Answered(w)
  PROVE  Settles
<1>1. /\ SocketsOK /\ TalksOK /\ tab = [u \in Workers |-> tab[u]]
      /\ toPrimary \in [Workers -> Seq(Messages)] /\ toWorker \in [Workers -> Seq(Messages)]
  BY DEF CInv, RoutesOK, TalksOK
<1> PICK m : m = Head(toWorker[w])
  OBVIOUS
<1> PICK s : s = m.arg
  OBVIOUS
<1> PICK G : G = resolveRequestedNames(hs[s])
  OBVIOUS
<1> PICK msgs : msgs = <<Message("REGISTER_HOST", s)>>
  OBVIOUS
<1>2. /\ toWorker[w] # <<>> /\ m.type = "CLAIM_HOSTS_RES"
      /\ toWorker' = [toWorker EXCEPT ![w] = Tail(@)]
      /\ UNCHANGED <<hs, at, status, slots>>
      /\ IF phase[s] = "asked" /\ m.ok
           THEN /\ phase' = [phase EXCEPT ![s] = "open"]
                /\ tab' = [tab EXCEPT ![w] = Connect(@, s, hs[s], G)]
                /\ toPrimary' = Sent(w, msgs)
           ELSE /\ phase' = [phase EXCEPT ![s] = IF @ = "asked" THEN "gone" ELSE @]
                /\ UNCHANGED <<tab, toPrimary>>
  BY DEF Answered
<1>3. s \in Sockets /\ m \in ToSet(toWorker[w]) /\ m = Answer(s, m.ok) /\ m \in Answers(s)
  <2>1. m \in Messages /\ m \in ToSet(toWorker[w])
    BY <1>1, <1>2, TailParts DEF TalksOK
  <2>2. s \in Sockets /\ m.ok \in BOOLEAN /\ m = Answer(s, m.ok)
    BY <1>2, <2>1, MessageArgs
  <2> QED BY <2>1, <2>2 DEF Answers
<1>4. at[s] = w /\ phase[s] # "new" /\ Once(toWorker[w], Answers(s))
  BY <1>1, <1>3 DEF TalksOK, TalkOK
<1>5. hs[s] \in Handshakes
  BY <1>1, <1>3, <1>4 DEF SocketsOK
<1>6. \A r \in Sockets \ {s} : phase'[r] = phase[r]
  BY <1>1, <1>2 DEF SocketsOK
<1>7. ASSUME phase[s] # "open", phase'[s] = "open"
      PROVE  /\ phase[s] = "asked" /\ Answer(s, TRUE) \in ToSet(toWorker[w])
             /\ \A k \in Named(hs[s]) : tab'[w].routes[k] = s
  <2>1. phase[s] = "asked" /\ m.ok
    BY <1>1, <1>2, <1>3, <1>7 DEF SocketsOK
  <2>2. Named(hs[s]) \subseteq Keys /\ Aliases(hs[s], G) = Named(hs[s])
    BY <1>5, NamedParts, NamedAliases DEF Named
  <2>3. tab'[w] = Connect(tab[w], s, hs[s], G)
    BY <1>1, <1>2, <2>1
  <2>4. m.ok = TRUE
    BY <1>3, <2>1 DEF Answers, Answer
  <2>5. \A k \in Named(hs[s]) : tab'[w].routes[k] = s
    BY <1>5, <2>2, <2>3, ConnectRoutes
  <2> QED BY <1>3, <2>1, <2>4, <2>5
<1>8. ASSUME NEW u \in Workers, NEW r \in Sockets, phase[r] \in {"asked", "left"},
             Answers(r) \cap ToSet(toWorker'[u]) # {}
      PROVE  phase'[r] \in {"asked", "left"}
  <2>1. CASE r # s
    BY <1>6, <1>8, <2>1
  <2>2. CASE r = s
    <3>1. toWorker'[u] = IF u = w THEN Tail(toWorker[w]) ELSE toWorker[u]
      BY <1>1, <1>2
    <3>2. u = w
      <4>1. Answers(s) \cap ToSet(toWorker[u]) # {} => at[s] = u
        BY <1>1, <1>3 DEF TalksOK, TalkOK
      <4> QED BY <1>4, <1>8, <2>2, <3>1, <4>1
    <3>3. Answers(s) \cap ToSet(Tail(toWorker[w])) = {}
      BY <1>1, <1>2, <1>3, <1>4, TailParts
    <3> QED BY <1>8, <2>2, <3>1, <3>2, <3>3
  <2> QED BY <2>1, <2>2
<1>9. ASSUME NEW u \in Workers, NEW r \in Sockets, Claim(r) \in ToSet(toPrimary'[u])
      PROVE  Claim(r) \in ToSet(toPrimary[u])
  <2>1. Message("REGISTER_HOST", s) \in Messages
    BY <1>3, MessageTypes
  <2>2. msgs \in Seq(Messages) /\ ToSet(msgs) = {Message("REGISTER_HOST", s)}
    BY <2>1, Single
  <2>3. Claim(r) \notin ToSet(msgs)
    BY <2>2 DEF Claim, Message
  <2>4. toPrimary' = toPrimary \/ toPrimary' = Sent(w, msgs)
    BY <1>2
  <2> QED BY <1>9, <2>2, <2>3, <2>4, SentParts
<1>10. ASSUME NEW r \in Sockets, phase[r] # "open", phase'[r] = "open" PROVE Settled(r)
  <2>1. r = s /\ at'[s] = w /\ hs'[s] = hs[s]
    BY <1>2, <1>4, <1>6, <1>10
  <2>2. /\ phase[s] = "asked" /\ Answer(s, TRUE) \in ToSet(toWorker[w])
        /\ \A k \in Named(hs[s]) : tab'[w].routes[k] = s
    BY <1>7, <1>10, <2>1
  <2> QED BY <2>1, <2>2 DEF Settled
<1> QED BY <1>8, <1>9, <1>10 DEF Settles

-----------------------------------------------------------------------------
(* The steps of the workers: where labels lead, what the primary is told.  *)

LEMMA LaterOfConcat ==
  ASSUME NEW S, NEW q \in Seq(S), NEW p \in Seq(S), NEW i \in Nat, NEW m, Later(q \o p, i, m)
  PROVE  Later(q, i, m) \/ m \in ToSet(p)
<1>1. /\ Len(q \o p) = Len(q) + Len(p) /\ Len(q) \in Nat /\ Len(p) \in Nat
      /\ \A j \in 1..Len(q) : (q \o p)[j] = q[j]
      /\ \A j \in 1..Len(p) : (q \o p)[Len(q) + j] = p[j]
  BY AtConcat, LenProperties
<1>2. PICK j \in (i + 1)..Len(q \o p) : (q \o p)[j] = m
  BY DEF Later
<1>3. CASE j <= Len(q)
  BY <1>1, <1>2, <1>3 DEF Later
<1>4. CASE j > Len(q)
  <2>1. j - Len(q) \in 1..Len(p) /\ Len(q) + (j - Len(q)) = j
    BY <1>1, <1>2, <1>4
  <2>2. p[j - Len(q)] = m
    BY <1>1, <1>2, <2>1
  <2> QED BY <2>1, <2>2, SetOf
<1> QED BY <1>1, <1>2, <1>3, <1>4

LEMMA LaterOfTail ==
  ASSUME NEW S, NEW q \in Seq(S), q # <<>>, NEW i \in Nat, NEW m, Later(Tail(q), i, m)
  PROVE  Later(q, i + 1, m) /\ Later(q, i, m)
<1>1. /\ Len(q) = Len(Tail(q)) + 1 /\ Len(Tail(q)) \in Nat
      /\ \A j \in 1..Len(Tail(q)) : j + 1 \in 1..Len(q) /\ Tail(q)[j] = q[j + 1]
  BY LaterTail
<1>2. PICK j \in (i + 1)..Len(Tail(q)) : Tail(q)[j] = m
  BY DEF Later
<1>3. /\ j + 1 \in ((i + 1) + 1)..Len(q) /\ j + 1 \in (i + 1)..Len(q)
      /\ q[j + 1] = m
  BY <1>1, <1>2
<1> QED BY <1>3 DEF Later

\* A socket that connects is the only one that the step registers, in the end.
LEMMA Arrival ==
  ASSUME CInv, CInv', OwnHosts, Settles, NEW w \in Workers, NEW msgs, Routing(w, msgs),
         NEW s \in Sockets, phase[s] # "open", phase'[s] = "open"
  PROVE  /\ at'[s] = w /\ hs'[s] \in Handshakes /\ \A k \in Named(hs'[s]) : tab'[w].routes[k] = s
         /\ Len(msgs) > 0 /\ msgs[Len(msgs)] = Reg(s)
<1>1. at'[s] = w /\ hs'[s] \in Handshakes
  BY DEF Routing, CInv, SocketsOK
<1>2. \A k \in Named(hs'[s]) : tab'[w].routes[k] = s
  BY <1>1 DEF Settles, Settled
<1> PICK h : h = hs'[s].host
  OBVIOUS
<1>3. h \in Keys /\ tab'[w].routes[h] = s
  BY <1>1, <1>2, HandshakeParts DEF Named
<1>4. tab[w].routes[h] # s /\ s # None
  BY <1>3, NameClaimsAssumption DEF CInv, RoutesOK
<1>5. Rerouted(w, msgs, h)
  BY <1>3 DEF Routing
<1> QED BY <1>1, <1>2, <1>3, <1>4, <1>5 DEF Rerouted

LEMMA OneArrival ==
  ASSUME CInv, CInv', OwnHosts, Settles, NEW w \in Workers, NEW msgs, Routing(w, msgs)
  PROVE  /\ \A s \in Sockets : Reg(s) \in ToSet(msgs) =>
              /\ phase[s] # "open" /\ phase'[s] = "open"
              /\ Len(msgs) > 0 /\ msgs[Len(msgs)] = Reg(s)
         /\ \A r, s \in Sockets : Reg(r) \in ToSet(msgs) /\ Reg(s) \in ToSet(msgs) => r = s
         /\ \A s \in Sockets : Len(msgs) > 0 /\ msgs[Len(msgs)] = Reg(s) => Reg(s) \in ToSet(msgs)
<1>1. \A s \in Sockets : Reg(s) \in ToSet(msgs) => phase[s] # "open" /\ phase'[s] = "open"
  BY DEF Routing
<1>2. \A s \in Sockets : Reg(s) \in ToSet(msgs) => Len(msgs) > 0 /\ msgs[Len(msgs)] = Reg(s)
  BY <1>1, Arrival
<1>3. \A r, s : Reg(r) = Reg(s) => r = s
  BY DEF Reg, Message
<1>4. msgs \in Seq(Messages) /\ Len(msgs) \in Nat
  BY LenProperties DEF Routing
<1>5. \A s \in Sockets : Len(msgs) > 0 /\ msgs[Len(msgs)] = Reg(s) => Reg(s) \in ToSet(msgs)
  BY <1>4, SetOf
<1> QED BY <1>1, <1>2, <1>3, <1>5

\* It brings the same labels as the socket whose host it takes, if there is one.
LEMMA ArrivalKeys ==
  ASSUME CInv, CInv', OwnHosts, OwnKeys, UnrivalledOK, Settles, NEW w \in Workers, NEW msgs,
         Routing(w, msgs), NEW s \in Sockets, phase[s] # "open", phase'[s] = "open",
         tab[w].routes[hs'[s].host] # None
  PROVE  LET e == tab[w].routes[hs'[s].host] IN
         /\ e \in Sockets /\ phase[e] = "open" /\ at[e] = w
         /\ hs[e].host = hs'[s].host /\ hs[e].keys = hs'[s].keys
<1> PICK e : e = tab[w].routes[hs'[s].host]
  OBVIOUS
<1>1. /\ at'[s] = w /\ hs'[s] \in Handshakes /\ hs'[s].host \in Hosts /\ hs'[s].host \in Keys
  BY Arrival, HandshakeParts
<1>2. e \in Sockets /\ phase[e] = "open" /\ at[e] = w /\ hs'[s].host \in AliasesOf(e)
  BY <1>1 DEF CInv, RoutesOK, AliasesOf
<1>3. hs[e].host = hs'[s].host /\ hs[e] \in Handshakes
  BY <1>1, <1>2, OwnHost DEF CInv, SocketsOK
<1>4. CASE phase[s] = "asked" /\ Answer(s, TRUE) \in ToSet(toWorker[w])
  <2>1. hs'[s] = hs[s]
    BY <1>4 DEF Routing
  <2>2. ~Rivals(e, s)
    BY <1>1, <1>4 DEF UnrivalledOK
  <2> QED BY <1>2, <1>3, <2>1, <2>2 DEF Rivals
<1>5. CASE hs[e].owner = hs'[s].owner
  BY <1>1, <1>2, <1>3, <1>5, SameClient
<1>6. \/ phase[s] = "asked" /\ Answer(s, TRUE) \in ToSet(toWorker[w])
      \/ hs[e].owner = hs'[s].owner
  BY <1>1 DEF Settles, Settled
<1> QED BY <1>4, <1>5, <1>6

LEMMA RoutingTogether ==
  ASSUME CInv, CInv', OwnHosts, OwnKeys, HomesOK, HomesOK', TogetherOK, UnrivalledOK, Settles,
         slots' = slots, NEW w \in Workers, NEW msgs, Routing(w, msgs)
  PROVE  TogetherOK'
<1> SUFFICES ASSUME NEW s \in Sockets, phase'[s] = "open", NEW k \in hs'[s].keys,
                    k # hs'[s].host
             PROVE  tab'[at'[s]].routes[k] = s <=> tab'[at'[s]].routes[hs'[s].host] = s
  BY DEF TogetherOK
<1>1. CASE phase[s] # "open"
  BY <1>1, Arrival DEF Named
<1>2. CASE phase[s] = "open" /\ at[s] # w
  <2>1. hs'[s] = hs[s] /\ at'[s] = at[s] /\ tab'[at[s]] = tab[at[s]]
    BY <1>2 DEF Routing, CInv, SocketsOK
  <2> QED BY <1>2, <2>1 DEF TogetherOK
<1>3. CASE phase[s] = "open" /\ at[s] = w
  <2> PICK g : g = hs[s]
    OBVIOUS
  <2>1. /\ hs'[s] = g /\ at'[s] = w /\ g \in Handshakes
        /\ k \in Keys /\ g.host \in Keys /\ g.host \in Hosts /\ k \in Named(g)
        /\ s # None /\ Home(g.host) = w
    BY <1>3, NamedParts, NameClaimsAssumption DEF Routing, CInv, SocketsOK, HomesOK, Named
  <2>9. k \notin Hosts
    BY <2>1, NamedParts
  <2>2. tab[w].routes[k] = s <=> tab[w].routes[g.host] = s
    BY <1>3, <2>1 DEF TogetherOK
  <2>3. Reg(s) \notin ToSet(msgs) /\ Unreg(s) \notin ToSet(msgs)
    BY <1>3 DEF Routing
  <2>4. ASSUME NEW j \in Keys
        PROVE  tab'[w].routes[j] = s <=>
                 tab[w].routes[j] = s /\ ~\E f \in Sockets : Reg(f) \in ToSet(msgs) /\ tab'[w].routes[j] = f
    <3>1. Rerouted(w, msgs, j)
      BY DEF Routing
    <3> QED BY <2>1, <2>3, <3>1, OneArrival DEF Rerouted
  <2>5. ASSUME NEW f \in Sockets, Reg(f) \in ToSet(msgs), tab[w].routes[k] = s
        PROVE  tab'[w].routes[k] = f <=> tab'[w].routes[g.host] = f
    <3>1. /\ phase'[f] = "open" /\ at'[f] = w /\ hs'[f] \in Handshakes
          /\ phase[f] # "open"
          /\ \A j \in Named(hs'[f]) : tab'[w].routes[j] = f
      BY <2>5, OneArrival, Arrival
    <3>2. Home(hs'[f].host) = w
      BY <3>1 DEF HomesOK, Home
    <3>3. \A j \in Keys : tab'[w].routes[j] = f => j \in Named(hs'[f])
      <4>1. f # None
        BY NameClaimsAssumption
      <4>2. \A j \in Keys : tab'[w].routes[j] = f => j \in Aliases(hs'[f], granted'[f])
        BY <4>1 DEF CInv, RoutesOK
      <4> QED BY <3>1, <4>2, NamedSocketsNext
    <3>4. ASSUME tab'[w].routes[k] = f PROVE tab'[w].routes[g.host] = f
      <4>1. k \in hs'[f].keys
        BY <2>1, <2>9, <3>1, <3>3, <3>4, NamedParts
      <4>2. hs'[f].host = g.host
        BY <2>1, <3>1, <3>2, <4>1, SameHome
      <4> QED BY <3>1, <4>2 DEF Named
    <3>5. ASSUME tab'[w].routes[g.host] = f PROVE tab'[w].routes[k] = f
      <4>1. hs'[f].host = g.host
        BY <2>1, <3>1, <3>3, <3>5, NamedParts
      <4>2. hs'[f].keys = g.keys
        BY <2>1, <2>2, <2>5, <3>1, <4>1, ArrivalKeys
      <4> QED BY <2>1, <3>1, <4>2 DEF Named
    <3> QED BY <3>4, <3>5
  <2> QED BY <2>1, <2>2, <2>4, <2>5
<1> QED BY <1>1, <1>2, <1>3

LEMMA RoutingSaid ==
  ASSUME CInv, CInv', RInv, SaidOK, NEW w \in Workers, NEW msgs, Routing(w, msgs)
  PROVE  SaidOK'
<1> SUFFICES ASSUME NEW u \in Workers, NEW h \in Hosts, tab'[u].routes[h] # None
             PROVE  \E i \in 0..Len(toPrimary'[u]) : LastSaid(u, h, tab[u].routes[h], i)'
  BY DEF SaidOK
<1> PICK s : s = tab'[u].routes[h]
  OBVIOUS
<1> PICK q : q = toPrimary[u]
  OBVIOUS
<1>1. /\ toPrimary \in [Workers -> Seq(Messages)] /\ msgs \in Seq(Messages)
      /\ toPrimary' = [toPrimary EXCEPT ![w] = @ \o msgs] /\ primary' = primary
  BY DEF CInv, TalksOK, Routing, Sent
<1>2. q \in Seq(Messages) /\ Len(q) \in Nat /\ Len(msgs) \in Nat
  BY <1>1, LenProperties
<1>3. toPrimary'[u] = IF u = w THEN q \o msgs ELSE q
  BY <1>1
<1>4. \A t : Reg(t)' = Reg(t)
  BY DEF Reg
<1>5. \A t \in Sockets : Reg(t) \in ToSet(q) => hs'[t] = hs[t]
  BY DEF RInv, SpokenOK, Routing
<1>6. \A i \in Nat : \A m : Later(q, i, m) => m \in ToSet(q)
  BY <1>2, LaterMember
<1>7. ASSUME NEW i \in 0..Len(q), LastSaid(u, h, s, i), u = w => Unmentioned(msgs, h)
      PROVE  i \in 0..Len(toPrimary'[u]) /\ LastSaid(u, h, s, i)'
  <2>1. i \in Nat /\ ~Renewed(u, h, i)
    BY <1>2, <1>7 DEF LastSaid
  <2>2. ~Renewed(u, h, i)'
    <3> SUFFICES ASSUME NEW t \in Sockets, hs'[t].host = h, Later(toPrimary'[u], i, Reg(t))
                 PROVE  FALSE
      BY <1>4 DEF Renewed
    <3>1. Later(q, i, Reg(t)) \/ (u = w /\ Reg(t) \in ToSet(msgs))
      <4>1. CASE u = w
        BY <1>1, <1>2, <1>3, <2>1, <4>1, LaterOfConcat
      <4>2. CASE u # w
        BY <1>3, <4>2
      <4> QED BY <4>1, <4>2
    <3>2. ~Later(q, i, Reg(t))
      BY <1>5, <1>6, <2>1 DEF Renewed
    <3>3. h \notin Aliases(hs'[t], granted'[t])
      BY <1>7, <3>1, <3>2 DEF Unmentioned
    <3> QED BY <3>3 DEF Aliases
  <2>3. /\ i \in 0..Len(toPrimary'[u])
        /\ i # 0 => i \in 1..Len(q) /\ toPrimary'[u][i] = q[i]
    <3>1. CASE u = w
      <4>1. /\ Len(q \o msgs) = Len(q) + Len(msgs)
            /\ \A j \in 1..Len(q) : (q \o msgs)[j] = q[j]
        BY <1>1, <1>2, AtConcat
      <4> QED BY <1>2, <1>3, <3>1, <4>1
    <3>2. CASE u # w
      BY <1>2, <1>3, <3>2
    <3> QED BY <3>1, <3>2
  <2>4. IF i = 0 THEN primary'.hostToWorker[h] = u /\ primary'.sockets[h] = s
                 ELSE toPrimary'[u][i] = Reg(s)
    BY <1>1, <1>7, <2>3 DEF LastSaid
  <2> QED BY <1>4, <2>2, <2>3, <2>4 DEF LastSaid
<1>8. CASE tab[u].routes[h] = s /\ (u = w => Unmentioned(msgs, h))
  <2>1. PICK i \in 0..Len(q) : LastSaid(u, h, s, i)
    BY <1>8 DEF SaidOK
  <2>2. i \in 0..Len(toPrimary'[u]) /\ LastSaid(u, h, s, i)'
    BY <1>7, <1>8, <2>1
  <2> QED BY <2>2 DEF LastSaid
<1>9. CASE u = w /\ Len(msgs) > 0 /\ msgs[Len(msgs)] = Reg(s)
  <2> PICK n : n = Len(q) + Len(msgs)
    OBVIOUS
  <2>1. /\ n \in 0..Len(toPrimary'[u]) /\ toPrimary'[u][n] = Reg(s) /\ n # 0
        /\ Len(toPrimary'[u]) = n /\ n \in Nat
    <3>1. /\ Len(q \o msgs) = Len(q) + Len(msgs)
          /\ \A j \in 1..Len(msgs) : (q \o msgs)[Len(q) + j] = msgs[j]
      BY <1>1, <1>2, AtConcat
    <3> QED BY <1>2, <1>3, <1>9, <3>1
  <2>2. ~Renewed(u, h, n)'
    BY <2>1 DEF Renewed, Later
  <2> QED BY <1>4, <2>1, <2>2 DEF LastSaid
<1>10. \/ tab[u].routes[h] = s /\ (u = w => Unmentioned(msgs, h))
       \/ u = w /\ Len(msgs) > 0 /\ msgs[Len(msgs)] = Reg(s)
  <2>1. h \in Keys
    BY TunnelTablesAssumption
  <2> QED BY <2>1 DEF Routing, Rerouted
<1> QED BY <1>8, <1>9, <1>10

LEMMA RoutingListed ==
  ASSUME ListedOK, slots' = slots, NEW w \in Workers, NEW msgs, Routing(w, msgs)
  PROVE  ListedOK'
<1>1. /\ primary' = primary
      /\ \A s \in Sockets : phase[s] # "new" => phase'[s] # "new" /\ hs'[s] = hs[s] /\ at'[s] = at[s]
      /\ \A h : Home(h)' = Home(h)
  BY DEF Routing, Home
<1> DEFINE Away(k, v) == \E r \in Sockets : phase'[r] # "new" /\ k \in Named(hs'[r]) /\ at'[r] # v
<1>2. \A k, v : Elsewhere(k, v) => Away(k, v)
  BY <1>1 DEF Elsewhere
<1> HIDE DEF Away
<1>3. ASSUME NEW h \in Keys, primary.sockets[h] # None
      PROVE  LET s == primary.sockets[h] IN
             /\ h \in Hosts /\ s \in Sockets /\ phase'[s] # "new" /\ hs'[s].host = h
             /\ primary.hostToWorker[h] = Home(h)
             /\ \A k \in hs'[s].keys :
                  primary.hostToWorker[k] = Home(h) \/ Away(k, Home(h))
  <2> PICK s : s = primary.sockets[h]
    OBVIOUS
  <2>1. /\ h \in Hosts /\ s \in Sockets /\ phase[s] # "new" /\ hs[s].host = h
        /\ primary.hostToWorker[h] = Home(h)
        /\ \A k \in hs[s].keys : primary.hostToWorker[k] = Home(h) \/ Elsewhere(k, Home(h))
    BY <1>3 DEF ListedOK
  <2>2. phase'[s] # "new" /\ hs'[s] = hs[s]
    BY <1>1, <2>1
  <2> QED BY <1>2, <2>1, <2>2
<1>4. ASSUME NEW k \in Keys, primary.hostToWorker[k] # None
      PROVE  \E s \in Sockets : /\ phase'[s] # "new" /\ k \in Named(hs'[s])
                                /\ at'[s] = primary.hostToWorker[k]
                                /\ primary.sockets[hs'[s].host] = s
  <2>1. PICK s \in Sockets : /\ phase[s] # "new" /\ k \in Named(hs[s])
                             /\ at[s] = primary.hostToWorker[k]
                             /\ primary.sockets[hs[s].host] = s
    BY <1>4 DEF ListedOK
  <2> QED BY <1>1, <2>1
<1> QED BY <1>1, <1>3, <1>4 DEF ListedOK, Elsewhere, Away

LEMMA RoutingEpochs ==
  ASSUME CInv, CInv', RInv, OwnHosts, OwnKeys, HomesOK, ListedOK, UnrivalledOK, EpochsOK, Settles,
         NEW w \in Workers, NEW msgs, Routing(w, msgs)
  PROVE  EpochsOK'
<1> SUFFICES ASSUME NEW u \in Workers, NEW i \in 0..Len(toPrimary'[u]),
                    NEW j \in 1..Len(toPrimary'[u]), NEW r \in Sockets, NEW s \in Sockets,
                    i < j, phase'[r] # "new", phase'[s] # "new", hs'[r].host = hs'[s].host,
                    Said(u, i, r)', toPrimary'[u][j] = Reg(s), Stands(u, i, j, r)'
             PROVE  hs'[r].keys = hs'[s].keys
  BY DEF EpochsOK, Reg
<1> PICK q : q = toPrimary[u]
  OBVIOUS
<1> PICK p : p = toPrimary'[u]
  OBVIOUS
<1>1. /\ toPrimary \in [Workers -> Seq(Messages)] /\ msgs \in Seq(Messages)
      /\ toPrimary' = Sent(w, msgs) /\ primary' = primary
  BY DEF CInv, TalksOK, Routing
<1>2. q \in Seq(Messages) /\ Len(q) \in Nat /\ Len(msgs) \in Nat
  BY <1>1, LenProperties
<1>3. /\ Len(p) \in Nat /\ Len(p) >= Len(q) /\ \A l \in 1..Len(q) : p[l] = q[l]
      /\ \A l \in 1..Len(p) : l > Len(q) => u = w /\ p[l] \in ToSet(msgs)
  <2>1. CASE u # w
    <3>1. p = q
      BY <1>1, <2>1, SentParts
    <3> QED BY <1>2, <3>1
  <2>2. CASE u = w
    <3>1. p = q \o msgs
      BY <1>1, <2>2, SentParts
    <3>0. msgs \in Seq(Messages)
      BY <1>1
    <3>2. /\ Len(p) = Len(q) + Len(msgs) /\ \A l \in 1..Len(q) : p[l] = q[l]
          /\ \A l \in 1..Len(msgs) : p[Len(q) + l] = msgs[l]
      BY <1>2, <3>0, <3>1, AtConcat
    <3>3. ASSUME NEW l \in 1..Len(p), l > Len(q) PROVE p[l] \in ToSet(msgs)
      <4>1. l - Len(q) \in 1..Len(msgs) /\ Len(q) + (l - Len(q)) = l
        BY <1>2, <3>2, <3>3
      <4>2. msgs[l - Len(q)] \in ToSet(msgs)
        BY <3>0, <4>1, SetOf
      <4> QED BY <3>2, <4>1, <4>2
    <3> QED BY <1>2, <2>2, <3>2, <3>3
  <2> QED BY <2>1, <2>2
<1>4. \A l \in 1..Len(q), t \in Sockets : q[l] \in {Reg(t), Unreg(t)} => phase[t] # "new"
  <2>1. \A l \in 1..Len(q) : q[l] \in ToSet(q)
    BY <1>2, SetOf
  <2> QED BY <2>1 DEF RInv, SpokenOK
<1>5. \A t \in Sockets : phase[t] # "new" => hs'[t] = hs[t] /\ at'[t] = at[t]
  BY DEF Routing
<1>6. CASE i > Len(q)
  <2>1. j > Len(q) /\ i # 0 /\ i \in 1..Len(p)
    BY <1>2, <1>6
  <2>2. p[i] = Reg(r) /\ p[j] = Reg(s)
    BY <2>1 DEF Said, Reg
  <2>3. Reg(r) \in ToSet(msgs) /\ Reg(s) \in ToSet(msgs)
    BY <1>3, <1>6, <2>1, <2>2
  <2> QED BY <2>3, OneArrival
<1>7. CASE i <= Len(q)
  <2>1. phase[r] # "new"
    <3>1. CASE i = 0
      <4>1. primary.sockets[hs'[r].host] = r /\ r # None
        BY <1>1, <3>1, NameClaimsAssumption DEF Said
      <4>2. hs'[r].host \in Keys
        BY HandshakeParts DEF CInv, SocketsOK
      <4> QED BY <4>1, <4>2 DEF ListedOK
    <3>2. CASE i # 0
      <4>1. i \in 1..Len(q) /\ p[i] = Reg(r)
        BY <1>2, <1>7, <3>2 DEF Said, Reg
      <4> QED BY <1>3, <1>4, <4>1
    <3> QED BY <3>1, <3>2
  <2>2. hs'[r] = hs[r] /\ at'[r] = at[r]
    BY <1>5, <2>1
  <2>3. Said(u, i, r)
    BY <1>1, <1>2, <1>3, <1>7, <2>2 DEF Said, Reg
  <2>4. \A l \in (i + 1)..(j - 1) : l \in 1..Len(q) =>
          /\ q[l] # Unreg(r) /\ \A t \in Sockets : q[l] = Reg(t) => hs[t].host # hs[r].host
    <3>1. \A l \in (i + 1)..(j - 1) :
            /\ p[l] # Unreg(r) /\ \A t \in Sockets : p[l] = Reg(t) => hs'[t].host # hs'[r].host
      BY DEF Stands, Reg, Unreg
    <3> QED BY <1>3, <1>4, <1>5, <2>2, <3>1
  <2>5. CASE j <= Len(q)
    <3>1. j \in 1..Len(q) /\ i \in 0..Len(q)
      BY <1>2, <1>7, <2>5
    <3>2. q[j] = Reg(s) /\ phase[s] # "new"
      BY <1>3, <1>4, <3>1
    <3>3. Stands(u, i, j, r)
      <4>1. (i + 1)..(j - 1) \subseteq 1..Len(q)
        BY <1>2, <3>1
      <4> QED BY <2>4, <4>1 DEF Stands
    <3>4. hs'[s] = hs[s]
      BY <1>5, <3>2
    <3> QED BY <2>1, <2>2, <2>3, <3>1, <3>2, <3>3, <3>4 DEF EpochsOK
  <2>6. CASE j > Len(q)
    <3> PICK h : h = hs[r].host
      OBVIOUS
    <3>1. /\ u = w /\ phase[s] # "open" /\ phase'[s] = "open"
      BY <1>3, <2>6, OneArrival
    <3>2. \A l \in (i + 1)..Len(q) :
            /\ q[l] # Unreg(r) /\ \A t \in Sockets : q[l] = Reg(t) => hs[t].host # h
      <4>1. (i + 1)..Len(q) \subseteq (i + 1)..(j - 1) /\ (i + 1)..Len(q) \subseteq 1..Len(q)
        BY <1>2, <2>6
      <4> QED BY <2>4, <4>1
    <3>3. ~Renewed(w, h, i) /\ ~Later(toPrimary[w], i, Unreg(r))
      BY <3>1, <3>2 DEF Renewed, Later
    <3>4. h \in Hosts /\ status[w] = "up"
      BY <2>1, HandshakeParts DEF CInv, SocketsOK, Routing
    <3>5. Kept(w, h, r, i)
      <4>1. CASE i = 0
        <5>1. primary.sockets[h] = r /\ at[r] = w /\ r # None /\ h \in Keys
          BY <2>3, <3>1, <3>4, <4>1, NameClaimsAssumption, TunnelTablesAssumption DEF Said
        <5>2. primary.hostToWorker[h] = w
          BY <2>1, <5>1 DEF ListedOK, HomesOK
        <5> QED BY <3>3, <3>4, <4>1, <5>1, <5>2 DEF RInv, EntriesOK
      <4>2. CASE i # 0
        <5>1. i \in 1..Len(q) /\ q[i] = Reg(r)
          BY <1>2, <1>7, <2>3, <4>2 DEF Said
        <5> QED BY <3>1, <3>3, <3>4, <5>1 DEF RInv, RegsOK
      <4> QED BY <4>1, <4>2
    <3>6. tab[w].routes[hs'[s].host] = r /\ r # None
      BY <2>2, <3>3, <3>5, NameClaimsAssumption DEF Kept
    <3> QED BY <2>2, <3>1, <3>6, ArrivalKeys
  <2> QED BY <1>2, <1>3, <2>5, <2>6
<1> QED BY <1>2, <1>3, <1>6, <1>7

-----------------------------------------------------------------------------
(* Who competes for a host, and what the workers do about it.              *)

\* A name rests on one socket at most.
LEMMA RestsOnce ==
  ASSUME NEW h, NEW x, NEW y, NEW c, NEW d, RestsFor(h, x, c), RestsFor(h, y, d)
  PROVE  x = y /\ c = d
BY DEF RestsFor, Resting

\* What a durable client was granted is still his.
LEMMA GrantedRests ==
  ASSUME CInv, ContestOK, NEW w \in Workers, NEW s \in Sockets,
         Answer(s, TRUE) \in ToSet(toWorker[w]), NameOf[hs[s].host] # None,
         hs[s].owner \notin EphemeralOwners
  PROVE  \E x \in Sockets : /\ RestsFor(hs[s].host, x, hs[s].owner)
                            /\ phase[x] \in {"asked", "left"} /\ at[x] = w
<1>1. toWorker[w] \in Seq(Messages)
  BY DEF CInv, TalksOK
<1> PICK q : q = toWorker[w]
  OBVIOUS
<1>2. PICK i \in 1..Len(q) : q[i] = Answer(s, TRUE)
  BY <1>1, SetOf
<1>3. PICK j \in i..Len(q), x \in Sockets :
        q[j] = Answer(x, TRUE) /\ RestsFor(hs[s].host, x, hs[s].owner)
  BY <1>2 DEF ContestOK, GrantedOK
<1>4. Answer(x, TRUE) \in ToSet(q)
  <2>1. j \in 1..Len(q)
    BY <1>2
  <2> QED BY <1>1, <1>3, <2>1, SetOf
<1>5. Answers(x) \cap ToSet(toWorker[w]) # {}
  BY <1>4 DEF Answers
<1>6. phase[x] \in {"asked", "left"} /\ at[x] = w
  BY <1>5 DEF ContestOK, WaitingOK, CInv, TalksOK, TalkOK
<1> QED BY <1>3, <1>6

\* So the answers to rivals do not meet.
LEMMA AnsweredAlone ==
  ASSUME CInv, ContestOK, OwnHosts, OwnKeys, NEW w \in Workers, NEW r \in Sockets, NEW s \in Sockets,
         Answer(r, TRUE) \in ToSet(toWorker[w]), Answer(s, TRUE) \in ToSet(toWorker[w])
  PROVE  ~Rivals(r, s)
<1> SUFFICES ASSUME Rivals(r, s) PROVE FALSE
  OBVIOUS
<1>1. \A t \in Sockets : Answer(t, TRUE) \in ToSet(toWorker[w]) => phase[t] # "new"
  BY DEF Answers, CInv, TalksOK, TalkOK
<1>2. /\ hs[r].owner # hs[s].owner /\ {hs[r].owner, hs[s].owner} \cap EphemeralOwners = {}
      /\ NameOf[hs[r].host] # None /\ hs[r].host = hs[s].host
  BY <1>1, RivalParts DEF Rivals
<1>3. PICK x \in Sockets : RestsFor(hs[r].host, x, hs[r].owner)
  BY <1>2, GrantedRests
<1>4. PICK y \in Sockets : RestsFor(hs[r].host, y, hs[s].owner)
  BY <1>2, GrantedRests
<1> QED BY <1>2, <1>3, <1>4, RestsOnce

\* A step of worker w leaves the answers that are under way in order.
LEMMA AnswersShift ==
  ASSUME CInv, NEW w \in Workers, NEW msgs, Routing(w, msgs), NEW u \in Workers
  PROVE  \E d \in {0, 1} :
           /\ Len(toWorker[u]) = Len(toWorker'[u]) + d /\ Len(toWorker'[u]) \in Nat
           /\ \A i \in 1..Len(toWorker'[u]) : toWorker'[u][i] = toWorker[u][i + d]
           /\ ToSet(toWorker'[u]) \subseteq ToSet(toWorker[u])
<1> PICK q : q = toWorker[u]
  OBVIOUS
<1>1. q \in Seq(Messages) /\ Len(q) \in Nat /\ toWorker \in [Workers -> Seq(Messages)]
  BY LenProperties DEF CInv, TalksOK
<1>2. CASE toWorker'[u] = q
  BY <1>1, <1>2
<1>3. CASE toWorker'[u] = Tail(q) /\ q # <<>>
  <2>1. /\ Len(q) = Len(Tail(q)) + 1 /\ Len(Tail(q)) \in Nat
        /\ \A i \in 1..Len(Tail(q)) : Tail(q)[i] = q[i + 1]
    BY <1>1, <1>3, LaterTail
  <2>2. ToSet(Tail(q)) \subseteq ToSet(q)
    BY <1>1, <1>3, TailParts
  <2> QED BY <1>3, <2>1, <2>2
<1>4. CASE toWorker'[u] = Tail(q) /\ q = <<>>
  <2>1. Tail(q) = q
    BY <1>4
  <2> QED BY <1>2, <1>4, <2>1
<1>5. toWorker'[u] = q \/ toWorker'[u] = Tail(q)
  BY <1>1 DEF Routing
<1> QED BY <1>2, <1>3, <1>4, <1>5

LEMMA RoutingWaits ==
  ASSUME CInv, ContestOK, Settles, NEW w \in Workers, NEW msgs, Routing(w, msgs)
  PROVE  WaitingOK' /\ GrantedOK'
<1>1. ASSUME NEW u \in Workers, NEW s \in Sockets, Answers(s) \cap ToSet(toWorker'[u]) # {}
      PROVE  phase[s] \in {"asked", "left"} /\ phase'[s] \in {"asked", "left"}
  <2>1. Answers(s) \cap ToSet(toWorker[u]) # {}
    BY <1>1, AnswersShift
  <2> QED BY <1>1, <2>1 DEF ContestOK, WaitingOK, Settles
<1>2. WaitingOK'
  BY <1>1 DEF WaitingOK, Answers, Answer
<1>3. /\ \A s, ok : Answer(s, ok)' = Answer(s, ok)
      /\ primary' = primary
      /\ \A s \in Sockets : phase[s] # "new" => hs'[s] = hs[s]
  BY DEF Answer, Routing
<1>4. ASSUME NEW u \in Workers, NEW i \in 1..Len(toWorker'[u]), NEW s \in Sockets,
             toWorker'[u][i] = Answer(s, TRUE), NameOf[hs'[s].host] # None,
             hs'[s].owner \notin EphemeralOwners
      PROVE  \E j \in i..Len(toWorker'[u]), x \in Sockets :
               /\ toWorker'[u][j] = Answer(x, TRUE) /\ hs'[x] = hs[x] /\ hs'[s] = hs[s]
               /\ RestsFor(hs[s].host, x, hs[s].owner)
  <2> PICK p, q : p = toWorker'[u] /\ q = toWorker[u]
    OBVIOUS
  <2>1. PICK d \in {0, 1} : /\ Len(q) = Len(p) + d /\ Len(p) \in Nat
                            /\ \A l \in 1..Len(p) : p[l] = q[l + d]
    BY AnswersShift
  <2>2. q \in Seq(Messages)
    BY DEF CInv, TalksOK
  <2>3. \A l \in 1..Len(q), t \in Sockets : q[l] = Answer(t, TRUE) => phase[t] # "new"
    <3>1. \A l \in 1..Len(q) : q[l] \in ToSet(q)
      BY <2>2, SetOf
    <3> QED BY <3>1 DEF Answers, CInv, TalksOK, TalkOK
  <2>4. i + d \in 1..Len(q) /\ q[i + d] = Answer(s, TRUE)
    <3>1. i \in 1..Len(p) /\ p[i] = Answer(s, TRUE)
      BY <1>4
    <3>2. p[i] = q[i + d]
      BY <2>1, <3>1
    <3>3. i + d \in 1..Len(q)
      <4>1. Len(q) = Len(p) + d /\ Len(p) \in Nat /\ d \in Nat
        BY <2>1
      <4> QED BY <3>1, <4>1
    <3> QED BY <3>1, <3>2, <3>3
  <2>5. hs'[s] = hs[s]
    BY <1>3, <2>3, <2>4
  <2>6. PICK k \in (i + d)..Len(q), x \in Sockets :
          q[k] = Answer(x, TRUE) /\ RestsFor(hs[s].host, x, hs[s].owner)
    BY <1>4, <2>4, <2>5 DEF ContestOK, GrantedOK
  <2>7. k - d \in i..Len(p) /\ k - d \in 1..Len(p) /\ (k - d) + d = k /\ k \in 1..Len(q)
    BY <2>1, <2>4, <2>6
  <2>8. p[k - d] = Answer(x, TRUE)
    BY <2>1, <2>6, <2>7
  <2>9. hs'[x] = hs[x]
    BY <1>3, <2>3, <2>6, <2>7
  <2> QED BY <2>5, <2>6, <2>7, <2>8, <2>9
<1>5. GrantedOK'
  <2> SUFFICES ASSUME NEW u \in Workers, NEW i \in 1..Len(toWorker'[u]), NEW s \in Sockets,
                      toWorker'[u][i] = Answer(s, TRUE), NameOf[hs'[s].host] # None,
                      hs'[s].owner \notin EphemeralOwners
               PROVE  \E j \in i..Len(toWorker'[u]), x \in Sockets :
                        toWorker'[u][j] = Answer(x, TRUE) /\ RestsFor(hs[s].host, x, hs[s].owner)'
    BY <1>3 DEF GrantedOK
  <2>1. PICK j \in i..Len(toWorker'[u]), x \in Sockets :
          /\ toWorker'[u][j] = Answer(x, TRUE) /\ hs'[x] = hs[x] /\ hs'[s] = hs[s]
          /\ RestsFor(hs[s].host, x, hs[s].owner)
    BY <1>4
  <2>2. RestsFor(hs[s].host, x, hs[s].owner)'
    BY <1>3, <2>1 DEF RestsFor, Resting
  <2> QED BY <2>1, <2>2
<1> QED BY <1>2, <1>5

\* Socket f waits at worker u, and is granted what it asked for.
MaySettle(f, u) == phase[f] = "asked" /\ Answer(f, TRUE) \in ToSet(toWorker[u])

\* Who competes for a host after a step of worker w competed before it, with the socket
\* that had the host for the same client, or with one whose answer has just arrived.
LEMMA Succession ==
  ASSUME CInv, CInv', OwnHosts, OwnKeys, Settles, NEW w \in Workers, NEW msgs, Routing(w, msgs),
         NEW u \in Workers, NEW h \in Hosts, NEW f, f = tab'[u].routes[h], f # None,
         NEW r \in Sockets, phase[r] # "new", Rivals(f, r)'
  PROVE  \/ \E e \in Sockets : /\ e = tab[u].routes[h] /\ phase[e] # "new"
                               /\ Rivals(e, r) /\ hs[e].owner = hs'[f].owner
         \/ f \in Sockets /\ MaySettle(f, u) /\ Rivals(f, r) /\ hs'[f].owner = hs[f].owner
<1> PICK e : e = tab[u].routes[h]
  OBVIOUS
<1>1. /\ h \in Keys /\ hs'[r] = hs[r]
      /\ hs'[f].host = hs'[r].host /\ hs'[f].keys # hs'[r].keys
  BY TunnelTablesAssumption DEF Routing, Rivals
<1>2. f \in Sockets /\ phase'[f] = "open" /\ at'[f] = u /\ hs'[f] \in Handshakes /\ hs'[f].host = h
  <2>1. f \in Sockets /\ phase'[f] = "open" /\ at'[f] = u /\ h \in Aliases(hs'[f], granted'[f])
    BY <1>1 DEF CInv, RoutesOK
  <2>2. hs'[f] \in Handshakes /\ h \in Named(hs'[f])
    BY <2>1, NamedSocketsNext
  <2> QED BY <2>1, <2>2, NamedParts
<1>3. CASE phase[f] = "open"
  <2>1. hs'[f] = hs[f] /\ at[f] = u
    BY <1>2, <1>3 DEF Routing
  <2>2. Reg(f) \notin ToSet(msgs)
    BY <1>2, <1>3 DEF Routing
  <2>3. e = f
    <3>1. CASE u = w
      <4>1. Rerouted(w, msgs, h)
        BY <1>1 DEF Routing
      <4> QED BY <1>2, <2>2, <3>1, <4>1, OneArrival DEF Rerouted
    <3>2. CASE u # w
      BY <3>2 DEF Routing
    <3> QED BY <3>1, <3>2
  <2> QED BY <1>1, <1>2, <1>3, <2>1, <2>3 DEF Rivals
<1>4. CASE phase[f] # "open"
  <2>1. Settled(f) /\ u = w
    BY <1>2, <1>4 DEF Settles, Routing
  <2>2. CASE phase[f] = "asked" /\ Answer(f, TRUE) \in ToSet(toWorker[u])
    <3>1. hs'[f] = hs[f]
      BY <2>2, <1>2 DEF Routing
    <3> QED BY <1>1, <1>2, <2>2, <3>1 DEF Rivals, MaySettle
  <2>3. CASE e # None /\ hs[e].owner = hs'[f].owner
    <3>1. e \in Sockets /\ phase[e] = "open" /\ h \in AliasesOf(e)
      BY <1>1, <2>3 DEF CInv, RoutesOK, AliasesOf
    <3>2. hs[e].host = h /\ hs[e] \in Handshakes
      BY <3>1, OwnHost DEF CInv, SocketsOK
    <3>3. hs[e].keys = hs'[f].keys
      BY <1>2, <2>3, <3>2, SameClient
    <3> QED BY <1>1, <1>2, <2>3, <3>1, <3>2, <3>3 DEF Rivals
  <2> QED BY <1>2, <2>1, <2>2, <2>3 DEF Settled
<1> QED BY <1>3, <1>4

LEMMA RoutingContest ==
  ASSUME CInv, CInv', OwnHosts, OwnKeys, ContestOK, Settles,
         NEW w \in Workers, NEW msgs, Routing(w, msgs)
  PROVE  ContestOK'
<1>1. /\ UNCHANGED primary /\ \A s, ok : Answer(s, ok)' = Answer(s, ok)
      /\ \A s : Claim(s)' = Claim(s) /\ Release(s)' = Release(s)
      /\ \A s \in Sockets : phase[s] # "new" => hs'[s] = hs[s]
      /\ msgs \in Seq(Messages) /\ toPrimary' = Sent(w, msgs)
  BY DEF Answer, Claim, Release, Message, Routing
<1>2. UnrivalledOK'
  <2> SUFFICES ASSUME NEW u \in Workers, NEW h \in Hosts, tab'[u].routes[h] # None,
                      NEW r \in Sockets, Answer(r, TRUE) \in ToSet(toWorker'[u]),
                      hs'[tab'[u].routes[h]].host = hs'[r].host,
                      hs'[tab'[u].routes[h]].keys # hs'[r].keys
               PROVE  FALSE
    BY <1>1 DEF UnrivalledOK, Rivals
  <2>1. Answer(r, TRUE) \in ToSet(toWorker[u])
    BY AnswersShift
  <2>2. phase[r] # "new"
    BY <2>1 DEF Answers, CInv, TalksOK, TalkOK
  <2> PICK f : f = tab'[u].routes[h]
    OBVIOUS
  <2>3. f # None /\ Rivals(f, r)'
    BY DEF Rivals
  <2>4. \/ \E e \in Sockets : e = tab[u].routes[h] /\ Rivals(e, r)
        \/ f \in Sockets /\ MaySettle(f, u) /\ Rivals(f, r)
    BY <2>2, <2>3, Succession
  <2>5. ~\E e \in Sockets : e = tab[u].routes[h] /\ Rivals(e, r)
    BY <2>1, NameClaimsAssumption DEF ContestOK, UnrivalledOK
  <2>6. ~(f \in Sockets /\ MaySettle(f, u) /\ Rivals(f, r))
    BY <2>1, AnsweredAlone DEF MaySettle
  <2> QED BY <2>4, <2>5, <2>6
<1>3. BarredOK'
  <2> SUFFICES ASSUME NEW u \in Workers, NEW h \in Hosts, tab'[u].routes[h] # None,
                      NEW r \in Sockets, NEW j \in 1..Len(toPrimary'[u]),
                      toPrimary'[u][j] = Claim(r),
                      hs'[tab'[u].routes[h]].host = hs'[r].host,
                      hs'[tab'[u].routes[h]].keys # hs'[r].keys
               PROVE  \E x \in Sockets :
                        /\ RestsFor(h, x, hs[tab[u].routes[h]].owner)'
                        /\ \A i \in 1..(j - 1) : toPrimary'[u][i] # Release(x)
    BY <1>1 DEF BarredOK, Rivals
  <2> PICK f : f = tab'[u].routes[h]
    OBVIOUS
  <2> PICK q : q = toPrimary[u]
    OBVIOUS
  <2> PICK p : p = toPrimary'[u]
    OBVIOUS
  <2>1. q \in Seq(Messages) /\ Len(q) \in Nat /\ p \in Seq(Messages) /\ Len(p) \in Nat
    BY LenProperties DEF CInv, TalksOK
  <2>2. Len(p) >= Len(q) /\ \A l \in 1..Len(q) : p[l] = q[l]
    <3>1. CASE u # w
      BY <1>1, <2>1, <3>1, SentParts
    <3>2. CASE u = w
      <4>1. p = q \o msgs
        BY <1>1, <3>2, SentParts
      <4>2. msgs \in Seq(Messages) /\ Len(msgs) \in Nat
        BY <1>1, LenProperties
      <4>3. Len(q \o msgs) = Len(q) + Len(msgs) /\ \A l \in 1..Len(q) : (q \o msgs)[l] = q[l]
        BY <2>1, <4>2, AtConcat
      <4> QED BY <2>1, <4>1, <4>2, <4>3
    <3> QED BY <3>1, <3>2
  <2>3. f \in Sockets /\ hs'[f].host = h
    <3>1. h \in Keys
      BY TunnelTablesAssumption
    <3>2. f \in Sockets /\ phase'[f] = "open" /\ h \in Aliases(hs'[f], granted'[f])
      BY <3>1 DEF CInv, RoutesOK
    <3>3. hs'[f] \in Handshakes /\ h \in Named(hs'[f])
      BY <3>2, NamedSocketsNext
    <3> QED BY <3>2, <3>3, NamedParts
  <2>4. Claim(r) \in ToSet(q)
    <3>1. Claim(r) \in ToSet(p)
      BY <2>1, SetOf
    <3> QED BY <2>3, <3>1 DEF Settles
  <2>5. j \in 1..Len(q) /\ q[j] = Claim(r)
    <3>1. PICK k \in 1..Len(q) : q[k] = Claim(r)
      BY <2>1, <2>4, SetOf
    <3>2. k \in 1..Len(p) /\ p[k] = Claim(r)
      BY <2>1, <2>2, <3>1
    <3>3. Once(p, {Claim(r)})
      BY <1>1 DEF CInv, TalksOK, TalkOK
    <3>4. j = k
      BY <3>2, <3>3 DEF Once
    <3> QED BY <3>1, <3>4
  <2>6. phase[r] # "new"
    BY <2>4 DEF CInv, TalksOK, TalkOK
  <2>7. ASSUME NEW x \in Sockets, RestsFor(h, x, hs'[f].owner), phase[x] # "new",
               \A i \in 1..(j - 1) : q[i] # Release(x)
        PROVE  /\ RestsFor(h, x, hs[tab[u].routes[h]].owner)'
               /\ \A i \in 1..(j - 1) : p[i] # Release(x)
    <3>1. \A i \in 1..(j - 1) : i \in 1..Len(q)
      BY <2>1, <2>5
    <3>2. hs'[x] = hs[x]
      BY <1>1, <2>7
    <3>3. RestsFor(h, x, hs[tab[u].routes[h]].owner)'
      BY <1>1, <2>7, <3>2 DEF RestsFor, Resting
    <3> QED BY <2>2, <2>7, <3>1, <3>3
  <2>8. CASE \E e \in Sockets : /\ e = tab[u].routes[h] /\ phase[e] # "new"
                                /\ Rivals(e, r) /\ hs[e].owner = hs'[f].owner
    <3>0. PICK e \in Sockets : /\ e = tab[u].routes[h] /\ phase[e] # "new"
                               /\ Rivals(e, r) /\ hs[e].owner = hs'[f].owner
      BY <2>8
    <3>1. e # None
      BY <2>8, NameClaimsAssumption
    <3>2. PICK x \in Sockets : /\ RestsFor(h, x, hs[e].owner)
                               /\ \A i \in 1..(j - 1) : q[i] # Release(x)
      BY <2>5, <3>0, <3>1 DEF ContestOK, BarredOK
    <3>3. hs[e].host = h /\ NameOf[h] \in Names
      <4>1. hs'[r] = hs[r]
        BY <1>1, <2>6
      <4> QED BY <2>3, <2>6, <3>0, <4>1, RivalParts DEF Rivals
    <3>4. phase[x] # "new"
      BY <3>2, <3>3 DEF RestsFor, CInv, RestsOK
    <3> QED BY <2>7, <3>0, <3>2, <3>4
  <2>9. CASE f \in Sockets /\ MaySettle(f, u) /\ Rivals(f, r) /\ hs'[f].owner = hs[f].owner
    <3>0. /\ hs'[f] = hs[f] /\ phase[f] = "asked"
          /\ Answer(f, TRUE) \in ToSet(toWorker[u])
      BY <1>1, <2>9 DEF MaySettle
    <3>1. NameOf[h] # None /\ hs[f].owner \notin EphemeralOwners /\ hs[f].host = h
      BY <2>3, <2>6, <2>9, <3>0, RivalParts
    <3>2. PICK x \in Sockets : RestsFor(h, x, hs[f].owner) /\ phase[x] \in {"asked", "left"}
      <4>1. NameOf[hs[f].host] # None
        BY <3>1
      <4>2. \E x \in Sockets : /\ RestsFor(hs[f].host, x, hs[f].owner)
                               /\ phase[x] \in {"asked", "left"} /\ at[x] = u
        BY <2>3, <2>9, <3>0, <3>1, <4>1, GrantedRests
      <4> QED BY <3>1, <4>2
    <3>3. \A i \in 1..(j - 1) : q[i] # Release(x)
      <4>1. Release(x) \notin ToSet(q)
        BY <3>2 DEF CInv, TalksOK, TalkOK
      <4>2. \A i \in 1..(j - 1) : i \in 1..Len(q)
        BY <2>1, <2>5
      <4> QED BY <2>1, <4>1, <4>2, SetOf
    <3> QED BY <2>7, <2>9, <3>2, <3>3
  <2>10. f # None /\ Rivals(f, r)'
    BY DEF Rivals
  <2> QED BY <2>6, <2>8, <2>9, <2>10, Succession
<1> QED BY <1>2, <1>3, RoutingWaits DEF ContestOK

-----------------------------------------------------------------------------
(* What the primary hears.                                                 *)

\* What it answers, if it answers to claims only.
LEMMA UsualAnswered ==
  ASSUME CInv, UsualOK, NEW w \in Workers, NEW p, NEW msgs \in [Workers -> Seq(Messages)],
         toPrimary[w] # <<>>, Handled(w, p, msgs),
         \A v \in Workers : \A m \in ToSet(msgs[v]) : m.type = "CLAIM_HOSTS_RES"
  PROVE  UsualOK'
<1>1. toPrimary \in [Workers -> Seq(Messages)] /\ toWorker \in [Workers -> Seq(Messages)]
  BY DEF CInv, TalksOK
<1>2. ASSUME NEW u \in Workers, NEW m \in ToSet(toPrimary'[u]) PROVE m.type \in Usual
  <2>1. toPrimary'[u] = IF u = w THEN Tail(toPrimary[w]) ELSE toPrimary[u]
    BY <1>1 DEF Handled
  <2>2. ToSet(Tail(toPrimary[w])) \subseteq ToSet(toPrimary[w])
    BY <1>1, TailParts
  <2> QED BY <1>2, <2>1, <2>2 DEF UsualOK
<1>3. ASSUME NEW u \in Workers, NEW m \in ToSet(toWorker'[u]) PROVE m.type = "CLAIM_HOSTS_RES"
  <2>1. toWorker'[u] = toWorker[u] \/ toWorker'[u] = toWorker[u] \o msgs[u]
    BY DEF Handled
  <2>2. ToSet(toWorker[u] \o msgs[u]) = ToSet(toWorker[u]) \cup ToSet(msgs[u])
    BY <1>1, SetOfConcat
  <2> QED BY <1>3, <2>1, <2>2 DEF UsualOK
<1> QED BY <1>2, <1>3 DEF UsualOK

LEMMA UsualAnswers ==
  /\ Nothing \in [Workers -> Seq(Messages)]
  /\ \A v \in Workers : \A m \in ToSet(Nothing[v]) : m.type = "CLAIM_HOSTS_RES"
  /\ \A w \in Workers, s \in Sockets, ok \in BOOLEAN :
       /\ Reply(w, s, ok) \in [Workers -> Seq(Messages)]
       /\ \A v \in Workers : \A m \in ToSet(Reply(w, s, ok)[v]) : m.type = "CLAIM_HOSTS_RES"
<1>1. <<>> \in Seq(Messages) /\ ToSet(<<>>) = {}
  BY Empty
<1>2. /\ Nothing \in [Workers -> Seq(Messages)]
      /\ \A v \in Workers : \A m \in ToSet(Nothing[v]) : m.type = "CLAIM_HOSTS_RES"
  BY <1>1 DEF Nothing
<1>3. ASSUME NEW w \in Workers, NEW s \in Sockets, NEW ok \in BOOLEAN
      PROVE  /\ Reply(w, s, ok) \in [Workers -> Seq(Messages)]
             /\ \A v \in Workers : \A m \in ToSet(Reply(w, s, ok)[v]) : m.type = "CLAIM_HOSTS_RES"
  <2> DEFINE a == Answer(s, ok)
  <2>1. a \in Messages /\ a.type = "CLAIM_HOSTS_RES"
    BY MessageTypes DEF Answer
  <2>2. Reply(w, s, ok) = [Nothing EXCEPT ![w] = <<a>>]
    BY DEF Reply, Answer
  <2> HIDE DEF a
  <2>3. PICK one : one = <<a>> /\ one \in Seq(Messages) /\ ToSet(one) = {a}
    BY <2>1, Single
  <2>4. \A v \in Workers : Reply(w, s, ok)[v] = IF v = w THEN one ELSE Nothing[v]
    BY <1>2, <2>2, <2>3
  <2>5. Reply(w, s, ok) \in [Workers -> Seq(Messages)]
    BY <1>2, <2>2, <2>3
  <2> QED BY <1>2, <2>1, <2>3, <2>4, <2>5
<1> QED BY <1>2, <1>3

\* The primary lists every key where it did.
SameLists ==
  \A k \in Keys : /\ primary'.hostToWorker[k] = primary.hostToWorker[k]
                  /\ primary'.sockets[k] = primary.sockets[k]

\* Worker w said that s connected, or that s has gone, and the primary believes it.
Enlists(w, s) ==
  \A k \in Keys :
    /\ primary'.hostToWorker[k] = IF k \in AliasesOf(s) THEN w ELSE primary.hostToWorker[k]
    /\ primary'.sockets[k] = IF k = hs[s].host THEN s ELSE primary.sockets[k]

Strikes(w, s) ==
  \A k \in Keys :
    /\ primary'.hostToWorker[k] = IF k \in AliasesOf(s) /\ primary.hostToWorker[k] = w
                                    THEN None ELSE primary.hostToWorker[k]
    /\ primary'.sockets[k] = IF k = hs[s].host THEN None ELSE primary.sockets[k]

LEMMA Hears ==
  ASSUME CInv, UsualOK, NEW w \in Workers, Receive(w)
  PROVE  /\ Taken(w) /\ slots' = slots /\ UsualOK'
         /\ \/ \E s \in Sockets : Head(toPrimary[w]) = Reg(s) /\ Enlists(w, s)
            \/ \E s \in Sockets : /\ Head(toPrimary[w]) = Unreg(s)
                                  /\ IF primary.sockets[hs[s].host] \in {None, s}
                                       THEN Strikes(w, s) ELSE SameLists
            \/ /\ SameLists
               /\ \A s \in Sockets : Head(toPrimary[w]) \notin {Reg(s), Unreg(s)}
<1> PICK s : s = Arg(w)
  OBVIOUS
<1> PICK m : m = Head(toPrimary[w])
  OBVIOUS
<1>1. toPrimary[w] # <<>> /\ m.type \in Usual
  <2>1. toPrimary[w] # <<>>
    BY DEF Receive, OnRegister, OnUnregister, OnClaim, OnRelease, OnForget, OnDisconnect, Next1
  <2> QED BY <2>1, NextMessage DEF UsualOK
<1>2. m \in Messages
  BY <1>1, NextMessage
<1>3. s \in Sockets /\ m = Message(m.type, s)
  BY <1>1, <1>2, MessageArgs DEF Arg, Usual
<1>4. /\ DOMAIN primary = Fields /\ primary.sockets = [k \in Keys |-> primary.sockets[k]]
  BY DEF CInv, Shape
<1>5. CASE OnRegister(w)
  <2> PICK p : p = Register(primary, w, s, hs[s], granted[s])
    OBVIOUS
  <2>1. Handled(w, p, Nothing) /\ m = Reg(s)
    BY <1>3, <1>5 DEF OnRegister, Next1, Reg
  <2>2. UsualOK'
    BY <1>1, <2>1, UsualAnswered, UsualAnswers
  <2>3. /\ p.hostToWorker = [k \in Keys |-> IF k \in AliasesOf(s) THEN w ELSE primary.hostToWorker[k]]
        /\ p.sockets = [primary.sockets EXCEPT ![hs[s].host] = s]
    BY <1>4 DEF Fields, Register, AliasesOf
  <2>4. primary' = p /\ Taken(w) /\ slots' = slots
    BY <1>1, <2>1 DEF Handled, Taken, socketVars, workerVars
  <2>5. Enlists(w, s)
    BY <1>4, <2>3, <2>4 DEF Enlists
  <2> QED BY <1>3, <2>1, <2>2, <2>4, <2>5
<1>6. CASE OnUnregister(w)
  <2> PICK p : p = Unregister(primary, w, hs[s].host, Aliases(hs[s], granted[s]), s)
    OBVIOUS
  <2>1. Handled(w, p, Nothing) /\ m = Unreg(s)
    <3>1. m.type # "UNREGISTER_BARE"
      BY <1>1 DEF Usual
    <3> QED BY <1>3, <1>6, <3>1 DEF OnUnregister, Next1, Unreg
  <2>2. UsualOK'
    BY <1>1, <2>1, UsualAnswered, UsualAnswers
  <2>3. primary' = p /\ Taken(w) /\ slots' = slots
    BY <1>1, <2>1 DEF Handled, Taken, socketVars, workerVars
  <2>4. CASE primary.sockets[hs[s].host] \in {None, s}
    <3>1. /\ p.hostToWorker = [k \in Keys |->
                IF k \in AliasesOf(s) /\ primary.hostToWorker[k] = w THEN None ELSE primary.hostToWorker[k]]
          /\ p.sockets = [primary.sockets EXCEPT ![hs[s].host] = None]
      <4>1. AliasesOf(s) \cup {hs[s].host} = AliasesOf(s)
        BY DEF AliasesOf, Aliases
      <4>2. IsCurrentSocket(primary, hs[s].host, s)
        BY <2>4 DEF IsCurrentSocket
      <4> QED BY <1>4, <4>1, <4>2 DEF Fields, Unregister, AliasesOf
    <3>2. Strikes(w, s)
      BY <1>4, <2>3, <3>1 DEF Strikes
    <3> QED BY <1>3, <2>1, <2>2, <2>3, <2>4, <3>2
  <2>5. CASE primary.sockets[hs[s].host] \notin {None, s}
    <3>1. p = primary
      BY <1>3, <2>5, NameClaimsAssumption DEF Unregister, IsCurrentSocket
    <3>2. SameLists
      BY <2>3, <3>1 DEF SameLists
    <3> QED BY <1>3, <2>1, <2>2, <2>3, <2>5, <3>2
  <2> QED BY <2>4, <2>5
<1>7. CASE OnClaim(w)
  <2>1. PICK p, answers :
          /\ Handled(w, p, answers) /\ m.type = "CLAIM_HOSTS"
          /\ answers = Reply(w, s, TRUE) \/ answers = Reply(w, s, FALSE)
          /\ p.hostToWorker = primary.hostToWorker /\ p.sockets = primary.sockets
    <3>1. CASE CanClaim(primary.claims, resolveRequestedNames(hs[s]), hs[s].owner)
      <4> PICK p : p = ClaimHosts(primary, w, resolveRequestedNames(hs[s]), hs[s].owner, s)
        OBVIOUS
      <4>1. Handled(w, p, Reply(w, s, TRUE)) /\ m.type = "CLAIM_HOSTS"
        BY <1>7, <3>1 DEF OnClaim, Next1
      <4>2. p.hostToWorker = primary.hostToWorker /\ p.sockets = primary.sockets
        BY <1>4 DEF Fields, ClaimHosts
      <4> QED BY <4>1, <4>2
    <3>2. CASE ~CanClaim(primary.claims, resolveRequestedNames(hs[s]), hs[s].owner)
      <4>1. PICK P : /\ Handled(w, [primary EXCEPT !.claims = Purge(@, P)], Reply(w, s, FALSE))
                     /\ m.type = "CLAIM_HOSTS"
        BY <1>7, <3>2 DEF OnClaim, Next1
      <4>2. PICK p : p = [primary EXCEPT !.claims = Purge(@, P)]
        OBVIOUS
      <4>3. p.hostToWorker = primary.hostToWorker /\ p.sockets = primary.sockets
        BY <1>4, <4>2 DEF Fields
      <4> QED BY <4>1, <4>2, <4>3
    <3> QED BY <3>1, <3>2
  <2>2. UsualOK'
    <3>1. /\ answers \in [Workers -> Seq(Messages)]
          /\ \A v \in Workers : \A n \in ToSet(answers[v]) : n.type = "CLAIM_HOSTS_RES"
      BY <1>3, <2>1, UsualAnswers
    <3> QED BY <1>1, <2>1, <3>1, UsualAnswered
  <2>3. SameLists /\ Taken(w) /\ slots' = slots
    BY <1>1, <2>1 DEF SameLists, Handled, Taken, socketVars, workerVars
  <2>4. \A r \in Sockets : m \notin {Reg(r), Unreg(r)}
    BY <2>1 DEF Reg, Unreg, Message
  <2> QED BY <2>2, <2>3, <2>4
<1>8. CASE OnRelease(w)
  <2> PICK p : p = ReleaseHosts(primary, w, granted[s], s)
    OBVIOUS
  <2>1. Handled(w, p, Nothing) /\ m.type = "RELEASE_HOSTS"
    BY <1>8 DEF OnRelease, Next1
  <2>2. p.hostToWorker = primary.hostToWorker /\ p.sockets = primary.sockets
    BY <1>4 DEF Fields, ReleaseHosts
  <2>3. UsualOK'
    BY <1>1, <2>1, UsualAnswered, UsualAnswers
  <2>4. SameLists /\ Taken(w) /\ slots' = slots
    BY <1>1, <2>1, <2>2 DEF SameLists, Handled, Taken, socketVars, workerVars
  <2>5. \A r \in Sockets : m \notin {Reg(r), Unreg(r)}
    BY <2>1 DEF Reg, Unreg, Message
  <2> QED BY <2>3, <2>4, <2>5
<1>9. ~OnForget(w) /\ ~OnDisconnect(w)
  BY <1>1 DEF OnForget, OnDisconnect, Next1, Usual
<1> QED BY <1>5, <1>6, <1>7, <1>8, <1>9 DEF Receive

\* What worker w said is about sockets of its own, and leaves the other hosts alone.
LEMMA HeardOf ==
  ASSUME CInv, RInv, UsualOK, OwnHosts, NEW w \in Workers, Receive(w), NEW h \in Hosts
  PROVE  \/ /\ primary'.hostToWorker[h] = primary.hostToWorker[h]
            /\ primary'.sockets[h] = primary.sockets[h]
         \/ \E r \in Sockets :
              /\ phase[r] # "new" /\ at[r] = w /\ hs[r].host = h
              /\ \/ Head(toPrimary[w]) = Reg(r)
                 \/ /\ Head(toPrimary[w]) = Unreg(r) /\ phase[r] = "gone"
                    /\ primary.sockets[h] \in {None, r}
<1>1. Head(toPrimary[w]) \in ToSet(toPrimary[w]) /\ h \in Keys
  BY Hears, NextMessage, TunnelTablesAssumption DEF Taken
<1>2. ASSUME NEW r \in Sockets, Head(toPrimary[w]) \in {Reg(r), Unreg(r)}
      PROVE  /\ phase[r] # "new" /\ at[r] = w
             /\ Head(toPrimary[w]) = Unreg(r) => phase[r] = "gone"
             /\ h \in AliasesOf(r) <=> h = hs[r].host
  <2>1. /\ phase[r] # "new" /\ at[r] = w
        /\ Head(toPrimary[w]) = Unreg(r) => phase[r] = "gone"
    BY <1>1, <1>2 DEF RInv, SpokenOK
  <2> QED BY <2>1, OwnHost
<1>3. CASE \E r \in Sockets : Head(toPrimary[w]) = Reg(r) /\ Enlists(w, r)
  BY <1>1, <1>2, <1>3 DEF Enlists
<1>4. CASE \E r \in Sockets : /\ Head(toPrimary[w]) = Unreg(r) /\ Strikes(w, r)
                              /\ primary.sockets[hs[r].host] \in {None, r}
  <2>1. PICK r \in Sockets : /\ Head(toPrimary[w]) = Unreg(r) /\ Strikes(w, r)
                             /\ primary.sockets[hs[r].host] \in {None, r}
    BY <1>4
  <2> QED BY <1>1, <1>2, <2>1 DEF Strikes
<1>5. CASE SameLists
  BY <1>1, <1>5 DEF SameLists
<1> QED BY <1>3, <1>4, <1>5, Hears

LEMMA HeardSaid ==
  ASSUME CInv, RInv, UsualOK, OwnHosts, HomesOK, SaidOK, NEW w \in Workers, Receive(w)
  PROVE  SaidOK'
<1>0. Taken(w)
  BY Hears
<1> SUFFICES ASSUME NEW u \in Workers, NEW h \in Hosts, tab[u].routes[h] # None
             PROVE  \E i \in 0..Len(toPrimary'[u]) : LastSaid(u, h, tab[u].routes[h], i)'
  BY <1>0 DEF SaidOK, Taken
<1> PICK s : s = tab[u].routes[h]
  OBVIOUS
<1> PICK q : q = toPrimary[u]
  OBVIOUS
<1>1. h \in Keys /\ q \in Seq(Messages) /\ Len(q) \in Nat
  BY TunnelTablesAssumption, LenProperties DEF CInv, TalksOK
<1>2. s \in Sockets /\ phase[s] = "open" /\ at[s] = u /\ h \in AliasesOf(s)
  BY <1>1 DEF CInv, RoutesOK, AliasesOf
<1>3. hs[s].host = h /\ Home(h) = u
  <2>1. hs[s].host = h
    BY <1>2, OwnHost
  <2> QED BY <1>2, <2>1 DEF HomesOK
<1>4. UNCHANGED <<hs, tab>> /\ \A t : Reg(t)' = Reg(t)
  BY <1>0 DEF Taken, Reg
<1>5. PICK i \in 0..Len(q) : LastSaid(u, h, s, i)
  BY DEF SaidOK
<1>6. \/ /\ primary'.hostToWorker[h] = primary.hostToWorker[h]
         /\ primary'.sockets[h] = primary.sockets[h]
      \/ \E r \in Sockets :
           /\ phase[r] # "new" /\ at[r] = w /\ hs[r].host = h
           /\ \/ Head(toPrimary[w]) = Reg(r)
              \/ /\ Head(toPrimary[w]) = Unreg(r) /\ phase[r] = "gone"
                 /\ primary.sockets[h] \in {None, r}
  BY HeardOf
<1>7. CASE u # w
  <2>1. /\ primary'.hostToWorker[h] = primary.hostToWorker[h]
        /\ primary'.sockets[h] = primary.sockets[h]
    BY <1>3, <1>6, <1>7 DEF HomesOK
  <2>2. toPrimary'[u] = q
    BY <1>0, <1>7 DEF Taken, CInv, TalksOK
  <2>3. LastSaid(u, h, s, i)'
    BY <1>4, <1>5, <2>1, <2>2 DEF LastSaid, Renewed
  <2> QED BY <1>4, <2>2, <2>3 DEF LastSaid
<1>8. CASE u = w
  <2>1. /\ q # <<>> /\ toPrimary'[w] = Tail(q)
        /\ Len(q) = Len(Tail(q)) + 1 /\ Len(Tail(q)) \in Nat /\ q[1] = Head(q)
        /\ \A j \in 1..Len(Tail(q)) : Tail(q)[j] = q[j + 1]
    BY <1>0, <1>8, TakenParts DEF Taken
  <2>2. ASSUME NEW j \in Nat, Renewed(w, h, j)' PROVE Renewed(w, h, j + 1) /\ Renewed(w, h, j)
    <3>1. PICK t \in Sockets : hs[t].host = h /\ Later(Tail(q), j, Reg(t))
      BY <1>4, <2>1, <2>2 DEF Renewed
    <3>2. Later(q, j + 1, Reg(t)) /\ Later(q, j, Reg(t))
      BY <1>1, <2>1, <3>1, LaterOfTail
    <3> QED BY <1>8, <3>1, <3>2 DEF Renewed
  <2>3. CASE i = 0
    <3>1. primary.hostToWorker[h] = w /\ primary.sockets[h] = s /\ ~Renewed(w, h, 0)
      BY <1>5, <1>8, <2>3 DEF LastSaid
    <3>2. \A r \in Sockets : hs[r].host = h => Head(q) # Reg(r)
      <4>1. Head(q) \in ToSet(q)
        BY <1>1, <2>1, TailParts
      <4>2. Later(q, 0, Head(q))
        BY <1>1, <4>1, LaterAll
      <4> QED BY <1>8, <3>1, <4>2 DEF Renewed
    <3>3. /\ primary'.hostToWorker[h] = w /\ primary'.sockets[h] = s
      BY <1>2, <1>6, <1>8, <3>1, <3>2, NameClaimsAssumption
    <3>4. LastSaid(w, h, s, 0)'
      BY <2>2, <3>1, <3>3 DEF LastSaid
    <3> QED BY <1>4, <1>8, <2>1, <3>4 DEF LastSaid
  <2>4. CASE i = 1
    <3>1. Head(q) = Reg(s) /\ ~Renewed(w, h, 1)
      BY <1>5, <1>8, <2>1, <2>4 DEF LastSaid
    <3>2. Enlists(w, s)
      <4>1. \A r : (Reg(r) = Reg(s) => r = s) /\ Unreg(r) # Reg(s)
        BY DEF Reg, Unreg, Message
      <4> QED BY <1>2, <1>8, <3>1, <4>1, Hears
    <3>3. primary'.hostToWorker[h] = w /\ primary'.sockets[h] = s
      BY <1>1, <1>2, <1>3, <3>2 DEF Enlists
    <3>4. LastSaid(w, h, s, 0)'
      BY <2>2, <3>1, <3>3 DEF LastSaid
    <3> QED BY <1>4, <1>8, <2>1, <3>4 DEF LastSaid
  <2>5. CASE i > 1
    <3> PICK j : j = i - 1
      OBVIOUS
    <3>1. j \in Nat /\ j \in 1..Len(Tail(q)) /\ j # 0 /\ j + 1 = i
      BY <2>1, <2>5
    <3>2. q[i] = Reg(s) /\ ~Renewed(w, h, i)
      BY <1>5, <1>8, <2>5 DEF LastSaid
    <3>3. toPrimary'[w][j] = Reg(s) /\ ~Renewed(w, h, j)'
      BY <2>1, <2>2, <3>1, <3>2
    <3>4. LastSaid(w, h, s, j)' /\ j \in 0..Len(toPrimary'[w])
      BY <1>4, <2>1, <3>1, <3>3 DEF LastSaid
    <3> QED BY <1>4, <1>8, <3>4 DEF LastSaid
  <2> QED BY <1>1, <2>3, <2>4, <2>5
<1> QED BY <1>7, <1>8

LEMMA HeardEpochs ==
  ASSUME CInv, RInv, UsualOK, OwnHosts, HomesOK, EpochsOK, NEW w \in Workers, Receive(w)
  PROVE  EpochsOK'
<1>1. /\ Taken(w) /\ UNCHANGED <<hs, phase, at>> /\ \A t : Reg(t)' = Reg(t) /\ Unreg(t)' = Unreg(t)
  BY Hears DEF Taken, Reg, Unreg
<1> SUFFICES ASSUME NEW u \in Workers, NEW i \in 0..Len(toPrimary'[u]),
                    NEW j \in 1..Len(toPrimary'[u]), NEW r \in Sockets, NEW s \in Sockets,
                    i < j, phase[r] # "new", phase[s] # "new", hs[r].host = hs[s].host,
                    Said(u, i, r)', toPrimary'[u][j] = Reg(s), Stands(u, i, j, r)'
             PROVE  hs[r].keys = hs[s].keys
  BY <1>1 DEF EpochsOK
<1> PICK h : h = hs[r].host
  OBVIOUS
<1>2. h \in Hosts /\ h \in Keys /\ r # None /\ at[r] = Home(h)
  BY HandshakeParts, NameClaimsAssumption DEF CInv, SocketsOK, HomesOK
<1>3. CASE u # w
  <2>1. toPrimary'[u] = toPrimary[u]
    BY <1>1, <1>3 DEF Taken, CInv, TalksOK
  <2>2. Said(u, i, r)
    <3>1. CASE i = 0
      <4>1. primary'.sockets[h] = r /\ at[r] = u
        BY <1>1, <3>1 DEF Said
      <4>2. primary'.sockets[h] = primary.sockets[h]
        BY <1>2, <1>3, <4>1, HeardOf DEF HomesOK
      <4> QED BY <3>1, <4>1, <4>2 DEF Said
    <3>2. CASE i # 0
      BY <1>1, <2>1, <3>2 DEF Said
    <3> QED BY <3>1, <3>2
  <2>3. Stands(u, i, j, r)
    BY <1>1, <2>1 DEF Stands
  <2> QED BY <2>1, <2>2, <2>3 DEF EpochsOK
<1>4. CASE u = w
  <2> PICK q : q = toPrimary[w]
    OBVIOUS
  <2>1. /\ q \in Seq(Messages) /\ toPrimary'[w] = Tail(q)
        /\ Len(q) = Len(Tail(q)) + 1 /\ Len(Tail(q)) \in Nat /\ q[1] = Head(q)
        /\ \A l \in 1..Len(Tail(q)) : Tail(q)[l] = q[l + 1]
    BY <1>1, TakenParts
  <2>2. /\ i \in 0..Len(Tail(q)) /\ j \in 1..Len(Tail(q)) /\ Tail(q)[j] = Reg(s)
        /\ q[j + 1] = Reg(s) /\ i + 1 \in 0..Len(q) /\ j + 1 \in 1..Len(q) /\ i + 1 < j + 1
    BY <1>4, <2>1
  <2>3. ASSUME NEW l \in ((i + 1) + 1)..((j + 1) - 1)
        PROVE  q[l] # Unreg(r) /\ \A t \in Sockets : q[l] = Reg(t) => hs[t].host # hs[r].host
    <3>1. l - 1 \in (i + 1)..(j - 1) /\ l - 1 \in 1..Len(Tail(q)) /\ (l - 1) + 1 = l
      BY <2>1, <2>2
    <3>2. Tail(q)[l - 1] = q[l]
      BY <2>1, <3>1
    <3> QED BY <1>1, <1>4, <2>1, <3>1, <3>2 DEF Stands
  <2>4. ASSUME Said(w, i + 1, r) PROVE hs[r].keys = hs[s].keys
    <3>1. Stands(w, i + 1, j + 1, r)
      BY <2>3 DEF Stands
    <3> QED BY <2>2, <2>4, <3>1 DEF EpochsOK
  <2>5. CASE i # 0
    <3>1. q[i + 1] = Reg(r)
      BY <1>1, <1>4, <2>1, <2>2, <2>5 DEF Said
    <3> QED BY <2>2, <2>4, <2>5, <3>1 DEF Said
  <2>6. CASE i = 0
    <3>1. primary'.sockets[h] = r /\ at[r] = w
      BY <1>1, <1>4, <2>6 DEF Said
    <3>2. CASE Head(q) = Reg(r)
      BY <2>1, <2>4, <2>6, <3>2 DEF Said
    <3>3. CASE Head(q) # Reg(r)
      <4>1. \A x, y : /\ Reg(x) = Reg(y) => x = y
                      /\ Unreg(x) = Unreg(y) => x = y
                      /\ Reg(x) # Unreg(y)
        BY DEF Reg, Unreg, Message
      <4>2. /\ primary.sockets[h] = r /\ Head(q) # Unreg(r)
            /\ \A t \in Sockets : Head(q) = Reg(t) => hs[t].host # h
        <5>1. CASE \E x \in Sockets : Head(q) = Reg(x) /\ Enlists(w, x)
          BY <1>2, <3>1, <3>3, <4>1, <5>1 DEF Enlists
        <5>2. ASSUME NEW x \in Sockets, Head(q) = Unreg(x),
                     IF primary.sockets[hs[x].host] \in {None, x} THEN Strikes(w, x) ELSE SameLists
              PROVE  /\ primary.sockets[h] = r /\ Head(q) # Unreg(r)
                     /\ \A t \in Sockets : Head(q) = Reg(t) => hs[t].host # h
          <6>1. CASE primary.sockets[hs[x].host] \in {None, x} /\ Strikes(w, x)
            BY <1>2, <3>1, <4>1, <5>2, <6>1 DEF Strikes
          <6>2. CASE primary.sockets[hs[x].host] \notin {None, x} /\ SameLists
            BY <1>2, <3>1, <4>1, <5>2, <6>2 DEF SameLists
          <6> QED BY <5>2, <6>1, <6>2
        <5>3. CASE SameLists /\ \A t \in Sockets : Head(q) \notin {Reg(t), Unreg(t)}
          BY <1>2, <3>1, <5>3 DEF SameLists
        <5> QED BY <5>1, <5>2, <5>3, Hears
      <4>3. Said(w, 0, r)
        BY <3>1, <4>2 DEF Said
      <4>4. Stands(w, 0, j + 1, r)
        <5> SUFFICES ASSUME NEW l \in (0 + 1)..((j + 1) - 1)
                     PROVE  q[l] # Unreg(r) /\ \A t \in Sockets : q[l] = Reg(t) => hs[t].host # hs[r].host
          BY DEF Stands
        <5>1. CASE l = 1
          BY <2>1, <4>2, <5>1
        <5>2. CASE l # 1
          <6>1. l \in ((i + 1) + 1)..((j + 1) - 1)
            BY <2>2, <2>6, <5>2
          <6> QED BY <2>3, <6>1
        <5> QED BY <5>1, <5>2
      <4>5. 0 \in 0..Len(q) /\ 0 < j + 1
        BY <2>1, <2>2
      <4> QED BY <2>2, <4>3, <4>4, <4>5 DEF EpochsOK
    <3> QED BY <3>2, <3>3
  <2> QED BY <2>5, <2>6
<1> QED BY <1>3, <1>4

\* Worker w said that r connected.
LEMMA EnlistsListed ==
  ASSUME CInv, RInv, OwnHosts, OwnKeys, HomesOK, ListedOK, EpochsOK, NEW w \in Workers, Taken(w),
         slots' = slots, NEW r \in Sockets, phase[r] # "new", at[r] = w,
         Head(toPrimary[w]) = Reg(r), Enlists(w, r)
  PROVE  ListedOK'
<1>1. /\ UNCHANGED <<hs, phase, at>>
      /\ \A k, v : Elsewhere(k, v)' <=> Elsewhere(k, v)
      /\ \A h \in Hosts : Home(h)' = Home(h)
  BY DEF Taken, Elsewhere, Home
<1> PICK h : h = hs[r]
  OBVIOUS
<1>2. /\ h \in Handshakes /\ AliasesOf(r) = Named(h) /\ Home(h.host) = w
      /\ h.host \in Hosts /\ h.host \in Keys /\ h.keys \subseteq Named(h) /\ w # None /\ r # None
      /\ \A k \in Hosts : k \in Named(h) <=> k = h.host
  BY NamedSockets, NamedParts, ClusterAssumption, NameClaimsAssumption DEF HomesOK, Named
<1>3. \A k \in Keys :
        /\ primary'.hostToWorker[k] = IF k \in Named(h) THEN w ELSE primary.hostToWorker[k]
        /\ primary'.sockets[k] = IF k = h.host THEN r ELSE primary.sockets[k]
  BY <1>2 DEF Enlists
<1>4. ASSUME NEW g \in Keys, primary'.sockets[g] # None
      PROVE  LET s == primary'.sockets[g] IN
             /\ g \in Hosts /\ s \in Sockets /\ phase[s] # "new" /\ hs[s].host = g
             /\ primary'.hostToWorker[g] = Home(g)
             /\ \A k \in hs[s].keys : primary'.hostToWorker[k] = Home(g) \/ Elsewhere(k, Home(g))
  <2>1. CASE g = h.host
    <3>1. h.keys \subseteq Keys
      BY <1>2, NamedParts
    <3> QED BY <1>2, <1>3, <2>1, <3>1
  <2>2. CASE g # h.host
    <3> PICK s : s = primary.sockets[g]
      OBVIOUS
    <3>1. /\ g \in Hosts /\ s \in Sockets /\ phase[s] # "new" /\ hs[s].host = g
          /\ primary.hostToWorker[g] = Home(g) /\ primary'.sockets[g] = s
          /\ \A k \in hs[s].keys : primary.hostToWorker[k] = Home(g) \/ Elsewhere(k, Home(g))
      BY <1>3, <1>4, <2>2 DEF ListedOK
    <3>2. primary'.hostToWorker[g] = Home(g)
      BY <1>2, <1>3, <2>2, <3>1
    <3>3. ASSUME NEW k \in hs[s].keys
          PROVE  primary'.hostToWorker[k] = Home(g) \/ Elsewhere(k, Home(g))
      <4>1. k \in Keys
        BY <3>1, NamedParts DEF CInv, SocketsOK
      <4>2. CASE k \in Named(h)
        BY <1>2, <1>3, <4>1, <4>2 DEF Elsewhere
      <4>3. CASE k \notin Named(h)
        BY <1>3, <3>1, <4>1, <4>3
      <4> QED BY <4>2, <4>3
    <3> QED BY <3>1, <3>2, <3>3
  <2> QED BY <2>1, <2>2
<1>5. ASSUME NEW k \in Keys, primary'.hostToWorker[k] # None
      PROVE  \E s \in Sockets : /\ phase[s] # "new" /\ k \in Named(hs[s])
                                /\ at[s] = primary'.hostToWorker[k]
                                /\ primary'.sockets[hs[s].host] = s
  <2>1. CASE k \in Named(h)
    BY <1>2, <1>3, <2>1
  <2>2. CASE k \notin Named(h)
    <3>1. PICK s \in Sockets : /\ phase[s] # "new" /\ k \in Named(hs[s])
                               /\ at[s] = primary.hostToWorker[k]
                               /\ primary.sockets[hs[s].host] = s
      BY <1>3, <1>5, <2>2 DEF ListedOK
    <3>2. hs[s].host \in Hosts /\ hs[s].host \in Keys /\ at[s] = Home(hs[s].host)
      BY <3>1, HandshakeParts DEF CInv, SocketsOK, HomesOK
    <3>3. hs[s].host # h.host
      <4> SUFFICES ASSUME hs[s].host = h.host PROVE FALSE
        OBVIOUS
      <4> PICK q : q = toPrimary[w]
        OBVIOUS
      <4>1. q[1] = Reg(r) /\ 1 \in 1..Len(q) /\ 0 \in 0..Len(q)
        <5>1. /\ q \in Seq(Messages) /\ q[1] = Head(q) /\ 1 \in 1..Len(q)
          BY TakenParts
        <5>2. Len(q) \in Nat
          BY <5>1, LenProperties
        <5> QED BY <5>1, <5>2
      <4>2. Said(w, 0, s) /\ Stands(w, 0, 1, s)
        BY <1>2, <3>1, <3>2 DEF Said, Stands
      <4>3. hs[s].keys = h.keys
        BY <3>1, <4>1, <4>2 DEF EpochsOK
      <4> QED BY <2>2, <3>1, <4>3 DEF Named
    <3> QED BY <1>3, <2>2, <3>1, <3>2, <3>3
  <2> QED BY <2>1, <2>2
<1> QED BY <1>1, <1>4, <1>5 DEF ListedOK

\* Worker w said that r has gone, and the primary has no later socket of the host.
LEMMA StrikesListed ==
  ASSUME CInv, OwnHosts, OwnKeys, HomesOK, ListedOK, NEW w \in Workers, Taken(w), slots' = slots,
         NEW r \in Sockets, phase[r] # "new", at[r] = w, Strikes(w, r),
         primary.sockets[hs[r].host] \in {None, r}
  PROVE  ListedOK'
<1>1. /\ UNCHANGED <<hs, phase, at>>
      /\ \A k, v : Elsewhere(k, v)' <=> Elsewhere(k, v)
      /\ \A h \in Hosts : Home(h)' = Home(h)
  BY DEF Taken, Elsewhere, Home
<1> PICK h : h = hs[r]
  OBVIOUS
<1>2. /\ h \in Handshakes /\ AliasesOf(r) = Named(h) /\ Home(h.host) = w
      /\ h.host \in Hosts /\ h.host \in Keys
      /\ \A k \in Hosts : k \in Named(h) <=> k = h.host
  BY NamedSockets, NamedParts DEF HomesOK
<1>3. \A k \in Keys :
        /\ primary'.hostToWorker[k] = IF k \in Named(h) /\ primary.hostToWorker[k] = w
                                        THEN None ELSE primary.hostToWorker[k]
        /\ primary'.sockets[k] = IF k = h.host THEN None ELSE primary.sockets[k]
  BY <1>2 DEF Strikes
<1>4. ASSUME NEW g \in Keys, primary'.sockets[g] # None
      PROVE  LET s == primary'.sockets[g] IN
             /\ g \in Hosts /\ s \in Sockets /\ phase[s] # "new" /\ hs[s].host = g
             /\ primary'.hostToWorker[g] = Home(g)
             /\ \A k \in hs[s].keys : primary'.hostToWorker[k] = Home(g) \/ Elsewhere(k, Home(g))
  <2> PICK s : s = primary.sockets[g]
    OBVIOUS
  <2>1. /\ g \in Hosts /\ s \in Sockets /\ phase[s] # "new" /\ hs[s].host = g
        /\ primary.hostToWorker[g] = Home(g) /\ primary'.sockets[g] = s /\ g # h.host
        /\ \A k \in hs[s].keys : primary.hostToWorker[k] = Home(g) \/ Elsewhere(k, Home(g))
    BY <1>3, <1>4 DEF ListedOK
  <2>2. primary'.hostToWorker[g] = Home(g)
    BY <1>2, <1>3, <2>1
  <2>3. ASSUME NEW k \in hs[s].keys
        PROVE  primary'.hostToWorker[k] = Home(g) \/ Elsewhere(k, Home(g))
    <3> SUFFICES ASSUME k # g
                 PROVE  primary'.hostToWorker[k] = Home(g) \/ Elsewhere(k, Home(g))
      BY <2>2
    <3>1. hs[s] \in Handshakes
      BY <2>1 DEF CInv, SocketsOK
    <3>2. k \in Keys /\ k \notin Hosts
      BY <2>1, <3>1, NamedParts DEF Named
    <3>3. ~(k \in Named(h) /\ Home(g) = w)
      <4> SUFFICES ASSUME k \in Named(h), Home(g) = w PROVE FALSE
        OBVIOUS
      <4>1. k \in h.keys
        BY <1>2, <3>2 DEF Named
      <4> QED BY <1>2, <2>1, <3>1, <4>1, SameHome
    <3> QED BY <1>3, <2>1, <3>2, <3>3
  <2> QED BY <2>1, <2>2, <2>3
<1>5. ASSUME NEW k \in Keys, primary'.hostToWorker[k] # None
      PROVE  \E s \in Sockets : /\ phase[s] # "new" /\ k \in Named(hs[s])
                                /\ at[s] = primary'.hostToWorker[k]
                                /\ primary'.sockets[hs[s].host] = s
  <2>1. /\ primary'.hostToWorker[k] = primary.hostToWorker[k]
        /\ ~(k \in Named(h) /\ primary.hostToWorker[k] = w)
    BY <1>3, <1>5
  <2>2. PICK s \in Sockets : /\ phase[s] # "new" /\ k \in Named(hs[s])
                             /\ at[s] = primary.hostToWorker[k]
                             /\ primary.sockets[hs[s].host] = s
    BY <1>5, <2>1 DEF ListedOK
  <2>3. hs[s].host \in Keys /\ s # None
    BY <2>2, HandshakeParts, NameClaimsAssumption DEF CInv, SocketsOK
  <2>4. hs[s].host # h.host
    BY <2>1, <2>2, <2>3
  <2> QED BY <1>3, <2>1, <2>2, <2>3, <2>4
<1> QED BY <1>1, <1>4, <1>5 DEF ListedOK

LEMMA HeardListed ==
  ASSUME CInv, RInv, UsualOK, OwnHosts, OwnKeys, HomesOK, ListedOK, EpochsOK, NEW w \in Workers,
         Receive(w)
  PROVE  ListedOK'
<1>1. /\ Taken(w) /\ slots' = slots
      /\ Head(toPrimary[w]) \in ToSet(toPrimary[w])
  BY Hears, NextMessage DEF Taken
<1>2. ASSUME NEW r \in Sockets, Head(toPrimary[w]) \in {Reg(r), Unreg(r)}
      PROVE  phase[r] # "new" /\ at[r] = w
  BY <1>1, <1>2 DEF RInv, SpokenOK
<1>3. ASSUME SameLists PROVE ListedOK'
  <2>1. /\ UNCHANGED <<hs, phase, at>>
        /\ \A k, v : Elsewhere(k, v)' <=> Elsewhere(k, v)
        /\ \A h \in Hosts : Home(h)' = Home(h)
    BY <1>1 DEF Taken, Elsewhere, Home
  <2>2. \A k \in Keys : /\ primary'.hostToWorker[k] = primary.hostToWorker[k]
                        /\ primary'.sockets[k] = primary.sockets[k]
    BY <1>3 DEF SameLists
  <2>3. \A s \in Sockets : phase[s] # "new" => hs[s].host \in Keys /\ hs[s].keys \subseteq Keys
    BY NamedParts DEF CInv, SocketsOK
  <2> QED BY <2>1, <2>2, <2>3 DEF ListedOK
<1> QED BY <1>1, <1>2, <1>3, Hears, EnlistsListed, StrikesListed

-----------------------------------------------------------------------------
(* What becomes of a contest for a host as the primary answers claims.     *)

\* Names rest where they did, but for those of a socket that the primary has just heard
\* to be gone.
RestsKept(w) ==
  \A n \in Names, x \in Sockets : Resting(n, x) /\ Head(toPrimary[w]) # Release(x) =>
    primary'.claims[n] # None /\ primary'.claims[n].socketId = x

\* The primary grants socket y of worker w what it asks for, or refuses it.
Grants(w, y) ==
  /\ Head(toPrimary[w]) = Claim(y)
  /\ toWorker' = [toWorker EXCEPT ![w] = @ \o <<Answer(y, TRUE)>>]
  /\ \A n \in Asked(y) : ~TakenFrom(primary.claims, n, hs[y].owner)
  /\ \A n \in Names :
       IF n \in Asked(y) THEN primary'.claims[n] # None /\ primary'.claims[n].socketId = y
                         ELSE primary'.claims[n] = primary.claims[n]

Refuses(w, y) ==
  /\ Head(toPrimary[w]) = Claim(y)
  /\ toWorker' = [toWorker EXCEPT ![w] = @ \o <<Answer(y, FALSE)>>]
  /\ RestsKept(w)

\* The answer goes to the worker that asked.
LEMMA Replies ==
  ASSUME CInv, HomesOK, NEW w \in Workers, NEW y \in Sockets, toPrimary[w] # <<>>,
         Head(toPrimary[w]) = Claim(y), NEW p, NEW a \in Messages,
         Handled(w, p, [Nothing EXCEPT ![w] = <<a>>])
  PROVE  toWorker' = [toWorker EXCEPT ![w] = @ \o <<a>>]
<1>1. toWorker \in [Workers -> Seq(Messages)] /\ Head(toPrimary[w]) \in ToSet(toPrimary[w])
  BY NextMessage DEF CInv, TalksOK
<1>2. at[y] = w /\ phase[y] # "new"
  BY <1>1 DEF CInv, TalksOK, TalkOK
<1>3. isConnected(w)
  <2>1. hs[y] \in Handshakes /\ w = Home(hs[y].host)
    BY <1>2 DEF CInv, SocketsOK, HomesOK
  <2>2. hostSlot[hs[y].host] \in Slots /\ None \notin Workers
    BY <2>1, HandshakeParts, ClusterAssumption
  <2> QED BY <2>1, <2>2 DEF HomesOK, Home, isConnected
<1> PICK msgs : msgs = [Nothing EXCEPT ![w] = <<a>>]
  OBVIOUS
<1>4. \A v \in Workers : msgs[v] = IF v = w THEN <<a>> ELSE <<>>
  BY DEF Nothing
<1>5. toWorker' = [v \in Workers |->
                     IF isConnected(v) THEN toWorker[v] \o msgs[v] ELSE toWorker[v]]
  BY DEF Handled
<1>6. ASSUME NEW v \in Workers, v # w PROVE toWorker[v] \o msgs[v] = toWorker[v]
  BY <1>1, <1>4, <1>6
<1>7. \A v \in Workers : toWorker'[v] = IF v = w THEN toWorker[w] \o <<a>> ELSE toWorker[v]
  <2>1. toWorker'[w] = toWorker[w] \o msgs[w] /\ msgs[w] = <<a>>
    BY <1>3, <1>4, <1>5
  <2>2. \A v \in Workers \ {w} : toWorker'[v] = toWorker[v]
    BY <1>5, <1>6
  <2> QED BY <2>1, <2>2
<1>8. toWorker' = [v \in Workers |-> toWorker'[v]]
  BY <1>5
<1> QED BY <1>1, <1>7, <1>8

LEMMA HeardClaims ==
  ASSUME CInv, UsualOK, HomesOK, NEW w \in Workers, Receive(w)
  PROVE  \/ toWorker' = toWorker /\ RestsKept(w)
         \/ \E y \in Sockets : Grants(w, y) \/ Refuses(w, y)
<1> PICK s : s = Arg(w)
  OBVIOUS
<1> PICK m : m = Head(toPrimary[w])
  OBVIOUS
<1>1. toPrimary[w] # <<>> /\ m.type \in Usual
  <2>1. toPrimary[w] # <<>>
    BY Hears DEF Taken
  <2> QED BY <2>1, NextMessage DEF UsualOK
<1>2. /\ m \in Messages /\ Shape(primary) /\ primary.claims \in ClaimTable
      /\ DOMAIN primary = Fields
  BY <1>1, NextMessage DEF Shape
<1>3. s \in Sockets /\ m = Message(m.type, s)
  BY <1>1, <1>2, MessageArgs DEF Arg, Usual
<1>4. ASSUME NEW p, Handled(w, p, Nothing) PROVE toWorker' = toWorker /\ primary' = p
  <2>1. toWorker \in [Workers -> Seq(Messages)]
    BY DEF CInv, TalksOK
  <2>2. \A v \in Workers : toWorker[v] \o Nothing[v] = toWorker[v]
    BY <2>1 DEF Nothing
  <2>3. toWorker' = [v \in Workers |-> toWorker[v]]
    BY <1>4, <2>2 DEF Handled
  <2> QED BY <1>4, <2>1, <2>3 DEF Handled
<1>5. ASSUME primary'.claims = primary.claims PROVE RestsKept(w)
  BY <1>5 DEF RestsKept, Resting
<1>6. CASE OnRegister(w)
  <2> PICK p : p = Register(primary, w, s, hs[s], granted[s])
    OBVIOUS
  <2>1. Handled(w, p, Nothing) /\ p.claims = primary.claims
    BY <1>2, <1>6 DEF OnRegister, Register, Fields
  <2> QED BY <1>4, <1>5, <2>1
<1>7. CASE OnUnregister(w)
  <2> PICK p : p = Unregister(primary, w, hs[s].host, Aliases(hs[s], granted[s]), s)
    OBVIOUS
  <2>1. Handled(w, p, Nothing)
    <3>1. m.type # "UNREGISTER_BARE"
      BY <1>1 DEF Usual
    <3> QED BY <1>7, <3>1 DEF OnUnregister, Next1
  <2>2. p.claims = primary.claims
    BY <1>2 DEF Unregister, Fields
  <2> QED BY <1>4, <1>5, <2>1, <2>2
<1>8. CASE OnClaim(w)
  <2> PICK S : S = resolveRequestedNames(hs[s])
    OBVIOUS
  <2> PICK c : c = hs[s].owner
    OBVIOUS
  <2>1. m = Claim(s) /\ S = Asked(s)
    BY <1>3, <1>8 DEF OnClaim, Next1, Claim, Asked
  <2>2. CASE CanClaim(primary.claims, S, c)
    <3> PICK p : p = ClaimHosts(primary, w, S, c, s)
      OBVIOUS
    <3> PICK a : a = Answer(s, TRUE)
      OBVIOUS
    <3>1. Handled(w, p, [Nothing EXCEPT ![w] = <<a>>])
      BY <1>8, <2>2 DEF OnClaim, Reply, Answer
    <3>2. a \in Messages
      BY <1>3, MessageTypes
    <3>3. toWorker' = [toWorker EXCEPT ![w] = @ \o <<a>>] /\ primary' = p
      <4>1. toWorker' = [toWorker EXCEPT ![w] = @ \o <<a>>]
        BY <1>1, <1>3, <2>1, <3>1, <3>2, Replies
      <4> QED BY <3>1, <4>1 DEF Handled
    <3>4. p.claims = AfterClaim(primary.claims, S, c, s)
      BY <1>2 DEF ClaimHosts, Fields
    <3>5. \A n \in Names :
            IF n \in S THEN p.claims[n] = [clientId |-> c, socketId |-> s, idle |-> 0]
                       ELSE p.claims[n] = primary.claims[n]
      BY <3>4 DEF AfterClaim
    <3>6. [clientId |-> c, socketId |-> s, idle |-> 0] # None
      <4>1. c \in Owners
        <5>1. m \in ToSet(toPrimary[w])
          BY <1>1, NextMessage
        <5>2. phase[s] # "new"
          BY <1>3, <2>1, <5>1 DEF CInv, TalksOK, TalkOK
        <5> QED BY <1>3, <5>2, HandshakeParts DEF CInv, SocketsOK
      <4>2. 0 \in 0..IdleCap
        BY NameClaimsAssumption DEF IdleCap, claim_ttl
      <4> QED BY <1>3, <4>1, <4>2, NameClaimsAssumption DEF Entry
    <3>7. \A n \in Names :
            IF n \in S THEN primary'.claims[n] # None /\ primary'.claims[n].socketId = s
                       ELSE primary'.claims[n] = primary.claims[n]
      BY <3>3, <3>5, <3>6
    <3>8. \A n \in S : ~TakenFrom(primary.claims, n, c)
      BY <2>2 DEF CanClaim
    <3>9. Grants(w, s)
      BY <2>1, <3>3, <3>7, <3>8 DEF Grants
    <3> QED BY <1>3, <3>9
  <2>3. CASE ~CanClaim(primary.claims, S, c)
    <3>1. PICK P \in RefusalPurges(primary.claims, S) :
            Handled(w, [primary EXCEPT !.claims = Purge(@, P)], Reply(w, s, FALSE))
      BY <1>8, <2>3 DEF OnClaim
    <3> PICK p : p = [primary EXCEPT !.claims = Purge(@, P)]
      OBVIOUS
    <3> PICK a : a = Answer(s, FALSE)
      OBVIOUS
    <3>2. Handled(w, p, [Nothing EXCEPT ![w] = <<a>>])
      BY <3>1 DEF Reply, Answer
    <3>3. a \in Messages
      BY <1>3, MessageTypes
    <3>4. toWorker' = [toWorker EXCEPT ![w] = @ \o <<a>>] /\ primary' = p
      <4>1. toWorker' = [toWorker EXCEPT ![w] = @ \o <<a>>]
        BY <1>1, <1>3, <2>1, <3>2, <3>3, Replies
      <4> QED BY <3>2, <4>1 DEF Handled
    <3>5. p.claims = Purge(primary.claims, P)
      BY <1>2 DEF Fields
    <3>6. ASSUME NEW n \in Names, NEW x \in Sockets, Resting(n, x)
          PROVE  primary'.claims[n] = primary.claims[n]
      <4>1. x # None /\ primary.claims[n].socketId = x
        BY <3>6, NameClaimsAssumption DEF Resting
      <4>2. n \notin P
        BY <3>1, <3>6, <4>1 DEF RefusalPurges, ExpiredNames, owner, _expired, Resting
      <4> QED BY <3>4, <3>5, <4>2 DEF Purge
    <3>7. RestsKept(w)
      BY <3>6 DEF RestsKept, Resting
    <3>8. Refuses(w, s)
      BY <2>1, <3>4, <3>7 DEF Refuses
    <3> QED BY <1>3, <3>8
  <2> QED BY <2>2, <2>3
<1>9. CASE OnRelease(w)
  <2> PICK p : p = ReleaseHosts(primary, w, granted[s], s)
    OBVIOUS
  <2>1. Handled(w, p, Nothing) /\ m = Release(s)
    BY <1>3, <1>9 DEF OnRelease, Next1, Release
  <2>2. p.claims = AfterRelease(primary.claims, granted[s], s)
    BY <1>2 DEF ReleaseHosts, Fields
  <2>3. s # None
    BY <1>3, NameClaimsAssumption
  <2>4. ASSUME NEW n \in Names, NEW x \in Sockets, Resting(n, x), m # Release(x)
        PROVE  p.claims[n] = primary.claims[n]
    <3>1. x # s
      BY <2>1, <2>4
    <3> QED BY <2>2, <2>3, <2>4, <3>1 DEF AfterRelease, ReleasedBy, Resting
  <2>5. RestsKept(w)
    BY <1>4, <2>1, <2>4 DEF RestsKept, Resting
  <2> QED BY <1>4, <2>1, <2>5
<1>10. ~OnForget(w) /\ ~OnDisconnect(w)
  BY <1>1 DEF OnForget, OnDisconnect, Next1, Usual
<1> QED BY <1>6, <1>7, <1>8, <1>9, <1>10 DEF Receive

\* A name that rests on a socket of a durable client is granted to that client only.
LEMMA GrantsToOwner ==
  ASSUME CInv, NEW w \in Workers, NEW y \in Sockets, Grants(w, y), NEW n \in Names, n \in Asked(y),
         NEW x \in Sockets, Resting(n, x), hs[x].owner \notin EphemeralOwners
  PROVE  hs[y].owner = hs[x].owner
<1>1. ~TakenFrom(primary.claims, n, hs[y].owner)
  BY DEF Grants
<1>2. primary.claims[n] # None /\ primary.claims[n].socketId = x /\ x # None
  BY NameClaimsAssumption DEF Resting
<1>3. hs[x].owner = primary.claims[n].clientId
  BY TracedDef DEF CInv
<1>4. owner(primary.claims, n) # None
  BY <1>2 DEF owner, _expired
<1> QED BY <1>1, <1>3, <1>4 DEF TakenFrom, isEphemeralOwner

\* Where the name of a host rests after the primary has heard worker w, if it rested on a
\* socket of a durable client.
LEMMA RestsOn ==
  ASSUME CInv, UsualOK, OwnHosts, HomesOK, NEW w \in Workers, Receive(w),
         NEW e \in Sockets, phase[e] # "new", NameOf[hs[e].host] # None,
         hs[e].owner \notin EphemeralOwners,
         NEW x \in Sockets, RestsFor(hs[e].host, x, hs[e].owner)
  PROVE  /\ phase[x] # "new" /\ at[x] = Home(hs[e].host) /\ at[e] = Home(hs[e].host)
         /\ \/ Head(toPrimary[w]) = Release(x)
            \/ RestsFor(hs[e].host, x, hs[e].owner)'
            \/ \E y \in Sockets : /\ Grants(w, y) /\ w = at[e] /\ phase[y] \in {"asked", "left"}
                                  /\ RestsFor(hs[e].host, y, hs[e].owner)'
<1> PICK n : n = NameOf[hs[e].host]
  OBVIOUS
<1>1. /\ Taken(w) /\ UNCHANGED <<hs, phase, at, status>>
      /\ Head(toPrimary[w]) \in ToSet(toPrimary[w])
  BY Hears, NextMessage DEF Taken
<1>2. hs[e] \in Handshakes /\ n \in Names /\ n \in Asked(e)
  <2>1. hs[e] \in Handshakes /\ hs[e].host \in Hosts
    BY HandshakeParts DEF CInv, SocketsOK
  <2>2. n \in Names
    BY <2>1, TunnelTablesAssumption
  <2>3. n \in resolveRequestedNames(hs[e])
    BY DEF resolveRequestedNames
  <2> QED BY <2>1, <2>2, <2>3 DEF Asked
<1>3. Resting(n, x) /\ hs[x].owner = hs[e].owner
  BY DEF RestsFor
<1>4. phase[x] # "new" /\ n \in Asked(x)
  BY <1>2, <1>3, TracedDef DEF CInv, RestsOK
<1>5. hs[x].host = hs[e].host
  BY <1>2, <1>4, AsksForHost
<1>6. at[x] = Home(hs[e].host) /\ at[e] = Home(hs[e].host)
  BY <1>4, <1>5 DEF HomesOK
<1>7. ASSUME primary'.claims[n] # None, primary'.claims[n].socketId = x
      PROVE  RestsFor(hs[e].host, x, hs[e].owner)'
  BY <1>1, <1>3, <1>7 DEF RestsFor, Resting
<1>8. CASE RestsKept(w)
  BY <1>2, <1>3, <1>4, <1>6, <1>7, <1>8 DEF RestsKept
<1>9. ASSUME NEW y \in Sockets, Grants(w, y)
      PROVE  \/ RestsFor(hs[e].host, x, hs[e].owner)'
             \/ /\ w = at[e] /\ phase[y] \in {"asked", "left"}
                /\ RestsFor(hs[e].host, y, hs[e].owner)'
  <2>1. CASE n \notin Asked(y)
    BY <1>2, <1>3, <1>7, <1>9, <2>1 DEF Grants, Resting
  <2>2. CASE n \in Asked(y)
    <3>1. primary'.claims[n] # None /\ primary'.claims[n].socketId = y
      BY <1>2, <1>9, <2>2 DEF Grants
    <3>2. hs[y].owner = hs[e].owner
      BY <1>2, <1>3, <1>9, <2>2, GrantsToOwner
    <3>3. RestsFor(hs[e].host, y, hs[e].owner)'
      BY <1>1, <3>1, <3>2 DEF RestsFor, Resting
    <3>4. Claim(y) \in ToSet(toPrimary[w])
      BY <1>1, <1>9 DEF Grants
    <3>5. at[y] = w /\ phase[y] # "new" /\ (phase[y] \in {"asked", "left"} \/ Lost(w))
      BY <3>4 DEF CInv, TalksOK, TalkOK
    <3>6. hs[y].host = hs[e].host
      BY <1>2, <2>2, <3>5, AsksForHost
    <3>7. w = at[e]
      BY <1>6, <3>5, <3>6 DEF HomesOK
    <3>8. ~Lost(w)
      <4>1. hs[e].host \in Hosts
        BY <1>2, HandshakeParts
      <4>2. hostSlot[hs[e].host] \in Slots
        BY <4>1, ClusterAssumption
      <4> QED BY <1>6, <3>7, <4>2 DEF HomesOK, Home, Lost
    <3> QED BY <3>3, <3>5, <3>7, <3>8
  <2> QED BY <2>1, <2>2
<1>10. RestsKept(w) \/ \E y \in Sockets : Grants(w, y)
  BY HeardClaims DEF Refuses
<1>11. \/ Head(toPrimary[w]) = Release(x)
       \/ RestsFor(hs[e].host, x, hs[e].owner)'
       \/ \E y \in Sockets : /\ Grants(w, y) /\ w = at[e] /\ phase[y] \in {"asked", "left"}
                             /\ RestsFor(hs[e].host, y, hs[e].owner)'
  BY <1>8, <1>9, <1>10
<1> QED BY <1>4, <1>6, <1>11

\* The answers that are under way once the primary has heard worker w.
LEMMA AnswersGrow ==
  ASSUME CInv, UsualOK, HomesOK, NEW w \in Workers, Receive(w)
  PROVE  /\ \A u \in Workers :
              /\ toWorker'[u] \in Seq(Messages) /\ Len(toWorker[u]) \in Nat
              /\ Len(toWorker'[u]) \in Nat /\ Len(toWorker'[u]) >= Len(toWorker[u])
              /\ \A i \in 1..Len(toWorker[u]) : toWorker'[u][i] = toWorker[u][i]
              /\ \A i \in 1..Len(toWorker'[u]), s \in Sockets :
                   toWorker'[u][i] \in Answers(s) =>
                     \/ i \in 1..Len(toWorker[u])
                     \/ u = w /\ Head(toPrimary[w]) = Claim(s)
                          /\ (toWorker'[u][i] = Answer(s, TRUE) => Grants(w, s))
         /\ \A y \in Sockets : Grants(w, y) =>
              /\ Len(toWorker'[w]) = Len(toWorker[w]) + 1
              /\ toWorker'[w][Len(toWorker'[w])] = Answer(y, TRUE)
<1>1. toWorker \in [Workers -> Seq(Messages)]
  BY DEF CInv, TalksOK
<1>2. ASSUME NEW a \in Messages, toWorker' = [toWorker EXCEPT ![w] = @ \o <<a>>], NEW u \in Workers
      PROVE  /\ toWorker'[u] \in Seq(Messages) /\ Len(toWorker[u]) \in Nat
             /\ Len(toWorker'[u]) = IF u = w THEN Len(toWorker[u]) + 1 ELSE Len(toWorker[u])
             /\ \A i \in 1..Len(toWorker[u]) : toWorker'[u][i] = toWorker[u][i]
             /\ u = w => toWorker'[u][Len(toWorker[u]) + 1] = a
  <2> PICK q : q = toWorker[u]
    OBVIOUS
  <2>1. q \in Seq(Messages) /\ Len(q) \in Nat
    BY <1>1, LenProperties
  <2>2. CASE u = w
    <3>1. toWorker'[u] = q \o <<a>>
      BY <1>1, <1>2, <2>2
    <3>2. /\ <<a>> \in Seq(Messages) /\ Len(<<a>>) = 1 /\ <<a>>[1] = a
      BY <1>2
    <3>3. /\ q \o <<a>> \in Seq(Messages) /\ Len(q \o <<a>>) = Len(q) + 1
          /\ \A i \in 1..Len(q) : (q \o <<a>>)[i] = q[i]
          /\ (q \o <<a>>)[Len(q) + 1] = a
      BY <2>1, <3>2, AtConcat
    <3> QED BY <2>1, <2>2, <3>1, <3>3
  <2>3. CASE u # w
    <3>1. toWorker'[u] = q
      BY <1>1, <1>2, <2>3
    <3> QED BY <2>1, <2>3, <3>1
  <2> QED BY <2>2, <2>3
<1>3. \A y \in Sockets : Answer(y, TRUE) \in Messages /\ Answer(y, FALSE) \in Messages
  BY MessageTypes
<1>4. ASSUME NEW y \in Sockets, Grants(w, y)
      PROVE  /\ Len(toWorker'[w]) = Len(toWorker[w]) + 1
             /\ toWorker'[w][Len(toWorker'[w])] = Answer(y, TRUE)
  <2> PICK a : a = Answer(y, TRUE)
    OBVIOUS
  <2>1. a \in Messages /\ toWorker' = [toWorker EXCEPT ![w] = @ \o <<a>>]
    BY <1>3, <1>4 DEF Grants
  <2> QED BY <1>2, <2>1
<1>5. ASSUME NEW y \in Sockets, Grants(w, y) \/ Refuses(w, y), NEW u \in Workers
      PROVE  /\ toWorker'[u] \in Seq(Messages) /\ Len(toWorker[u]) \in Nat
             /\ Len(toWorker'[u]) \in Nat /\ Len(toWorker'[u]) >= Len(toWorker[u])
             /\ \A i \in 1..Len(toWorker[u]) : toWorker'[u][i] = toWorker[u][i]
             /\ \A i \in 1..Len(toWorker'[u]), s \in Sockets :
                  toWorker'[u][i] \in Answers(s) =>
                    \/ i \in 1..Len(toWorker[u])
                    \/ u = w /\ Head(toPrimary[w]) = Claim(s)
                         /\ (toWorker'[u][i] = Answer(s, TRUE) => Grants(w, s))
  <2>1. PICK a \in Messages : /\ toWorker' = [toWorker EXCEPT ![w] = @ \o <<a>>]
                              /\ \/ a = Answer(y, TRUE) /\ Grants(w, y)
                                 \/ a = Answer(y, FALSE)
                              /\ Head(toPrimary[w]) = Claim(y)
    BY <1>3, <1>5 DEF Grants, Refuses
  <2>2. /\ toWorker'[u] \in Seq(Messages) /\ Len(toWorker[u]) \in Nat
        /\ Len(toWorker'[u]) = IF u = w THEN Len(toWorker[u]) + 1 ELSE Len(toWorker[u])
        /\ \A i \in 1..Len(toWorker[u]) : toWorker'[u][i] = toWorker[u][i]
        /\ u = w => toWorker'[u][Len(toWorker[u]) + 1] = a
    BY <1>2, <2>1
  <2>3. ASSUME NEW i \in 1..Len(toWorker'[u]), NEW s \in Sockets, toWorker'[u][i] \in Answers(s),
               i \notin 1..Len(toWorker[u])
        PROVE  /\ u = w /\ Head(toPrimary[w]) = Claim(s)
               /\ toWorker'[u][i] = Answer(s, TRUE) => Grants(w, s)
    <3>1. u = w /\ toWorker'[u][i] = a
      BY <2>2, <2>3
    <3>2. s = y
      <4>1. \A x : Answer(x, TRUE) \in Answers(s) \/ Answer(x, FALSE) \in Answers(s) => x = s
        BY Distinct
      <4> QED BY <2>1, <2>3, <3>1, <4>1
    <3>3. Answer(y, TRUE) # Answer(y, FALSE)
      BY Distinct
    <3> QED BY <2>1, <3>1, <3>2, <3>3
  <2>4. Len(toWorker'[u]) \in Nat /\ Len(toWorker'[u]) >= Len(toWorker[u])
    BY <2>2
  <2> QED BY <2>2, <2>3, <2>4
<1>6. ASSUME toWorker' = toWorker, NEW u \in Workers
      PROVE  /\ toWorker'[u] \in Seq(Messages) /\ Len(toWorker[u]) \in Nat
             /\ Len(toWorker'[u]) \in Nat /\ Len(toWorker'[u]) >= Len(toWorker[u])
             /\ \A i \in 1..Len(toWorker[u]) : toWorker'[u][i] = toWorker[u][i]
             /\ \A i \in 1..Len(toWorker'[u]) : i \in 1..Len(toWorker[u])
  BY <1>1, <1>6, LenProperties
<1>7. CASE toWorker' = toWorker
  BY <1>4, <1>6, <1>7
<1>8. CASE \E y \in Sockets : Grants(w, y) \/ Refuses(w, y)
  BY <1>4, <1>5, <1>8
<1> QED BY <1>7, <1>8, HeardClaims

\* What the messages about names say of a socket.
LEMMA TalkParts ==
  ASSUME CInv, NEW w \in Workers, NEW s \in Sockets
  PROVE  /\ Claim(s) \in ToSet(toPrimary[w]) =>
              at[s] = w /\ phase[s] # "new" /\ (phase[s] \in {"asked", "left"} \/ Lost(w))
         /\ Release(s) \in ToSet(toPrimary[w]) => at[s] = w /\ phase[s] = "gone"
BY DEF CInv, TalksOK, TalkOK

LEMMA HeardContest ==
  ASSUME CInv, CInv', UsualOK, OwnHosts, OwnKeys, HomesOK, ContestOK,
         NEW w \in Workers, Receive(w)
  PROVE  ContestOK'
<1>1. /\ Taken(w) /\ UNCHANGED <<hs, phase, at, tab, status>>
      /\ \A s, ok : Answer(s, ok)' = Answer(s, ok)
      /\ \A s : Claim(s)' = Claim(s) /\ Release(s)' = Release(s) /\ Answers(s)' = Answers(s)
      /\ \A e, r : Rivals(e, r)' <=> Rivals(e, r)
      /\ Head(toPrimary[w]) \in ToSet(toPrimary[w])
  BY Hears, NextMessage DEF Taken, Answer, Answers, Claim, Release, Message, Rivals
<1>2. ASSUME NEW y \in Sockets, Head(toPrimary[w]) = Claim(y)
      PROVE  at[y] = w /\ phase[y] \in {"asked", "left"}
  <2>1. at[y] = w /\ phase[y] # "new" /\ (phase[y] \in {"asked", "left"} \/ Lost(w))
    BY <1>1, <1>2, TalkParts
  <2>2. hs[y] \in Handshakes /\ w = Home(hs[y].host)
    BY <2>1 DEF CInv, SocketsOK, HomesOK
  <2>3. hostSlot[hs[y].host] \in Slots
    BY <2>2, HandshakeParts, ClusterAssumption
  <2> QED BY <2>1, <2>2, <2>3 DEF HomesOK, Home, Lost
<1>3. ASSUME NEW u \in Workers, NEW s \in Sockets, NEW a \in Answers(s), a \in ToSet(toWorker'[u])
      PROVE  \/ a \in ToSet(toWorker[u])
             \/ /\ u = w /\ Head(toPrimary[w]) = Claim(s)
                /\ a = Answer(s, TRUE) => Grants(w, s)
  <2>1. toWorker[u] \in Seq(Messages) /\ toWorker'[u] \in Seq(Messages)
    BY AnswersGrow DEF CInv, TalksOK
  <2>2. PICK i \in 1..Len(toWorker'[u]) : toWorker'[u][i] = a
    BY <1>3, <2>1, SetOf
  <2>3. CASE i \in 1..Len(toWorker[u])
    <3>1. toWorker[u][i] = a
      BY <2>2, <2>3, AnswersGrow
    <3> QED BY <2>1, <2>3, <3>1, SetOf
  <2>4. CASE i \notin 1..Len(toWorker[u])
    <3>1. /\ u = w /\ Head(toPrimary[w]) = Claim(s)
          /\ toWorker'[u][i] = Answer(s, TRUE) => Grants(w, s)
      BY <2>2, <2>4, AnswersGrow
    <3> QED BY <2>2, <3>1
  <2> QED BY <2>3, <2>4
<1>4. WaitingOK'
  <2> SUFFICES ASSUME NEW u \in Workers, NEW s \in Sockets, Answers(s) \cap ToSet(toWorker'[u]) # {}
               PROVE  phase[s] \in {"asked", "left"}
    BY <1>1 DEF WaitingOK
  <2>1. PICK a \in Answers(s) : a \in ToSet(toWorker'[u])
    OBVIOUS
  <2>2. a \in ToSet(toWorker[u]) \/ Head(toPrimary[w]) = Claim(s)
    BY <1>3, <2>1
  <2> QED BY <1>2, <2>1, <2>2 DEF ContestOK, WaitingOK
<1>5. ASSUME NEW u \in Workers, NEW h \in Hosts, tab[u].routes[h] # None, NEW e, e = tab[u].routes[h]
      PROVE  e \in Sockets /\ phase[e] = "open" /\ at[e] = u /\ hs[e].host = h
  <2>1. h \in Keys
    BY TunnelTablesAssumption
  <2>2. e \in Sockets /\ phase[e] = "open" /\ at[e] = u /\ h \in AliasesOf(e)
    BY <1>5, <2>1 DEF CInv, RoutesOK, AliasesOf
  <2> QED BY <2>2, OwnHost
<1>6. UnrivalledOK'
  <2> SUFFICES ASSUME NEW u \in Workers, NEW h \in Hosts, tab[u].routes[h] # None,
                      NEW r \in Sockets, Answer(r, TRUE) \in ToSet(toWorker'[u]),
                      Rivals(tab[u].routes[h], r)
               PROVE  FALSE
    BY <1>1 DEF UnrivalledOK
  <2> PICK e : e = tab[u].routes[h]
    OBVIOUS
  <2>1. e \in Sockets /\ phase[e] = "open" /\ at[e] = u /\ hs[e].host = h
    BY <1>5
  <2>2. Answer(r, TRUE) \notin ToSet(toWorker[u])
    BY DEF ContestOK, UnrivalledOK
  <2>3. u = w /\ Head(toPrimary[w]) = Claim(r) /\ Grants(w, r)
    <3> PICK a : a = Answer(r, TRUE)
      OBVIOUS
    <3>1. a \in Answers(r) /\ a \in ToSet(toWorker'[u]) /\ a \notin ToSet(toWorker[u])
      BY <2>2 DEF Answers
    <3> QED BY <1>3, <3>1
  <2>4. phase[r] # "new"
    BY <1>2, <2>3
  <2>5. /\ hs[e].owner # hs[r].owner /\ hs[e].owner \notin EphemeralOwners
        /\ NameOf[hs[e].host] \in Names /\ NameOf[hs[e].host] \in Asked(r)
    BY <2>1, <2>4, RivalParts
  <2>6. 1 \in 1..Len(toPrimary[w]) /\ toPrimary[w][1] = Claim(r)
    <3>1. toPrimary[w] \in Seq(Messages) /\ toPrimary[w] # <<>>
      BY <1>1 DEF CInv, TalksOK, Taken
    <3> QED BY <2>3, <3>1, LenProperties
  <2>7. PICK x \in Sockets : RestsFor(h, x, hs[e].owner)
    BY <2>3, <2>6 DEF ContestOK, BarredOK
  <2>8. Resting(NameOf[hs[e].host], x) /\ hs[x].owner = hs[e].owner
    BY <2>1, <2>7 DEF RestsFor
  <2>9. hs[r].owner = hs[x].owner
    BY <2>3, <2>5, <2>8, GrantsToOwner
  <2> QED BY <2>5, <2>8, <2>9
<1>7. GrantedOK'
  <2> SUFFICES ASSUME NEW u \in Workers, NEW i \in 1..Len(toWorker'[u]), NEW s \in Sockets,
                      toWorker'[u][i] = Answer(s, TRUE), NameOf[hs[s].host] # None,
                      hs[s].owner \notin EphemeralOwners
               PROVE  \E j \in i..Len(toWorker'[u]), x \in Sockets :
                        /\ toWorker'[u][j] = Answer(x, TRUE)
                        /\ RestsFor(hs[s].host, x, hs[s].owner)'
    BY <1>1 DEF GrantedOK, RestsFor, Resting
  <2>1. /\ toWorker'[u] \in Seq(Messages) /\ Len(toWorker[u]) \in Nat
        /\ Len(toWorker'[u]) \in Nat /\ Len(toWorker'[u]) >= Len(toWorker[u])
        /\ \A l \in 1..Len(toWorker[u]) : toWorker'[u][l] = toWorker[u][l]
    BY AnswersGrow
  <2>2. Answer(s, TRUE) \in ToSet(toWorker'[u]) /\ at[s] = u /\ phase[s] # "new"
    <3>1. Answer(s, TRUE) \in ToSet(toWorker'[u])
      BY <2>1, SetOf
    <3>2. Answers(s) \cap ToSet(toWorker'[u]) # {}
      BY <3>1 DEF Answers
    <3> QED BY <1>1, <3>1, <3>2 DEF CInv, TalksOK, TalkOK
  <2>3. CASE i \in 1..Len(toWorker[u])
    <3>1. PICK j \in i..Len(toWorker[u]), x \in Sockets :
            toWorker[u][j] = Answer(x, TRUE) /\ RestsFor(hs[s].host, x, hs[s].owner)
      BY <2>1, <2>3 DEF ContestOK, GrantedOK
    <3>2. j \in 1..Len(toWorker[u]) /\ j \in i..Len(toWorker'[u]) /\ toWorker'[u][j] = Answer(x, TRUE)
      <4>1. j \in 1..Len(toWorker[u]) /\ j \in i..Len(toWorker'[u])
        BY <2>1, <2>3
      <4> QED BY <2>1, <3>1, <4>1
    <3>3. Head(toPrimary[w]) # Release(x)
      <4>1. Answer(x, TRUE) \in ToSet(toWorker[u])
        <5>1. toWorker[u] \in Seq(Messages)
          BY DEF CInv, TalksOK
        <5> QED BY <3>1, <3>2, <5>1, SetOf
      <4>2. phase[x] \in {"asked", "left"}
        BY <4>1 DEF Answers, ContestOK, WaitingOK
      <4> QED BY <1>1, <4>2, TalkParts
    <3>4. \/ RestsFor(hs[s].host, x, hs[s].owner)'
          \/ \E y \in Sockets : /\ Grants(w, y) /\ w = at[s] /\ phase[y] \in {"asked", "left"}
                                /\ RestsFor(hs[s].host, y, hs[s].owner)'
      BY <2>2, <3>1, <3>3, RestsOn
    <3>5. ASSUME NEW y \in Sockets, Grants(w, y), w = at[s], RestsFor(hs[s].host, y, hs[s].owner)'
          PROVE  \E k \in i..Len(toWorker'[u]), z \in Sockets :
                   toWorker'[u][k] = Answer(z, TRUE) /\ RestsFor(hs[s].host, z, hs[s].owner)'
      <4>1. toWorker'[u][Len(toWorker'[u])] = Answer(y, TRUE)
        BY <2>2, <3>5, AnswersGrow
      <4>2. Len(toWorker'[u]) \in i..Len(toWorker'[u])
        BY <2>1, <2>3
      <4> QED BY <3>5, <4>1, <4>2
    <3> QED BY <3>2, <3>4, <3>5
  <2>4. CASE i \notin 1..Len(toWorker[u])
    <3>1. Grants(w, s)
      <4>1. toWorker'[u][i] \in Answers(s)
        BY DEF Answers
      <4>2. /\ u = w /\ Head(toPrimary[w]) = Claim(s)
            /\ toWorker'[u][i] = Answer(s, TRUE) => Grants(w, s)
        BY <2>4, <4>1, AnswersGrow
      <4> QED BY <4>2
    <3>2. NameOf[hs[s].host] \in Names /\ NameOf[hs[s].host] \in Asked(s)
      <4>1. hs[s].host \in Hosts
        BY <2>2, HandshakeParts DEF CInv, SocketsOK
      <4>2. NameOf[hs[s].host] \in Names
        BY <4>1, TunnelTablesAssumption
      <4>3. NameOf[hs[s].host] \in resolveRequestedNames(hs[s])
        BY DEF resolveRequestedNames
      <4> QED BY <4>2, <4>3 DEF Asked
    <3>3. RestsFor(hs[s].host, s, hs[s].owner)'
      BY <1>1, <3>1, <3>2 DEF Grants, RestsFor, Resting
    <3>4. i \in i..Len(toWorker'[u])
      BY <2>1
    <3> QED BY <3>3, <3>4
  <2> QED BY <2>3, <2>4
<1>8. BarredOK'
  <2> SUFFICES ASSUME NEW u \in Workers, NEW h \in Hosts, tab[u].routes[h] # None,
                      NEW r \in Sockets, NEW j \in 1..Len(toPrimary'[u]),
                      toPrimary'[u][j] = Claim(r), Rivals(tab[u].routes[h], r)
               PROVE  \E x \in Sockets :
                        /\ RestsFor(h, x, hs[tab[u].routes[h]].owner)'
                        /\ \A i \in 1..(j - 1) : toPrimary'[u][i] # Release(x)
    BY <1>1 DEF BarredOK, RestsFor, Resting
  <2> PICK e : e = tab[u].routes[h]
    OBVIOUS
  <2> PICK p : p = toPrimary'[u]
    OBVIOUS
  <2> PICK q : q = toPrimary[u]
    OBVIOUS
  <2>1. e \in Sockets /\ phase[e] = "open" /\ at[e] = u /\ hs[e].host = h
    BY <1>5
  <2>2. /\ q \in Seq(Messages) /\ Len(q) \in Nat /\ p \in Seq(Messages) /\ Len(p) \in Nat
        /\ u = w => /\ Len(q) = Len(p) + 1 /\ q[1] = Head(toPrimary[w])
                    /\ \A i \in 1..Len(p) : p[i] = q[i + 1]
        /\ u # w => p = q
    <3>1. CASE u = w
      <4>1. q \in Seq(Messages) /\ q # <<>> /\ p = Tail(q)
        BY <1>1, <3>1 DEF Taken, CInv, TalksOK
      <4>2. /\ Len(q) = Len(p) + 1 /\ Len(p) \in Nat /\ q[1] = Head(q) /\ p \in Seq(Messages)
            /\ \A i \in 1..Len(p) : p[i] = q[i + 1]
        <5>1. /\ Len(q) = Len(Tail(q)) + 1 /\ Len(Tail(q)) \in Nat /\ q[1] = Head(q)
              /\ \A i \in 1..Len(Tail(q)) : Tail(q)[i] = q[i + 1]
          BY <4>1, LaterTail
        <5>2. Tail(q) \in Seq(Messages)
          BY <4>1, TailParts
        <5> QED BY <4>1, <5>1, <5>2
      <4>3. Len(q) \in Nat /\ q[1] = Head(toPrimary[w])
        BY <3>1, <4>2
      <4> QED BY <3>1, <4>1, <4>2, <4>3
    <3>2. CASE u # w
      <4>1. p = q /\ q \in Seq(Messages)
        BY <1>1, <3>2 DEF Taken, CInv, TalksOK
      <4> QED BY <3>2, <4>1, LenProperties
    <3> QED BY <3>1, <3>2
  <2>3. Claim(r) \in ToSet(p) /\ phase[r] # "new"
    <3>1. Claim(r) \in ToSet(p)
      BY <2>2, SetOf
    <3> QED BY <1>1, <3>1 DEF CInv, TalksOK, TalkOK
  <2>4. NameOf[hs[e].host] # None /\ hs[e].owner \notin EphemeralOwners
    BY <2>1, <2>3, RivalParts
  <2>5. PICK x \in Sockets :
          /\ RestsFor(h, x, hs[e].owner) /\ \A i \in 1..(j - 1) : p[i] # Release(x)
          /\ u = w => Head(toPrimary[w]) # Release(x)
    <3>1. CASE u = w
      <4>1. j + 1 \in 1..Len(q) /\ q[j + 1] = Claim(r)
        <5>1. j + 1 \in 1..Len(q)
          BY <2>2, <3>1
        <5> QED BY <2>2, <3>1, <5>1
      <4>2. PICK x \in Sockets : /\ RestsFor(h, x, hs[e].owner)
                                 /\ \A i \in 1..((j + 1) - 1) : q[i] # Release(x)
        BY <4>1 DEF ContestOK, BarredOK
      <4>3. ASSUME NEW i \in 1..(j - 1) PROVE p[i] # Release(x)
        <5>1. i \in 1..Len(p) /\ i + 1 \in 1..((j + 1) - 1)
          BY <2>2
        <5> QED BY <2>2, <3>1, <4>2, <5>1
      <4>4. 1 \in 1..((j + 1) - 1)
        OBVIOUS
      <4> QED BY <2>2, <4>2, <4>3, <4>4
    <3>2. CASE u # w
      BY <2>2, <3>2 DEF ContestOK, BarredOK
    <3> QED BY <3>1, <3>2
  <2>6. /\ phase[x] # "new" /\ at[x] = at[e]
        /\ \/ Head(toPrimary[w]) = Release(x)
           \/ RestsFor(h, x, hs[e].owner)'
           \/ \E y \in Sockets : /\ Grants(w, y) /\ w = at[e] /\ phase[y] \in {"asked", "left"}
                                 /\ RestsFor(h, y, hs[e].owner)'
    <3>1. RestsFor(hs[e].host, x, hs[e].owner) /\ phase[e] # "new"
      BY <2>1, <2>5
    <3>2. /\ phase[x] # "new" /\ at[x] = Home(hs[e].host) /\ at[e] = Home(hs[e].host)
          /\ \/ Head(toPrimary[w]) = Release(x)
             \/ RestsFor(hs[e].host, x, hs[e].owner)'
             \/ \E y \in Sockets : /\ Grants(w, y) /\ w = at[e] /\ phase[y] \in {"asked", "left"}
                                   /\ RestsFor(hs[e].host, y, hs[e].owner)'
      BY <2>1, <2>4, <3>1, RestsOn
    <3>3. \A z, c : RestsFor(hs[e].host, z, c)' <=> RestsFor(h, z, c)'
      BY <1>1, <2>1 DEF RestsFor, Resting
    <3> QED BY <3>2, <3>3
  <2>7. Head(toPrimary[w]) # Release(x)
    <3>1. Head(toPrimary[w]) = Release(x) => at[x] = w
      BY <1>1, TalkParts
    <3> QED BY <2>1, <2>5, <2>6, <3>1
  <2>8. ASSUME NEW y \in Sockets, phase[y] \in {"asked", "left"}, NEW i \in 1..(j - 1)
        PROVE  p[i] # Release(y)
    <3>1. i \in 1..Len(p)
      BY <2>2
    <3>2. p[i] \in ToSet(p)
      BY <2>2, <3>1, SetOf
    <3>3. p[i] \in ToSet(q)
      <4>1. CASE u = w
        <5>1. q \in Seq(Messages) /\ q # <<>> /\ p = Tail(q)
          BY <1>1, <4>1 DEF Taken, CInv, TalksOK
        <5> QED BY <3>2, <5>1, TailParts
      <4>2. CASE u # w
        BY <2>2, <3>2, <4>2
      <4> QED BY <4>1, <4>2
    <3> QED BY <2>8, <3>3, TalkParts
  <2>9. CASE RestsFor(h, x, hs[e].owner)'
    BY <1>1, <2>5, <2>9 DEF RestsFor
  <2>10. CASE \E y \in Sockets : phase[y] \in {"asked", "left"} /\ RestsFor(h, y, hs[e].owner)'
    BY <1>1, <2>8, <2>10 DEF RestsFor
  <2> QED BY <2>6, <2>7, <2>9, <2>10
<1> QED BY <1>4, <1>6, <1>7, <1>8 DEF ContestOK

\* Whom a name rests on keeps it as it ages.
LEMMA AgeLeaves ==
  ASSUME NEW cl \in ClaimTable, NEW n \in Names, cl[n] # None
  PROVE  Age(cl)[n] # None /\ Age(cl)[n].socketId = cl[n].socketId
<1> PICK c : c = cl[n]
  OBVIOUS
<1>1. c \in Entry /\ None \notin Entry
  BY NameClaimsAssumption DEF ClaimTable
<1>2. Age(cl)[n] # c => c.idle < IdleCap /\ Age(cl)[n] = [c EXCEPT !.idle = @ + 1]
  BY DEF Age
<1>3. c.idle < IdleCap =>
        [c EXCEPT !.idle = @ + 1] \in Entry /\ [c EXCEPT !.idle = @ + 1].socketId = c.socketId
  BY <1>1, CapNat DEF Entry
<1> QED BY <1>1, <1>2, <1>3

\* What ages claims or changes nothing leaves everybody the names he has.
LEMMA RestingContest ==
  ASSUME CInv, OwnHosts, OwnKeys, ContestOK, UNCHANGED <<hs, phase, at, tab, toPrimary, toWorker>>,
         \A n \in Names, x \in Sockets : Resting(n, x) => Resting(n, x)'
  PROVE  ContestOK'
<1>1. /\ \A s, ok : Answer(s, ok)' = Answer(s, ok)
      /\ \A s : Claim(s)' = Claim(s) /\ Release(s)' = Release(s) /\ Answers(s)' = Answers(s)
      /\ \A e, r : Rivals(e, r)' <=> Rivals(e, r)
  BY DEF Answer, Answers, Claim, Release, Message, Rivals
<1>2. \A h, c, x : x \in Sockets /\ NameOf[h] \in Names /\ RestsFor(h, x, c) => RestsFor(h, x, c)'
  BY DEF RestsFor
<1>3. WaitingOK' /\ UnrivalledOK'
  BY <1>1 DEF ContestOK, WaitingOK, UnrivalledOK
<1>4. GrantedOK'
  <2> SUFFICES ASSUME NEW u \in Workers, NEW i \in 1..Len(toWorker'[u]), NEW s \in Sockets,
                      toWorker'[u][i] = Answer(s, TRUE)', NameOf[hs'[s].host] # None,
                      hs'[s].owner \notin EphemeralOwners
               PROVE  \E j \in i..Len(toWorker'[u]), x \in Sockets :
                        /\ toWorker'[u][j] = Answer(x, TRUE)'
                        /\ RestsFor(hs[s].host, x, hs[s].owner)'
    BY DEF GrantedOK
  <2>1. PICK j \in i..Len(toWorker[u]), x \in Sockets :
          toWorker[u][j] = Answer(x, TRUE) /\ RestsFor(hs[s].host, x, hs[s].owner)
    BY DEF ContestOK, GrantedOK
  <2>2. NameOf[hs[s].host] \in Names
    <3>1. Answers(s) \cap ToSet(toWorker[u]) # {}
      <4>1. toWorker[u] \in Seq(Messages) /\ toWorker[u][i] \in Answers(s)
        BY DEF CInv, TalksOK, Answers
      <4> QED BY <4>1, SetOf
    <3>2. hs[s].host \in Hosts
      BY <3>1, HandshakeParts DEF CInv, TalksOK, TalkOK, SocketsOK
    <3> QED BY <3>2, TunnelTablesAssumption
  <2> QED BY <1>2, <2>1, <2>2
<1>5. BarredOK'
  <2> SUFFICES ASSUME NEW u \in Workers, NEW h \in Hosts, tab[u].routes[h] # None,
                      NEW r \in Sockets, NEW j \in 1..Len(toPrimary[u]),
                      toPrimary[u][j] = Claim(r), Rivals(tab[u].routes[h], r)
               PROVE  \E x \in Sockets :
                        /\ RestsFor(h, x, hs[tab[u].routes[h]].owner)'
                        /\ \A i \in 1..(j - 1) : toPrimary[u][i] # Release(x)
    BY <1>1 DEF BarredOK, RestsFor, Resting
  <2>1. PICK x \in Sockets : /\ RestsFor(h, x, hs[tab[u].routes[h]].owner)
                             /\ \A i \in 1..(j - 1) : toPrimary[u][i] # Release(x)
    BY DEF ContestOK, BarredOK
  <2> PICK e : e = tab[u].routes[h]
    OBVIOUS
  <2>2. e \in Sockets /\ phase[e] = "open" /\ hs[e].host = h
    <3>1. h \in Keys
      BY TunnelTablesAssumption
    <3>2. e \in Sockets /\ phase[e] = "open" /\ h \in AliasesOf(e)
      BY <3>1 DEF CInv, RoutesOK, AliasesOf
    <3> QED BY <3>2, OwnHost
  <2>3. phase[r] # "new"
    <3>1. toPrimary[u] \in Seq(Messages)
      BY DEF CInv, TalksOK
    <3>2. Claim(r) \in ToSet(toPrimary[u])
      BY <3>1, SetOf
    <3> QED BY <3>2, TalkParts
  <2>4. NameOf[h] \in Names
    BY <2>2, <2>3, RivalParts
  <2> QED BY <1>2, <2>1, <2>4
<1> QED BY <1>3, <1>4, <1>5 DEF ContestOK

-----------------------------------------------------------------------------
LEMMA InitUInv == Init => UInv
<1> SUFFICES ASSUME Init PROVE UInv
  OBVIOUS
<1>1. /\ phase = [s \in Sockets |-> "new"] /\ tab = [w \in Workers |-> NoTables]
      /\ slots = CHOOSE f \in [Slots -> Workers] : IsInjective(f)
      /\ status = [w \in Workers |-> IF w \in ToSet(slots) THEN "up" ELSE "unborn"]
      /\ primary = FreshPrimary(ToSet(slots))
      /\ toPrimary = [w \in Workers |-> <<>>] /\ toWorker = [w \in Workers |-> <<>>]
  BY DEF Init
<1>2. slots \in [Slots -> Workers] /\ IsInjective(slots)
  BY <1>1, ClusterAssumption
<1>3. HomesOK
  <2>1. \A i \in Slots : slots[i] \in ToSet(slots)
    BY <1>2 DEF ToSet
  <2> QED BY <1>1, <1>2, <2>1 DEF HomesOK
<1>4. UsualOK
  BY <1>1, Empty DEF UsualOK
<1>5. Hosts \subseteq Keys /\ \A g \in Handshakes : g.host \in Keys /\ g.keys \subseteq Keys
  BY TunnelTablesAssumption, HandshakeParts, ClusterAssumption DEF Handshake
<1>6. TogetherOK /\ SaidOK
  BY <1>1, <1>5 DEF TogetherOK, SaidOK, NoTables
<1>7. LedgersOK
  BY <1>1, <1>5 DEF LedgersOK, LedgerOK, NoTables
<1>8. ListedOK
  BY <1>1, <1>5 DEF ListedOK, FreshPrimary
<1>9. EpochsOK
  BY <1>1 DEF EpochsOK
<1>10. ContestOK
  <2>1. \A w \in Workers : ToSet(toWorker[w]) = {} /\ Len(toWorker[w]) = 0
    BY <1>1, Empty, EmptySeq
  <2>2. \A w \in Workers, h \in Hosts : tab[w].routes[h] = None
    BY <1>1, <1>5 DEF NoTables
  <2>3. WaitingOK
    BY <2>1 DEF WaitingOK
  <2>4. \A w \in Workers : \A i \in 1..Len(toWorker[w]) : FALSE
    BY <2>1
  <2>5. GrantedOK
    BY <2>4 DEF GrantedOK
  <2> QED BY <2>2, <2>3, <2>5 DEF ContestOK, BarredOK, UnrivalledOK
<1> QED BY <1>3, <1>4, <1>6, <1>7, <1>8, <1>9, <1>10 DEF UInv

\* As long as no worker is lost and nobody is removed, these are the steps.
LEMMA UndisturbedSteps ==
  ASSUME CInv, removals \in Nat, [Next]_vars, Undisturbed'
  PROVE  /\ Undisturbed /\ removals' = removals
         /\ \/ \E s \in Sockets, h \in Handshakes, w \in Workers :
                 Refuse(s, h, w) \/ Ask(s, h, w) \/ TakeOver(s, h, w)
            \/ \E s \in Sockets : GiveUp(s) \/ Close(s)
            \/ \E w \in Workers : Answered(w) \/ DoDisconnect(w) \/ Receive(w)
            \/ Hour \/ ShutDown \/ UNCHANGED vars
<1>1. status \in [Workers -> {"unborn", "up", "dead", "exited"}]
  BY DEF CInv, SocketsOK
<1>2. ASSUME NEW w \in Workers PROVE ~Crash(w) /\ ~WorkerStops(w) /\ ~Exit(w)
  <2>1. Dies(w) => status'[w] = "dead"
    BY <1>1 DEF Dies
  <2> QED BY <2>1, ExitDisturbs DEF Crash, WorkerStops, Undisturbed, Having
<1>3. ASSUME NEW w \in Workers
      PROVE  /\ \A k \in AdminKeys : ~RemoveTunnel(w, k)
             /\ \A l \in AdminLabels : ~RemoveClient(w, l)
  BY DEF RemoveTunnel, RemoveClient, Removal, Undisturbed
<1>4. \/ \E s \in Sockets, h \in Handshakes, w \in Workers :
           Refuse(s, h, w) \/ Ask(s, h, w) \/ TakeOver(s, h, w)
      \/ \E s \in Sockets : GiveUp(s) \/ Close(s)
      \/ \E w \in Workers : Answered(w) \/ DoDisconnect(w) \/ Receive(w)
      \/ Hour \/ ShutDown \/ UNCHANGED vars
  BY <1>2, <1>3 DEF Next
<1>5. status' = status /\ removals' = removals
  <2>1. ASSUME NEW s \in Sockets, NEW h \in Handshakes, NEW w \in Workers,
               Refuse(s, h, w) \/ Ask(s, h, w) \/ TakeOver(s, h, w)
        PROVE  status' = status /\ removals' = removals
    BY <2>1 DEF Refuse, Ask, TakeOver, workerVars
  <2>2. ASSUME NEW s \in Sockets, GiveUp(s) \/ Close(s)
        PROVE  status' = status /\ removals' = removals
    BY <2>2 DEF GiveUp, Close, workerVars
  <2>3. ASSUME NEW w \in Workers, Answered(w) \/ DoDisconnect(w)
        PROVE  status' = status /\ removals' = removals
    BY <2>3 DEF Answered, DoDisconnect
  <2>4. ASSUME NEW w \in Workers, Receive(w)
        PROVE  status' = status /\ removals' = removals
    BY <2>4 DEF Receive, OnRegister, OnUnregister, OnClaim, OnRelease, OnForget, OnDisconnect,
                Handled, workerVars
  <2>5. Hour \/ ShutDown \/ UNCHANGED vars => status' = status /\ removals' = removals
    BY DEF Hour, ShutDown, vars, workerVars
  <2> QED BY <1>4, <2>1, <2>2, <2>3, <2>4, <2>5
<1> QED BY <1>4, <1>5 DEF Undisturbed, Having

LEMMA StepUInv ==
  ASSUME OwnHosts, OwnKeys, CInv, RInv, UInv, removals \in Nat, [Next]_vars, Undisturbed'
  PROVE  UInv'
<1>1. /\ CInv' /\ HomesOK /\ UsualOK /\ TogetherOK /\ LedgersOK /\ SaidOK /\ ListedOK /\ EpochsOK
      /\ ContestOK /\ UnrivalledOK
  BY StepCInv DEF UInv, ContestOK
<1>2. ASSUME Steered, Steady, Settles PROVE UInv'
  <2>0. PICK w \in Workers : \E msgs : Routing(w, msgs)
    BY <1>2 DEF Steered
  <2>1. PICK msgs : Routing(w, msgs)
    BY <2>0
  <2>2. slots' = slots /\ HomesOK' /\ UsualOK' /\ LedgersOK'
    BY <1>2 DEF Steady
  <2>3. TogetherOK'
    BY <1>1, <1>2, <2>1, <2>2, RoutingTogether
  <2>4. SaidOK'
    BY <1>1, <2>1, RoutingSaid
  <2>5. ListedOK'
    BY <1>1, <2>1, <2>2, RoutingListed
  <2>6. EpochsOK' /\ ContestOK'
    BY <1>1, <1>2, <2>1, RoutingEpochs, RoutingContest
  <2> QED BY <2>2, <2>3, <2>4, <2>5, <2>6 DEF UInv
<1>3. ASSUME NEW s \in Sockets, NEW h \in Handshakes, NEW w \in Workers,
             Refuse(s, h, w) \/ Ask(s, h, w) \/ TakeOver(s, h, w)
      PROVE  UInv'
  <2>1. Steered
    BY <1>3, RefuseKeeps, AskKeeps, TakeOverKeeps
  <2>2. Steady /\ Settles
    BY <1>1, <1>3, RefuseOrAskSteady, TakeOverSteady, RefuseOrAskSettles, TakeOverSettles
  <2> QED BY <1>2, <2>1, <2>2
<1>4. ASSUME NEW s \in Sockets, GiveUp(s) \/ Close(s) PROVE UInv'
  <2>1. Steered
    BY <1>4, GiveUpKeeps, CloseKeeps
  <2>2. Steady /\ Settles
    BY <1>1, <1>4, GiveUpSteady, CloseSteady, GiveUpSettles, CloseSettles
  <2> QED BY <1>2, <2>1, <2>2
<1>5. ASSUME NEW w \in Workers, Answered(w) PROVE UInv'
  BY <1>1, <1>2, <1>5, AnsweredKeeps, AnsweredSteady, AnsweredSettles
<1>6. ASSUME NEW w \in Workers, DoDisconnect(w) PROVE FALSE
  <2>1. toWorker[w] # <<>> /\ Head(toWorker[w]).type = "DO_DISCONNECT_SOCKET"
    BY <1>6 DEF DoDisconnect
  <2>2. Head(toWorker[w]) \in ToSet(toWorker[w])
    BY <2>1, TailParts DEF CInv, TalksOK
  <2> QED BY <1>1, <2>1, <2>2 DEF UsualOK
<1>7. ASSUME NEW w \in Workers, Receive(w) PROVE UInv'
  <2>1. Taken(w) /\ slots' = slots /\ UsualOK'
    BY <1>1, <1>7, Hears
  <2>2. SaidOK' /\ ListedOK' /\ EpochsOK' /\ ContestOK'
    BY <1>1, <1>7, HeardSaid, HeardListed, HeardEpochs, HeardContest
  <2>3. HomesOK' /\ TogetherOK' /\ LedgersOK'
    BY <1>1, <2>1 DEF Taken, HomesOK, TogetherOK, LedgersOK, LedgerOK, Home
  <2> QED BY <2>1, <2>2, <2>3 DEF UInv
<1>8. CASE Hour \/ ShutDown \/ UNCHANGED vars
  <2>1. /\ UNCHANGED <<hs, phase, at, tab, status, slots, toPrimary, toWorker>>
        /\ primary' = primary \/ primary' = [primary EXCEPT !.claims = Age(@)]
    BY <1>8 DEF Hour, ShutDown, vars, socketVars, workerVars
  <2>2. DOMAIN primary = Fields
    BY DEF CInv, Shape
  <2>3. /\ primary'.hostToWorker = primary.hostToWorker
        /\ primary'.sockets = primary.sockets
        /\ primary'.claims = primary.claims \/ primary'.claims = Age(primary.claims)
    BY <2>1, <2>2 DEF Fields
  <2>4. HomesOK' /\ UsualOK' /\ TogetherOK' /\ LedgersOK'
    BY <1>1, <2>1 DEF HomesOK, UsualOK, TogetherOK, LedgersOK, LedgerOK, Home
  <2>5. SaidOK'
    BY <1>1, <2>1, <2>3 DEF SaidOK, LastSaid, Renewed, Reg
  <2>6. ListedOK'
    BY <1>1, <2>1, <2>3 DEF ListedOK, Elsewhere, Home
  <2>7. EpochsOK'
    <3>1. /\ \A s : Reg(s)' = Reg(s) /\ Unreg(s)' = Unreg(s)
          /\ primary'.sockets = primary.sockets
      BY <2>3 DEF Reg, Unreg, Message
    <3>2. /\ \A w, i, s : Said(w, i, s)' <=> Said(w, i, s)
          /\ \A w, i, j, r : Stands(w, i, j, r)' <=> Stands(w, i, j, r)
      BY <2>1, <3>1 DEF Said, Stands
    <3> QED BY <1>1, <2>1, <3>1, <3>2 DEF EpochsOK
  <2>8. ASSUME NEW n \in Names, NEW x \in Sockets, Resting(n, x) PROVE Resting(n, x)'
    <3>1. primary.claims \in ClaimTable
      BY ShapeFields DEF CInv
    <3>2. primary.claims[n] # None /\ primary.claims[n].socketId = x
      BY <2>8 DEF Resting
    <3>3. Age(primary.claims)[n] # None /\ Age(primary.claims)[n].socketId = x
      BY <3>1, <3>2, AgeLeaves
    <3> QED BY <2>3, <3>2, <3>3 DEF Resting
  <2>9. ContestOK'
    BY <1>1, <2>1, <2>8, RestingContest
  <2> QED BY <2>4, <2>5, <2>6, <2>7, <2>9 DEF UInv
<1> QED BY <1>3, <1>4, <1>5, <1>6, <1>7, <1>8, UndisturbedSteps

-----------------------------------------------------------------------------
(* Where a visitor finds a tunnel, and where the primary hands it to, once *)
(* the channels are empty.                                                 *)

LEMMA ListedAtRest ==
  ASSUME CInv, RInv, UInv, Quiet
  PROVE  /\ \A u \in Workers, h \in Hosts : tab[u].routes[h] # None =>
              primary.hostToWorker[h] = u /\ primary.sockets[h] = tab[u].routes[h]
         /\ \A h \in Hosts : primary.hostToWorker[h] # None =>
              /\ primary.hostToWorker[h] \in Workers
              /\ tab[primary.hostToWorker[h]].routes[h] # None
<1>1. ASSUME NEW u \in Workers, NEW h \in Hosts, tab[u].routes[h] # None
      PROVE  primary.hostToWorker[h] = u /\ primary.sockets[h] = tab[u].routes[h]
  <2>1. Len(toPrimary[u]) = 0
    BY EmptySeq DEF Quiet
  <2>2. PICK i \in 0..Len(toPrimary[u]) : LastSaid(u, h, tab[u].routes[h], i)
    BY <1>1 DEF UInv, SaidOK
  <2>3. i = 0
    BY <2>1, <2>2
  <2> QED BY <2>2, <2>3 DEF LastSaid
<1>2. ASSUME NEW h \in Hosts, primary.hostToWorker[h] # None
      PROVE  /\ primary.hostToWorker[h] \in Workers
             /\ tab[primary.hostToWorker[h]].routes[h] # None
  <2>1. primary.hostToWorker[h] \in Workers
    BY <1>2, TunnelTablesAssumption DEF RInv, HeldOK
  <2> QED BY <1>2, <2>1, RoutedAtRest DEF NoStaleRoutes
<1> QED BY <1>1, <1>2

\* A worker that leads a key to a tunnel leads its host to the same tunnel.
LEMMA LeadsToHost ==
  ASSUME CInv, UInv, OwnHosts, OwnKeys, NEW u \in Workers, NEW k \in Keys,
         \/ Via(tab[u], k) # None
         \/ \E s \in Sockets : k \in hs[s].ids /\ \E j \in Keys : tab[u].routes[j] = s
  PROVE  \E s \in Sockets : /\ hs[s].host \in Hosts /\ tab[u].routes[hs[s].host] = s
                            /\ k \in Named(hs[s])
<1>1. ASSUME NEW j \in Keys, NEW s \in Sockets, tab[u].routes[j] = s
      PROVE  /\ j \in Named(hs[s]) /\ hs[s].host \in Hosts /\ tab[u].routes[hs[s].host] = s
             /\ hs[s].ids \subseteq hs[s].keys
  <2>1. phase[s] = "open" /\ at[s] = u /\ j \in Aliases(hs[s], granted[s])
    BY <1>1, NameClaimsAssumption DEF CInv, RoutesOK
  <2>2. /\ j \in Named(hs[s]) /\ hs[s].host \in Hosts
        /\ hs[s].ids \subseteq hs[s].keys
    BY <2>1, NamedSockets, OwnHost DEF AliasesOf, OwnKeys
  <2>3. CASE j = hs[s].host
    BY <1>1, <2>2, <2>3
  <2>4. CASE j \in hs[s].keys
    <3>1. TogetherOK
      BY DEF UInv
    <3>2. tab[u].routes[j] = s <=> tab[u].routes[hs[s].host] = s
      BY <2>1, <2>4, <3>1 DEF TogetherOK
    <3> QED BY <1>1, <2>2, <3>2
  <2> QED BY <2>2, <2>3, <2>4 DEF Named
<1>2. CASE \E s \in Sockets : k \in hs[s].ids /\ \E j \in Keys : tab[u].routes[j] = s
  BY <1>1, <1>2 DEF Named
<1>3. CASE tab[u].routes[k] # None
  <2>1. tab[u].routes[k] \in Sockets
    BY <1>3 DEF CInv, RoutesOK
  <2> QED BY <1>1, <2>1
<1>4. Via(tab[u], k) # None => tab[u].routes[k] # None
  <2>1. LedgerOK(tab[u], {})
    BY DEF UInv, LedgersOK
  <2>2. tab[u].primary[k] # None => tab[u].primary[k] = k \/ tab[u].routes[k] # None
    BY <2>1 DEF LedgerOK
  <2> QED BY <2>2 DEF Via
<1> QED BY <1>2, <1>3, <1>4

\* What a worker that answers a visitor has.
LEMMA AnswersWith ==
  ASSUME CInv, UInv, OwnHosts, OwnKeys, NEW u \in Workers, NEW v, NEW k \in Keys, v.keys = <<k>>,
         findTunnelSocket(tab[u], hs, v) # {}
  PROVE  \/ \E s \in Sockets : /\ hs[s].host \in Hosts /\ tab[u].routes[hs[s].host] = s
                               /\ k \in Named(hs[s])
         \/ v.local /\ \E h \in Hosts : tab[u].active = {h} /\ tab[u].routes[h] # None
<1>1. DOMAIN v.keys = {1} /\ v.keys[1] = k
  OBVIOUS
<1>2. CASE \E i \in DOMAIN v.keys : Via(tab[u], v.keys[i]) # None
  <2>1. Via(tab[u], k) # None
    BY <1>1, <1>2
  <2> QED BY <2>1, LeadsToHost
<1>3. CASE {s \in Sockets : (\E j \in Keys : tab[u].routes[j] = s) /\ k \in hs[s].ids} # {}
  BY <1>3, LeadsToHost
<1>4. ASSUME v.local, Cardinality(tab[u].active) = 1,
             {tab[u].routes[h] : h \in tab[u].active} \ {None} # {}
      PROVE  \E h \in Hosts : tab[u].active = {h} /\ tab[u].routes[h] # None
  <2>1. tab[u].active \subseteq Hosts
    BY DEF UInv, LedgersOK, LedgerOK
  <2>2. ASSUME NEW h \in tab[u].active
        PROVE  tab[u].routes[h] \in Sockets /\ h = hs[tab[u].routes[h]].host
    <3>1. h \in Hosts /\ h \in Keys /\ tab[u].routes[h] # None
      BY <2>1, TunnelTablesAssumption DEF UInv, LedgersOK, LedgerOK
    <3>2. PICK s \in Sockets : s = tab[u].routes[h]
      BY <3>1 DEF CInv, RoutesOK
    <3>3. phase[s] = "open" /\ h \in Aliases(hs[s], granted[s])
      BY <3>1, <3>2 DEF CInv, RoutesOK
    <3>4. hs[s] \in Handshakes /\ h \in Named(hs[s])
      BY <3>3, NamedSockets DEF AliasesOf
    <3> QED BY <3>1, <3>2, <3>4, NamedParts
  <2>3. [h \in tab[u].active |-> tab[u].routes[h]] \in Injection(tab[u].active, Sockets)
    BY <2>2 DEF Injection, IsInjective
  <2>4. IsFiniteSet(tab[u].active)
    BY <2>3, TunnelTablesAssumption, FS_Injection
  <2> QED BY <1>4, <2>1, <2>4, FS_Singleton
<1> QED BY <1>1, <1>2, <1>3, <1>4 DEF findTunnelSocket

\* The primary hands a key to the worker that has the tunnel it was announced with, unless
\* it was announced at another worker.
LEMMA HandedWithHost ==
  ASSUME CInv, RInv, UInv, Quiet, OwnHosts, NEW w \in Workers, NEW v \in Visitors,
         NEW k \in Keys, v.keys = <<k>>, OnlyAt(v, w), NEW s \in Sockets, k \in Named(hs[s]),
         hs[s].host \in Hosts, tab[w].routes[hs[s].host] = s
  PROVE  resolveWorker(v) = {w}
<1>1. PICK h : h = hs[s].host
  OBVIOUS
<1>2. primary.hostToWorker[h] = w /\ w # None /\ primary.sockets[h] = s /\ s # None /\ h \in Keys
  BY <1>1, ListedAtRest, ClusterAssumption, NameClaimsAssumption, TunnelTablesAssumption
<1>3. ~Elsewhere(k, w)
  <2> SUFFICES ASSUME NEW r \in Sockets, phase[r] # "new", k \in Named(hs[r]) PROVE at[r] = w
    BY DEF Elsewhere
  <2>1. hs[r] # None /\ k \in Aliases(hs[r], granted[r])
    BY NamedSockets, TunnelTablesAssumption, ClusterAssumption DEF AliasesOf
  <2>2. k \in ToSet(v.keys)
    BY DEF ToSet
  <2> QED BY <2>1, <2>2 DEF OnlyAt
<1>4. primary.hostToWorker[k] = w
  <2>1. ListedOK
    BY DEF UInv
  <2>2. /\ primary.hostToWorker[h] = Home(h)
        /\ \A j \in hs[s].keys : primary.hostToWorker[j] = Home(h) \/ Elsewhere(j, Home(h))
    BY <1>2, <2>1 DEF ListedOK
  <2> QED BY <1>1, <1>2, <1>3, <2>2 DEF Named
<1>5. DOMAIN v.keys = {1} /\ v.keys[1] = k
  OBVIOUS
<1>6. {i \in DOMAIN v.keys : primary.hostToWorker[v.keys[i]] # None} = {1}
  BY <1>2, <1>4, <1>5
<1>7. Min({1}) = 1
  BY DEF Min
<1> QED BY <1>4, <1>5, <1>6, <1>7 DEF resolveWorker

\* When all the tunnels there are end at one worker, so do those the primary lists.
LEMMA ListedOnlyAt ==
  ASSUME CInv, RInv, UInv, Quiet, NEW w \in Workers,
         \A u \in Workers \ {w} : tab[u].active = {}
  PROVE  /\ \A k \in Keys : primary.hostToWorker[k] \in {None, w}
         /\ \A k \in Keys : primary.sockets[k] # None =>
              k \in tab[w].active /\ primary.hostToWorker[k] = w
<1>1. ASSUME NEW h \in Hosts, primary.hostToWorker[h] # None
      PROVE  primary.hostToWorker[h] = w /\ h \in tab[w].active
  <2>1. PICK u \in Workers : u = primary.hostToWorker[h] /\ tab[u].routes[h] # None
    BY <1>1, ListedAtRest
  <2>2. h \in tab[u].active
    BY <2>1 DEF UInv, LedgersOK, LedgerOK
  <2> QED BY <2>1, <2>2
<1>2. ASSUME NEW k \in Keys, primary.hostToWorker[k] # None
      PROVE  primary.hostToWorker[k] = w
  <2>1. ListedOK /\ HomesOK
    BY DEF UInv
  <2>2. PICK s \in Sockets : /\ phase[s] # "new" /\ at[s] = primary.hostToWorker[k]
                             /\ primary.sockets[hs[s].host] = s
    BY <1>2, <2>1 DEF ListedOK
  <2>3. hs[s].host \in Hosts /\ hs[s].host \in Keys /\ s # None
    BY <2>2, HandshakeParts, NameClaimsAssumption DEF CInv, SocketsOK
  <2>4. primary.hostToWorker[hs[s].host] = Home(hs[s].host)
    BY <2>1, <2>2, <2>3 DEF ListedOK
  <2>5. at[s] = Home(hs[s].host)
    BY <2>1, <2>2 DEF HomesOK
  <2> QED BY <1>1, <1>2, <2>2, <2>3, <2>4, <2>5
<1>3. ASSUME NEW k \in Keys, primary.sockets[k] # None
      PROVE  k \in tab[w].active /\ primary.hostToWorker[k] = w
  <2>1. ListedOK /\ HomesOK
    BY DEF UInv
  <2>2. PICK s \in Sockets : /\ phase[s] # "new" /\ hs[s].host = k /\ k \in Hosts
                             /\ primary.hostToWorker[k] = Home(k)
    BY <1>3, <2>1 DEF ListedOK
  <2>3. at[s] = Home(k) /\ at[s] \in Workers
    BY <2>1, <2>2 DEF HomesOK, CInv, SocketsOK
  <2>4. primary.hostToWorker[k] # None
    BY <2>2, <2>3, ClusterAssumption
  <2> QED BY <1>1, <2>2, <2>4
<1> QED BY <1>2, <1>3

\* A visitor offers one key; only one of a host that nobody dials asks for the local host.
LEMMA VisitorParts ==
  ASSUME NEW v \in Visitors
  PROVE  \E k \in Keys :
           /\ v.keys = <<k>>
           /\ v.local => k \in Hosts \ {g.host : g \in Handshakes} /\ v.near \subseteq Keys
<1> DEFINE A == {[host |-> h, keys |-> <<h>>, near |-> {}, local |-> FALSE] : h \in Hosts}
           K == {<<k>> : k \in Keys \ Hosts}
           L == {<<h>> : h \in Hosts \ {g.host : g \in Handshakes}}
           N == SUBSET (Keys \ Hosts)
           B == [host : Hosts, keys : K, near : {{}}, local : {FALSE}]
           C == [host : Hosts, keys : L, near : N, local : BOOLEAN]
<1>1. v \in A \cup B \cup C
  BY DEF Visitors
<1>2. CASE v \in A
  <2>1. PICK h \in Hosts : v = [host |-> h, keys |-> <<h>>, near |-> {}, local |-> FALSE]
    BY <1>2
  <2>2. v.keys = <<h>> /\ ~v.local
    BY <2>1
  <2> QED BY <2>2, TunnelTablesAssumption
<1>3. CASE v \in B
  <2>1. v.keys \in K /\ ~v.local
    <3> HIDE DEF K
    <3> QED BY <1>3
  <2> QED BY <2>1
<1>4. CASE v \in C
  <2>1. v.keys \in L /\ v.near \in N
    <3> HIDE DEF L, N
    <3> QED BY <1>4
  <2> QED BY <2>1, TunnelTablesAssumption
<1> QED BY <1>1, <1>2, <1>3, <1>4

\* A visitor who asks for the local host is handed to the only tunnel.
LEMMA HandedToOnly ==
  ASSUME CInv, RInv, UInv, OwnHosts, Quiet, NEW w \in Workers, NEW v \in Visitors,
         OnlyAt(v, w), v.local, NEW H \in Hosts, tab[w].active = {H}, tab[w].routes[H] # None
  PROVE  resolveWorker(v) = {w}
<1>1. PICK k \in Hosts \ {g.host : g \in Handshakes} : v.keys = <<k>> /\ v.near \subseteq Keys
  BY VisitorParts
<1>2. /\ \A j \in Keys : primary.hostToWorker[j] \in {None, w}
      /\ \A j \in Keys : primary.sockets[j] # None => j = H /\ primary.hostToWorker[j] = w
  BY ListedOnlyAt DEF OnlyAt
<1>3. primary.hostToWorker[H] = w /\ primary.sockets[H] # None /\ w # None /\ H \in Keys
  BY ListedAtRest, ClusterAssumption, TunnelTablesAssumption
<1>4. primary.hostToWorker[k] = None
  <2>1. SUFFICES ASSUME primary.hostToWorker[k] # None PROVE FALSE
    OBVIOUS
  <2>2. PICK s \in Sockets : phase[s] # "new" /\ k \in Named(hs[s])
    BY <2>1, TunnelTablesAssumption DEF UInv, ListedOK
  <2>3. hs[s] \in Handshakes
    BY <2>2 DEF CInv, SocketsOK
  <2> QED BY <1>1, <2>2, <2>3, NamedParts
<1>5. DOMAIN v.keys = {1} /\ v.keys[1] = k
  BY <1>1
<1>6. {i \in DOMAIN v.keys : primary.hostToWorker[v.keys[i]] # None} = {}
  BY <1>4, <1>5
<1>7. {primary.hostToWorker[j] : j \in v.near} \ {None} \in {{}, {w}}
  BY <1>1, <1>2
<1>8. {j \in Keys : primary.sockets[j] # None} = {H}
  BY <1>2, <1>3
<1>9. Cardinality({H}) = 1
  BY FS_Singleton
<1>10. {primary.hostToWorker[j] : j \in {H}} \ {None} = {w}
  BY <1>3
<1> QED BY <1>6, <1>7, <1>8, <1>9, <1>10 DEF resolveWorker

LEMMA HandedAtRest ==
  ASSUME OwnHosts, OwnKeys, CInv, Undisturbed => RInv /\ UInv
  PROVE  HandedToHolder
<1> SUFFICES ASSUME Quiet, Undisturbed, NEW v \in Visitors, NEW w \in Workers,
                    Answering(v) = {w}, OnlyAt(v, w)
             PROVE  resolveWorker(v) = {w}
  BY DEF HandedToHolder
<1>1. RInv /\ UInv /\ findTunnelSocket(tab[w], hs, v) # {}
  BY DEF Answering
<1>2. PICK k \in Keys : v.keys = <<k>>
  BY VisitorParts
<1> QED BY <1>1, <1>2, AnswersWith, HandedWithHost, HandedToOnly

LEMMA RemovalsCounted == ASSUME removals \in Nat, [Next]_vars PROVE removals' \in Nat
<1>1. ASSUME NEW s \in Sockets, NEW h \in Handshakes, NEW w \in Workers,
             Refuse(s, h, w) \/ Ask(s, h, w) \/ TakeOver(s, h, w)
      PROVE  removals' \in Nat
  BY <1>1 DEF Refuse, Ask, TakeOver
<1>2. ASSUME NEW s \in Sockets, GiveUp(s) \/ Close(s) PROVE removals' \in Nat
  BY <1>2 DEF GiveUp, Close
<1>3. ASSUME NEW w \in Workers,
             Answered(w) \/ DoDisconnect(w) \/ Crash(w) \/ WorkerStops(w) \/ Exit(w)
      PROVE  removals' \in Nat
  BY <1>3 DEF Answered, DoDisconnect, Crash, WorkerStops, Dies, Exit, ExitTo
<1>4. ASSUME NEW w \in Workers, Receive(w) PROVE removals' \in Nat
  BY <1>4 DEF Receive, OnRegister, OnUnregister, OnClaim, OnRelease, OnForget, OnDisconnect,
              Handled
<1>5. ASSUME NEW w \in Workers,
             \/ \E k \in AdminKeys : RemoveTunnel(w, k)
             \/ \E l \in AdminLabels : RemoveClient(w, l)
      PROVE  removals' \in Nat
  <2>1. Removal(w)
    BY <1>5 DEF RemoveTunnel, RemoveClient
  <2> QED BY <2>1 DEF Removal
<1>6. Hour \/ ShutDown \/ UNCHANGED vars => removals' \in Nat
  BY DEF Hour, ShutDown, vars
<1> QED BY <1>1, <1>2, <1>3, <1>4, <1>5, <1>6 DEF Next

\* README.md:204, "Inbound requests for a given tunnel domain are handed off directly to the
\* worker holding that client's socket connection" (cluster.js's resolveWorker against
\* server.js's findTunnelSocket): once the channels are empty, and as long as no worker was
\* lost and nobody was removed, a visitor whose tunnel can answer at one worker only, and
\* whose keys never led anywhere else, is handed to that worker, by its host, its label or
\* the local host.  Whatever connects, competes for a name, takes over, times out and closes,
\* in any order, on any number of workers.  The clients are granted no host but the one they
\* dial, tunnels of different hosts at one worker announce different labels, and those of one
\* host the same, but for durable clients that compete for it: without that it is false.
THEOREM VisitorsReachHolder ==
  ASSUME OwnHosts, OwnKeys
  PROVE  Spec => []HandedToHolder
<1> DEFINE JInv == CInv /\ removals \in Nat /\ (Undisturbed => RInv /\ UInv)
<1>1. Init => JInv
  <2>1. Init => removals \in Nat
    BY DEF Init
  <2> QED BY <2>1, InitCInv, InitRInv, InitUInv
<1>2. JInv /\ [Next]_vars => JInv'
  <2> SUFFICES ASSUME JInv, [Next]_vars PROVE JInv'
    OBVIOUS
  <2>1. CInv' /\ removals' \in Nat
    BY StepCInv, RemovalsCounted
  <2>2. ASSUME Undisturbed' PROVE RInv' /\ UInv'
    <3>1. RInv /\ UInv
      BY <2>2, UndisturbedSteps
    <3> QED BY <2>2, <3>1, StepRInv, StepUInv
  <2> QED BY <2>1, <2>2
<1>3. JInv => HandedToHolder
  BY HandedAtRest
<1> HIDE DEF JInv
<1> QED BY <1>1, <1>2, <1>3, PTL DEF Spec
=============================================================================
