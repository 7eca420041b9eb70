------------------------- MODULE AdminConsoleProofs -------------------------
(***************************************************************************)
(* What answers in any order can do to the console, for any bounds: what ends *)
(* a session, that no older list comes back, and how many failed logins    *)
(* the throttle lets through.                                              *)
(***************************************************************************)
EXTENDS AdminConsole, SequenceTheorems, TLAPS

\* The part of TypeOK that sessions and lists depend on.
TabOK ==
  /\ auth \in BOOLEAN /\ shown \in 0..NoList /\ (shown # NoList => shown <= version)
  /\ stored \in 0..issued /\ issued \in 0..MaxTokens /\ expired \subseteq 1..issued
  /\ sent \subseteq Request /\ version \in 0..MaxRemovals

\* One answer at most is on its way to the lists, and it is no older than they are.
OneFetch ==
  /\ \A r, q \in sent : r.kind = "fetch" /\ q.kind = "fetch" => r = q
  /\ \A r \in sent : r.kind = "fetch" /\ r.reply = "ok" =>
       r.seen <= version /\ (shown # NoList => shown <= r.seen)

\* A token that is on its way to the tab was issued.
Tokens == \A r \in sent : r.kind = "login" /\ r.reply = "ok" => r.seen <= issued

IInv == TabOK /\ OneFetch /\ Tokens

LEMMA Bounds == MaxTokens \in Nat /\ MaxRemovals \in Nat
BY AdminConsoleAssumption DEF AdminConsoleAssumption

LEMMA InitIInv == ASSUME Init PROVE IInv
<1>1. auth = FALSE /\ shown = NoList /\ stored = 0 /\ sent = {} /\ issued = 0 /\ expired = {}
      /\ version = 0
  BY DEF Init, None
<1>2. NoList \in Nat /\ MaxTokens \in Nat /\ MaxRemovals \in Nat
  BY Bounds DEF NoList
<1>3. TabOK
  <2>1. auth \in BOOLEAN /\ expired \subseteq 1..issued /\ sent \subseteq Request
    BY <1>1
  <2>2. shown \in 0..NoList /\ stored \in 0..issued /\ issued \in 0..MaxTokens /\ version \in 0..MaxRemovals
    BY <1>1, <1>2
  <2> QED BY <1>1, <2>1, <2>2 DEF TabOK
<1>4. OneFetch
  BY <1>1 DEF OneFetch
<1>5. Tokens
  BY <1>1 DEF Tokens
<1> QED BY <1>3, <1>4, <1>5 DEF IInv

\* What queryClient.clear() leaves is what was there, a fetch being stale now.
LEMMA ClearedParts ==
  ASSUME NEW S \in SUBSET Request
  PROVE  /\ Cleared(S) \subseteq Request
         /\ \A r \in Cleared(S) :
              \/ r \in S /\ r.kind # "fetch"
              \/ \E q \in S : /\ r.kind = "stale" /\ r.token = q.token
                              /\ r.reply = q.reply /\ q.kind = "fetch"
<1> SUFFICES ASSUME NEW r \in Cleared(S)
             PROVE  /\ r \in Request
                    /\ \/ r \in S /\ r.kind # "fetch"
                       \/ \E q \in S : /\ r.kind = "stale" /\ r.token = q.token
                                       /\ r.reply = q.reply /\ q.kind = "fetch"
  OBVIOUS
<1>1. PICK q \in S : r = IF q.kind = "fetch" THEN [q EXCEPT !.kind = "stale"] ELSE q
  BY DEF Cleared
<1>2. CASE q.kind = "fetch"
  <2>1. q \in Request /\ r = [q EXCEPT !.kind = "stale"]
    BY <1>1, <1>2
  <2>2. r \in Request /\ r.kind = "stale" /\ r.token = q.token /\ r.reply = q.reply
    BY <2>1 DEF Request
  <2> QED BY <1>2, <2>2
<1>3. CASE q.kind # "fetch"
  BY <1>1, <1>3
<1> QED BY <1>2, <1>3

\* A new request carries the stored token and is not answered.
LEMMA NewParts ==
  ASSUME TabOK, NEW kind \in {"fetch", "stale", "removal", "login"}, NEW right \in BOOLEAN
  PROVE  /\ New(kind, right) \in Request
         /\ New(kind, right).kind = kind /\ New(kind, right).reply = "none"
         /\ New(kind, right).token = stored
<1>1. stored \in 0..MaxTokens /\ 0 \in 0..(MaxRemovals + MaxTokens) /\ 0 \in 0..MaxRemovals
  BY Bounds DEF TabOK
<1> QED BY <1>1 DEF New, Carried, Request

LEMMA RemovalParts ==
  ASSUME TabOK, NEW i \in 1..MaxRemovals
  PROVE  \E q \in Request : /\ q = [New("removal", FALSE) EXCEPT !.item = i]
                           /\ q.kind = "removal" /\ q.reply = "none" /\ q.token = stored
<1>1. stored \in 0..MaxTokens /\ 0 \in 0..(MaxRemovals + MaxTokens) /\ i \in 0..MaxRemovals
  BY Bounds DEF TabOK
<1>2. PICK n : n = New("removal", FALSE)
  OBVIOUS
<1>3. n \in Request /\ n.kind = "removal" /\ n.reply = "none" /\ n.token = stored
  BY <1>2, NewParts
<1>4. PICK q : q = [n EXCEPT !.item = i]
  OBVIOUS
<1>5. q \in Request /\ q.kind = "removal" /\ q.reply = "none" /\ q.token = stored
  BY <1>1, <1>3, <1>4 DEF Request
<1> QED BY <1>2, <1>4, <1>5

\* An answer replaces the request it answers; of a stale fetch nothing may be left.
LEMMA AnswerParts ==
  ASSUME TabOK, NEW r \in sent, NEW seen \in 0..(MaxRemovals + MaxTokens),
         NEW reply \in {"ok", "unauthorized", "throttled"}, Answer(r, reply, seen)
  PROVE  /\ sent' \subseteq Request
         /\ \E a \in Request : /\ sent' \subseteq (sent \ {r}) \cup {a}
                              /\ a.kind = r.kind /\ a.reply = reply /\ a.seen = seen
                              /\ (a.token = 0 \/ a.token = r.token)
                              /\ (reply = "unauthorized" => a.token = r.token)
<1> DEFINE token == IF reply = "unauthorized" THEN r.token ELSE None
           a == [r EXCEPT !.reply = reply, !.seen = seen, !.token = token, !.right = FALSE]
<1>1. /\ a \in Request /\ a.kind = r.kind /\ a.reply = reply /\ a.seen = seen
      /\ a.token = token
  <2>1. r \in Request /\ 0 \in 0..MaxTokens
    BY Bounds DEF TabOK
  <2> QED BY <2>1 DEF Request, None
<1>3. (token = 0 \/ token = r.token) /\ (reply = "unauthorized" => token = r.token)
  BY DEF None
<1>2. sent' \subseteq (sent \ {r}) \cup {a}
  BY DEF Answer
<1> HIDE DEF a, token
<1> QED BY <1>1, <1>2, <1>3 DEF TabOK

-----------------------------------------------------------------------------
\* What happens at the tab keeps the invariant.
LEMMA SendIInv ==
  ASSUME IInv,
         Fetch \/ (\E i \in 1..MaxRemovals : Disconnect(i)) \/ \E right \in BOOLEAN : Submit(right)
  PROVE  IInv'
<1>1. PICK q \in Request : /\ sent' = sent \cup {q} /\ q.reply = "none"
                           /\ q.kind = "fetch" => \A r \in sent : r.kind # "fetch"
  <2>1. CASE Fetch
    BY <2>1, NewParts DEF Fetch, Of, IInv
  <2>2. ASSUME NEW i \in 1..MaxRemovals, Disconnect(i)
        PROVE  \E q \in Request : sent' = sent \cup {q} /\ q.reply = "none" /\ q.kind # "fetch"
    BY <2>2, RemovalParts DEF Disconnect, IInv
  <2>3. ASSUME NEW right \in BOOLEAN, Submit(right)
        PROVE  \E q \in Request : sent' = sent \cup {q} /\ q.reply = "none" /\ q.kind # "fetch"
    BY <2>3, NewParts DEF Submit, IInv
  <2> QED BY <2>1, <2>2, <2>3
<1>2. UNCHANGED <<auth, shown, stored, issued, expired, version>>
  BY DEF Fetch, Disconnect, Submit, tab, server
<1>5. TabOK'
  BY <1>1, <1>2 DEF IInv, TabOK, NoList
<1>6. OneFetch'
  BY <1>1, <1>2 DEF IInv, OneFetch, NoList
<1>7. Tokens'
  BY <1>1, <1>2 DEF IInv, Tokens
<1> QED BY <1>5, <1>6, <1>7 DEF IInv

LEMMA SignOutIInv ==
  ASSUME IInv, NEW S \in SUBSET sent, SignOut(S), UNCHANGED server
  PROVE  IInv'
<1>1. /\ stored' = 0 /\ auth' = FALSE /\ shown' = NoList /\ sent' = Cleared(S)
      /\ UNCHANGED <<issued, expired, version>>
  BY DEF SignOut, server, None
<1>2. S \subseteq Request
  BY DEF IInv, TabOK
<1>3. Cleared(S) \subseteq Request /\ \A r \in Cleared(S) : r.kind # "fetch"
  BY <1>2, ClearedParts
<1>4. NoList \in Nat /\ issued \in Nat
  BY Bounds DEF NoList, IInv, TabOK
<1>5. TabOK'
  <2>1. auth' \in BOOLEAN
    BY <1>1
  <2>2. shown' \in 0..NoList /\ stored' \in 0..issued /\ (shown' # NoList => shown' <= version)
    BY <1>1, <1>4
  <2> QED BY <1>1, <1>3, <2>1, <2>2 DEF IInv, TabOK, NoList
<1>6. OneFetch'
  BY <1>1, <1>3 DEF OneFetch
<1>7. Tokens'
  BY <1>1, <1>2, <1>3, ClearedParts DEF IInv, Tokens
<1> QED BY <1>5, <1>6, <1>7 DEF IInv

\* invalidateQueries leaves one fetch, and nothing else is new.
LEMMA RefetchIInv ==
  ASSUME IInv, NEW S \in SUBSET sent, sent' = Refetched(S),
         UNCHANGED <<auth, shown, stored, issued, expired, version>>
  PROVE  IInv'
<1>1. S \subseteq Request
  BY DEF IInv, TabOK
<1>2. CASE sent' = S
  <2>1. TabOK' /\ OneFetch' /\ Tokens'
    BY <1>1, <1>2 DEF IInv, TabOK, OneFetch, NoList, Tokens
  <2> QED BY <2>1 DEF IInv
<1>3. CASE sent' = Cleared(S) \cup {New("fetch", FALSE)}
  <2>1. New("fetch", FALSE) \in Request /\ New("fetch", FALSE).reply = "none"
        /\ New("fetch", FALSE).kind = "fetch"
    BY NewParts DEF IInv
  <2>2. /\ Cleared(S) \subseteq Request /\ \A q \in Cleared(S) : q.kind # "fetch"
        /\ \A q \in Cleared(S) : q.kind = "login" => q \in sent
    BY <1>1, ClearedParts
  <2>3. TabOK'
    BY <1>3, <2>1, <2>2 DEF IInv, TabOK, NoList
  <2>4. OneFetch'
    BY <1>3, <2>1, <2>2 DEF OneFetch
  <2>5. Tokens'
    BY <1>3, <2>1, <2>2 DEF IInv, Tokens
  <2> QED BY <2>3, <2>4, <2>5 DEF IInv
<1> QED BY <1>2, <1>3 DEF Refetched

LEMMA ReceiveIInv ==
  ASSUME IInv, NEW r \in sent, Receive(r)
  PROVE  IInv'
<1> DEFINE rest == sent \ {r}
<1>1. UNCHANGED <<issued, expired, version>> /\ UNCHANGED server
  BY DEF Receive, server
<1>2. rest \in SUBSET sent /\ rest \subseteq Request
  BY DEF IInv, TabOK
<1>3. CASE SignOut(rest)
  BY <1>1, <1>2, <1>3, SignOutIInv
<1>4. CASE sent' = rest /\ UNCHANGED tab
  <2>1. UNCHANGED <<auth, shown, stored>>
    BY <1>4 DEF tab
  <2>2. TabOK' /\ OneFetch' /\ Tokens'
    BY <1>1, <1>2, <1>4, <2>1 DEF IInv, TabOK, OneFetch, NoList, Tokens
  <2> QED BY <2>2 DEF IInv
<1>5. CASE r.reply = "ok" /\ r.kind = "removal" /\ sent' = Refetched(rest) /\ UNCHANGED tab
  <2>1. UNCHANGED <<auth, shown, stored>>
    BY <1>5 DEF tab
  <2> QED BY <1>1, <1>2, <1>5, <2>1, RefetchIInv
<1>6. CASE /\ r.reply = "ok" /\ r.kind = "fetch"
           /\ shown' = r.seen /\ sent' = rest /\ UNCHANGED <<auth, stored>>
  <2>1. r.seen <= version /\ r.seen \in Nat /\ \A q \in rest : q.kind # "fetch"
    BY <1>6 DEF IInv, TabOK, OneFetch, Request
  <2>2. version \in Nat /\ MaxRemovals \in Nat /\ version <= MaxRemovals
    BY Bounds DEF IInv, TabOK
  <2>3. TabOK'
    BY <1>1, <1>2, <1>6, <2>1, <2>2 DEF IInv, TabOK, NoList
  <2>4. OneFetch' /\ Tokens'
    BY <1>1, <1>6, <2>1 DEF OneFetch, IInv, Tokens
  <2> QED BY <2>3, <2>4 DEF IInv
<1>7. CASE /\ r.reply = "ok" /\ r.kind = "login"
           /\ stored' = r.seen /\ auth' = TRUE /\ sent' = rest /\ UNCHANGED shown
  <2>1. r.seen \in 0..issued
    BY <1>7 DEF IInv, TabOK, Tokens, Request
  <2>2. TabOK' /\ OneFetch' /\ Tokens'
    BY <1>1, <1>2, <1>7, <2>1 DEF IInv, TabOK, OneFetch, NoList, Tokens
  <2> QED BY <2>2 DEF IInv
<1> QED BY <1>3, <1>4, <1>5, <1>6, <1>7 DEF Receive

-----------------------------------------------------------------------------
\* What the server does keeps the invariant.
LEMMA LoginIInv ==
  ASSUME IInv, NEW r \in sent, Login(r)
  PROVE  IInv'
<1>1. /\ r.kind = "login" /\ UNCHANGED <<auth, shown, stored, expired, version>>
      /\ issued' \in Nat /\ issued <= issued' /\ issued' <= MaxTokens
  BY Bounds DEF Login, tab, IInv, TabOK
<1>2. PICK reply \in {"ok", "unauthorized", "throttled"}, seen \in 0..issued' : Answer(r, reply, seen)
  BY <1>1 DEF Login, IInv, TabOK
<1>3. seen \in 0..(MaxRemovals + MaxTokens)
  BY <1>1, Bounds
<1>4. /\ sent' \subseteq Request
      /\ \A a \in sent' : \/ a \in sent
                          \/ a.kind = "login" /\ a.seen = seen
  BY <1>1, <1>2, <1>3, AnswerParts DEF IInv
<1>5. TabOK'
  BY <1>1, <1>4 DEF IInv, TabOK, NoList
<1>6. OneFetch'
  BY <1>1, <1>4 DEF IInv, OneFetch, NoList
<1>7. Tokens'
  BY <1>1, <1>4 DEF IInv, TabOK, Request, Tokens
<1> QED BY <1>5, <1>6, <1>7 DEF IInv

LEMMA ServeIInv ==
  ASSUME IInv, NEW r \in sent, Serve(r)
  PROVE  IInv'
<1>1. /\ r.kind # "login" /\ UNCHANGED <<auth, shown, stored, issued, expired>>
      /\ version' \in Nat /\ version <= version' /\ version' <= MaxRemovals
  BY Bounds DEF Serve, tab, IInv, TabOK
<1>2. PICK reply \in {"ok", "unauthorized"}, seen \in 0..version' :
        /\ Answer(r, reply, seen)
        /\ reply = "ok" => seen = version'
  BY <1>1 DEF Serve
<1>3. seen \in 0..(MaxRemovals + MaxTokens)
  BY <1>1, Bounds
<1>4. /\ sent' \subseteq Request
      /\ \A a \in sent' : \/ a \in sent \ {r}
                          \/ a.kind = r.kind /\ a.reply = reply /\ a.seen = seen
  BY <1>2, <1>3, AnswerParts DEF IInv
<1>5. TabOK'
  BY <1>1, <1>4 DEF IInv, TabOK, NoList
<1>6. \A a, b \in sent' : a.kind = "fetch" /\ b.kind = "fetch" => a = b
  <2>1. CASE r.kind = "fetch"
    <3>1. PICK b \in Request : sent' \subseteq (sent \ {r}) \cup {b}
      BY <1>2, <1>3, AnswerParts DEF IInv
    <3>2. \A a \in sent \ {r} : a.kind # "fetch"
      BY <2>1 DEF IInv, OneFetch
    <3> QED BY <3>1, <3>2
  <2>2. CASE r.kind # "fetch"
    BY <1>4, <2>2 DEF IInv, OneFetch
  <2> QED BY <2>1, <2>2
<1>7. \A a \in sent' : a.kind = "fetch" /\ a.reply = "ok" =>
        a.seen <= version' /\ (shown' # NoList => shown' <= a.seen)
  <2> SUFFICES ASSUME NEW a \in sent', a.kind = "fetch", a.reply = "ok"
               PROVE  a.seen <= version' /\ (shown' # NoList => shown' <= a.seen)
    OBVIOUS
  <2>1. CASE a \in sent
    <3>1. a.seen <= version /\ (shown # NoList => shown <= a.seen) /\ a.seen \in Nat
      BY <2>1 DEF IInv, OneFetch, TabOK, Request
    <3> QED BY <1>1, <3>1 DEF IInv, TabOK
  <2>2. CASE a \notin sent
    <3>1. a.seen = version'
      BY <1>2, <1>4, <2>2
    <3>2. shown # NoList => shown <= version /\ shown \in Nat /\ version \in Nat
      BY DEF IInv, TabOK
    <3> QED BY <1>1, <3>1, <3>2
  <2> QED BY <2>1, <2>2
<1>8. Tokens'
  BY <1>1, <1>4 DEF IInv, Tokens
<1> QED BY <1>5, <1>6, <1>7, <1>8 DEF IInv, OneFetch

\* Every step keeps it.
LEMMA StepIInv == ASSUME IInv, [Next]_vars PROVE IInv'
<1>1. CASE Load
  <2>1. /\ auth' = (stored # None) /\ shown' = NoList /\ sent' = {}
        /\ UNCHANGED <<stored, issued, expired, version>>
    BY <1>1 DEF Load, server
  <2>2. auth' \in BOOLEAN
    BY <2>1
  <2>3. NoList \in Nat
    BY Bounds DEF NoList
  <2>4. TabOK'
    BY <2>1, <2>2, <2>3 DEF IInv, TabOK, NoList
  <2>5. OneFetch' /\ Tokens'
    BY <2>1 DEF OneFetch, Tokens
  <2> QED BY <2>4, <2>5 DEF IInv
<1>2. CASE Fetch \/ (\E i \in 1..MaxRemovals : Disconnect(i)) \/ \E right \in BOOLEAN : Submit(right)
  BY <1>2, SendIInv
<1>r. CASE Refresh
  BY <1>r, RefetchIInv DEF Refresh, tab, server
<1>3. CASE Logout
  BY <1>3, SignOutIInv DEF Logout
<1>4. CASE OtherLogsIn
  <2>1. /\ issued < MaxTokens /\ issued' = issued + 1 /\ stored' = issued + 1
        /\ UNCHANGED <<auth, shown, sent, expired, version>>
    BY <1>4 DEF OtherLogsIn
  <2>2. TabOK'
    BY <2>1, Bounds DEF IInv, TabOK, NoList
  <2>3. OneFetch' /\ Tokens'
    BY <2>1 DEF IInv, OneFetch, Tokens, TabOK, Request, NoList
  <2> QED BY <2>2, <2>3 DEF IInv
<1>5. CASE OtherSignsOut
  <2>1. stored' = 0 /\ UNCHANGED <<auth, shown, sent, issued, expired, version>>
    BY <1>5 DEF OtherSignsOut, server, None
  <2>2. TabOK' /\ OneFetch' /\ Tokens'
    BY <2>1 DEF IInv, OneFetch, Tokens, TabOK, NoList
  <2> QED BY <2>2 DEF IInv
<1>6. ASSUME NEW r \in sent, Receive(r) \/ Login(r) \/ Serve(r) PROVE IInv'
  BY <1>6, ReceiveIInv, LoginIInv, ServeIInv
<1>7. ASSUME NEW r \in sent, Lose(r) PROVE IInv'
  <2>1. sent' = sent \ {r} /\ UNCHANGED <<auth, shown, stored, issued, expired, version>>
    BY <1>7 DEF Lose, tab, server
  <2>2. TabOK' /\ OneFetch' /\ Tokens'
    BY <2>1 DEF IInv, OneFetch, Tokens, TabOK, NoList
  <2> QED BY <2>2 DEF IInv
<1>8. ASSUME NEW k \in Valid, Expire(k) PROVE IInv'
  <2>1. /\ expired' = expired \cup {k} /\ k \in 1..issued
        /\ UNCHANGED <<auth, shown, stored, sent, issued, version>>
    BY <1>8 DEF Expire, tab, Valid
  <2>2. TabOK' /\ OneFetch' /\ Tokens'
    BY <2>1 DEF IInv, OneFetch, Tokens, TabOK, NoList
  <2> QED BY <2>2 DEF IInv
<1>9. CASE Tick \/ UNCHANGED vars
  <2>1. UNCHANGED <<auth, shown, stored, sent, issued, expired, version>>
    BY <1>9 DEF Tick, vars, tab, server
  <2>2. TabOK' /\ OneFetch' /\ Tokens'
    BY <2>1 DEF IInv, OneFetch, Tokens, TabOK, NoList
  <2> QED BY <2>2 DEF IInv
<1> QED BY <1>1, <1>2, <1>r, <1>3, <1>4, <1>5, <1>6, <1>7, <1>8, <1>9 DEF Next

\* api.ts:127-190 and queries.ts: in every reachable state at most one fetch
\* can still change the lists, its answer is no older than what they show, and every
\* token on its way to the tab was issued.
THEOREM TabStaysSound == Spec => []IInv
<1>1. Init => IInv
  BY InitIInv
<1>2. IInv /\ [Next]_vars => IInv'
  BY StepIInv
<1> QED BY <1>1, <1>2, PTL DEF Spec

-----------------------------------------------------------------------------
\* Only the answer to a fetch changes a list that is shown into another one.
LEMMA StepNotOlder ==
  ASSUME IInv, [Next]_vars, NoList # shown, NoList # shown'
  PROVE  shown' >= shown
<1>1. shown \in Nat
  BY Bounds DEF IInv, TabOK, NoList
<1>2. CASE UNCHANGED shown
  BY <1>1, <1>2
<1>3. ASSUME NEW r \in sent, Receive(r), ~UNCHANGED shown PROVE shown' >= shown
  <2>1. r.reply = "ok" /\ r.kind = "fetch" /\ shown' = r.seen
    BY <1>3 DEF Receive, SignOut, tab
  <2>2. shown <= r.seen /\ r.seen \in Nat
    BY <2>1 DEF IInv, OneFetch, TabOK, Request
  <2> QED BY <1>1, <2>1, <2>2
<1>4. UNCHANGED shown \/ \E r \in sent : Receive(r)
  BY DEF Next, vars, tab, Load, Fetch, Refresh, Disconnect, Logout, SignOut, OtherLogsIn,
         OtherSignsOut, Tick, Submit, Lose, Login, Serve, Expire
<1> QED BY <1>2, <1>3, <1>4

\* queries.ts:64-72 (invalidateQueries after a removal): with the answers in any order
\* the lists never go back to before a removal they have shown.
THEOREM ListsAreNeverOlder == Spec => ListsNeverOlder
<1>1. IInv /\ [Next]_vars => [NoList \notin {shown, shown'} => shown' >= shown]_vars
  <2> SUFFICES ASSUME IInv, [Next]_vars, NoList \notin {shown, shown'}
               PROVE  shown' >= shown
    OBVIOUS
  <2> QED BY StepNotOlder
<1> QED BY <1>1, TabStaysSound, PTL DEF Spec, ListsNeverOlder

-----------------------------------------------------------------------------
\* One login at most is on its way, and only while the tab is signed out.
OneLogin ==
  /\ \A r, q \in sent : r.kind = "login" /\ q.kind = "login" => r = q
  /\ auth => \A r \in sent : r.kind # "login"

\* A token that was sent was issued, and one that was refused is no good any more.
Refusals ==
  \A r \in sent :
    r.token <= issued /\ (r.kind # "login" /\ r.reply = "unauthorized" => r.token \notin Valid)

SInv == OneLogin /\ Refusals

LEMMA SendSInv ==
  ASSUME IInv, SInv,
         Fetch \/ (\E i \in 1..MaxRemovals : Disconnect(i)) \/ \E right \in BOOLEAN : Submit(right)
  PROVE  SInv'
<1>1. PICK q \in Request :
        /\ sent' = sent \cup {q} /\ q.reply = "none" /\ q.token = stored
        /\ q.kind = "login" => ~auth /\ \A r \in sent : r.kind # "login"
  <2>1. CASE Fetch
    BY <2>1, NewParts DEF Fetch, IInv
  <2>2. ASSUME NEW i \in 1..MaxRemovals, Disconnect(i)
        PROVE  \E q \in Request : sent' = sent \cup {q} /\ q.reply = "none" /\ q.token = stored
                                  /\ q.kind # "login"
    BY <2>2, RemovalParts DEF Disconnect, IInv
  <2>3. ASSUME NEW right \in BOOLEAN, Submit(right)
        PROVE  \E q \in Request : /\ sent' = sent \cup {q} /\ q.reply = "none" /\ q.token = stored
                                  /\ ~auth /\ \A r \in sent : r.kind # "login"
    BY <2>3, NewParts DEF Submit, Of, IInv
  <2> QED BY <2>1, <2>2, <2>3
<1>2. UNCHANGED <<auth, stored, issued, expired>>
  BY DEF Fetch, Disconnect, Submit, tab, server
<1>3. OneLogin'
  BY <1>1, <1>2 DEF SInv, OneLogin
<1>4. Refusals'
  BY <1>1, <1>2 DEF SInv, Refusals, Valid, IInv, TabOK
<1> QED BY <1>3, <1>4 DEF SInv

\* A cleared set of requests says no more than the set did.
LEMMA ClearedSInv ==
  ASSUME IInv, SInv, NEW S \in SUBSET sent, UNCHANGED <<issued, expired>>,
         sent' \subseteq Cleared(S) \cup {New("fetch", FALSE)}, auth' => auth
  PROVE  SInv'
<1>1. S \in SUBSET Request
  BY DEF IInv, TabOK
<1>2. /\ New("fetch", FALSE).kind = "fetch" /\ New("fetch", FALSE).reply = "none"
      /\ New("fetch", FALSE).token = stored
  BY NewParts DEF IInv
<1>3. \A r \in sent' : \/ r \in sent
                       \/ /\ r.kind \in {"fetch", "stale"}
                          /\ \/ r.reply = "none" /\ r.token = stored
                             \/ \E q \in sent : /\ r.token = q.token /\ r.reply = q.reply
                                                /\ q.kind = "fetch"
  <2>1. \A r \in Cleared(S) : \/ r \in S
                              \/ \E q \in S : /\ r.kind = "stale" /\ r.token = q.token
                                              /\ r.reply = q.reply /\ q.kind = "fetch"
    BY <1>1, ClearedParts
  <2> QED BY <1>2, <2>1
<1>4. OneLogin'
  BY <1>3 DEF SInv, OneLogin
<1>5. stored <= issued
  BY DEF IInv, TabOK
<1>6. Refusals'
  BY <1>3, <1>5 DEF SInv, Refusals, Valid
<1> QED BY <1>4, <1>6 DEF SInv

\* What a step leaves out of the requests does no harm.
LEMMA FewerSInv ==
  ASSUME SInv, sent' \subseteq sent, UNCHANGED <<issued, expired>>,
         auth' => auth \/ \A r \in sent' : r.kind # "login"
  PROVE  SInv'
<1>1. OneLogin'
  BY DEF SInv, OneLogin
<1>2. Refusals'
  BY DEF SInv, Refusals, Valid
<1> QED BY <1>1, <1>2 DEF SInv

LEMMA ReceiveSInv ==
  ASSUME IInv, SInv, NEW r \in sent, Receive(r)
  PROVE  SInv'
<1> DEFINE rest == sent \ {r}
<1>1. UNCHANGED <<issued, expired>> /\ rest \in SUBSET sent
  BY DEF Receive, server
<1>2. CASE SignOut(rest)
  BY <1>1, <1>2, ClearedSInv DEF SignOut
<1>3. CASE sent' = rest /\ UNCHANGED auth
  BY <1>1, <1>3, FewerSInv
<1>4. CASE r.kind = "login" /\ sent' = rest
  <2>1. \A q \in sent' : q.kind # "login"
    BY <1>4 DEF SInv, OneLogin
  <2> QED BY <1>1, <1>4, <2>1, FewerSInv
<1>5. CASE sent' = Refetched(rest) /\ UNCHANGED auth
  <2>1. CASE sent' = rest
    BY <1>1, <1>5, <2>1, FewerSInv
  <2>2. CASE sent' = Cleared(rest) \cup {New("fetch", FALSE)}
    BY <1>1, <1>5, <2>2, ClearedSInv
  <2> QED BY <1>5, <2>1, <2>2 DEF Refetched
<1> QED BY <1>2, <1>3, <1>4, <1>5 DEF Receive, tab

\* A refusal keeps the token of its request; any other answer forgets it.
LEMMA AnswerSInv ==
  ASSUME IInv, SInv, NEW r \in sent, NEW seen \in 0..(MaxRemovals + MaxTokens),
         NEW reply \in {"ok", "unauthorized", "throttled"}, Answer(r, reply, seen),
         UNCHANGED <<auth, expired>>, issued' \in Nat, issued <= issued',
         r.kind # "login" => r.reply = "none" /\ issued' = issued,
         reply = "unauthorized" /\ r.kind # "login" => r.token \notin Valid
  PROVE  SInv'
<1>1. PICK a \in Request : /\ sent' \subseteq (sent \ {r}) \cup {a} /\ a.kind = r.kind
                           /\ a.reply = reply /\ (a.token = 0 \/ a.token = r.token)
                           /\ (reply = "unauthorized" => a.token = r.token)
  BY AnswerParts DEF IInv
<1>2. OneLogin'
  BY <1>1 DEF SInv, OneLogin
<1>3. \A q \in sent : q.token \in Nat /\ q.token <= issued
  BY DEF SInv, Refusals, IInv, TabOK, Request
<1>4. issued \in Nat
  BY DEF IInv, TabOK
<1>5. \A q \in sent : q.token \notin Valid => q.token \notin Valid'
  <2> SUFFICES ASSUME NEW q \in sent, q.token \notin Valid PROVE q.token \notin Valid'
    OBVIOUS
  <2>1. q.token \in Nat /\ q.token <= issued
    BY <1>3
  <2> QED BY <1>4, <2>1 DEF Valid
<1>6. Refusals'
  <2> SUFFICES ASSUME NEW q \in sent'
               PROVE  /\ q.token <= issued'
                      /\ q.kind # "login" /\ q.reply = "unauthorized" => q.token \notin Valid'
    BY DEF Refusals
  <2>1. CASE q \in sent
    BY <1>3, <1>4, <1>5, <2>1 DEF SInv, Refusals
  <2>2. CASE q = a
    BY <1>1, <1>3, <1>4, <1>5, <2>2
  <2> QED BY <1>1, <2>1, <2>2
<1> QED BY <1>2, <1>6 DEF SInv

LEMMA LoginSInv ==
  ASSUME IInv, SInv, NEW r \in sent, Login(r)
  PROVE  SInv'
<1>1. /\ r.kind = "login" /\ UNCHANGED <<auth, expired>>
      /\ issued' \in Nat /\ issued <= issued' /\ issued' <= MaxTokens
  BY Bounds DEF Login, tab, IInv, TabOK
<1>2. PICK reply \in {"ok", "unauthorized", "throttled"}, seen \in 0..issued' : Answer(r, reply, seen)
  BY <1>1 DEF Login, IInv, TabOK
<1>3. seen \in 0..(MaxRemovals + MaxTokens)
  BY <1>1, Bounds
<1> QED BY <1>1, <1>2, <1>3, AnswerSInv

LEMMA ServeSInv ==
  ASSUME IInv, SInv, NEW r \in sent, Serve(r)
  PROVE  SInv'
<1>1. /\ r.reply = "none" /\ UNCHANGED <<auth, issued, expired>>
      /\ version' \in Nat /\ version' <= MaxRemovals /\ issued \in Nat
  BY Bounds DEF Serve, tab, IInv, TabOK
<1>2. PICK reply \in {"ok", "unauthorized"}, seen \in 0..version' :
        /\ Answer(r, reply, seen)
        /\ reply = "unauthorized" => r.token \notin Valid
  BY <1>1 DEF Serve, Authorized
<1>3. seen \in 0..(MaxRemovals + MaxTokens)
  BY <1>1, Bounds
<1> QED BY <1>1, <1>2, <1>3, AnswerSInv

LEMMA StepSInv == ASSUME IInv, SInv, [Next]_vars PROVE SInv'
<1>1. CASE Load
  BY <1>1, FewerSInv DEF Load, server
<1>2. CASE Fetch \/ (\E i \in 1..MaxRemovals : Disconnect(i)) \/ \E right \in BOOLEAN : Submit(right)
  BY <1>2, SendSInv
<1>3. CASE Logout
  BY <1>3, ClearedSInv DEF Logout, SignOut, server
<1>4. CASE Refresh
  <2>1. UNCHANGED <<auth, issued, expired>>
    BY <1>4 DEF Refresh, tab, server
  <2>2. sent' = sent \/ sent' = Cleared(sent) \cup {New("fetch", FALSE)}
    BY <1>4 DEF Refresh, Refetched
  <2> QED BY <2>1, <2>2, ClearedSInv, FewerSInv
<1>5. CASE OtherLogsIn
  <2>1. issued' = issued + 1 /\ UNCHANGED <<auth, sent, expired>> /\ issued \in Nat
    BY <1>5 DEF OtherLogsIn, IInv, TabOK
  <2>2. OneLogin'
    BY <2>1 DEF SInv, OneLogin
  <2>3. \A q \in sent : q.token \in Nat /\ q.token <= issued
    BY DEF SInv, Refusals, IInv, TabOK, Request
  <2>4. Refusals'
    BY <2>1, <2>3 DEF SInv, Refusals, Valid
  <2> QED BY <2>2, <2>4 DEF SInv
<1>6. CASE OtherSignsOut \/ Tick \/ UNCHANGED vars
  BY <1>6, FewerSInv DEF OtherSignsOut, Tick, vars, tab, server
<1>7. ASSUME NEW r \in sent, Receive(r) \/ Login(r) \/ Serve(r) PROVE SInv'
  BY <1>7, ReceiveSInv, LoginSInv, ServeSInv
<1>8. ASSUME NEW r \in sent, Lose(r) PROVE SInv'
  BY <1>8, FewerSInv DEF Lose, tab, server
<1>9. ASSUME NEW k \in Valid, Expire(k) PROVE SInv'
  <2>1. expired' = expired \cup {k} /\ UNCHANGED <<auth, sent, issued>>
    BY <1>9 DEF Expire, tab
  <2>2. OneLogin' /\ Refusals'
    BY <2>1 DEF SInv, OneLogin, Refusals, Valid
  <2> QED BY <2>2 DEF SInv
<1> QED BY <1>1, <1>2, <1>3, <1>4, <1>5, <1>6, <1>7, <1>8, <1>9 DEF Next

\* What ends a session: only the answer to a request could be wrong, and by SInv it is
\* neither a login's nor the refusal of the stored token.
LEMMA StepSession ==
  ASSUME IInv, SInv, [Next]_vars, Session
  PROVE  \/ Session' \/ Logout \/ OtherSignsOut
         \/ \E k \in Valid : Expire(k)
         \/ \E r \in sent : /\ r.kind # "login" /\ r.reply = "unauthorized" /\ r.token # stored
                           /\ Receive(r)
<1>1. CASE Load
  <2>1. stored # None
    BY DEF Session, Valid, None, IInv, TabOK
  <2> QED BY <1>1, <2>1 DEF Load, server, Session, Valid
<1>2. CASE OtherLogsIn
  <2>1. issued \in Nat /\ issued' = issued + 1 /\ stored' = issued + 1 /\ UNCHANGED <<auth, expired>>
        /\ expired \subseteq 1..issued
    BY <1>2 DEF OtherLogsIn, IInv, TabOK
  <2> QED BY <2>1 DEF Session, Valid
<1>3. ASSUME NEW r \in sent, Receive(r)
      PROVE  \/ Session'
             \/ r.kind # "login" /\ r.reply = "unauthorized" /\ r.token # stored
  <2>1. r.kind # "login" /\ UNCHANGED <<issued, expired>>
    BY <1>3 DEF Receive, server, SInv, OneLogin, Session
  <2>2. CASE r.reply = "unauthorized"
    <3>1. r.token \notin Valid
      BY <2>1, <2>2 DEF SInv, Refusals
    <3> QED BY <2>1, <2>2, <3>1 DEF Session
  <2>3. CASE r.reply # "unauthorized"
    <3>1. UNCHANGED <<auth, stored>>
      BY <1>3, <2>1, <2>3 DEF Receive, tab
    <3> QED BY <2>1, <3>1 DEF Session, Valid
  <2> QED BY <2>2, <2>3
<1>4. ASSUME NEW r \in sent, Login(r) PROVE FALSE
  BY <1>4 DEF Login, SInv, OneLogin, Session
<1>5. CASE \/ Fetch \/ Refresh \/ Tick \/ UNCHANGED vars
           \/ \E i \in 1..MaxRemovals : Disconnect(i)
           \/ \E right \in BOOLEAN : Submit(right)
           \/ \E r \in sent : Lose(r) \/ Serve(r)
  <2>1. UNCHANGED <<auth, stored, issued, expired>>
    BY <1>5 DEF Fetch, Refresh, Tick, vars, Disconnect, Submit, Lose, Serve, tab, server
  <2> QED BY <2>1 DEF Session, Valid
<1> QED BY <1>1, <1>2, <1>3, <1>4, <1>5 DEF Next

\* api.ts:145-149, LoginView.tsx:18-39, server.js:791-806: whatever the order of the
\* answers, a good session that the user does not end in some tab ends by the late refusal
\* of a request for data that had carried another token or none, or not before its token
\* expires.
THEOREM SessionsAreKept == Spec => SessionKept
<1>1. Init => SInv
  BY DEF Init, SInv, OneLogin, Refusals
<1>2. IInv /\ SInv /\ [Next]_vars => SInv'
  BY StepSInv
<1>3. IInv /\ SInv /\ [Next]_vars =>
        [Session =>
           \/ Session' \/ Logout \/ OtherSignsOut
           \/ \E k \in Valid : Expire(k)
           \/ \E r \in sent : /\ r.kind # "login" /\ r.reply = "unauthorized" /\ r.token # stored
                             /\ Receive(r)]_vars
  BY StepSession
<1> QED BY <1>1, <1>2, <1>3, TabStaysSound, PTL DEF Spec, SessionKept

-----------------------------------------------------------------------------
\* How the failed logins still in the window relate to the entry that counts them.
\* While the entry lives its own failures come last and begin with its age; fewer
\* than a full count of an earlier entry precede them.  When it has lapsed its first
\* failure has left the window, and everything before it.
FailuresInv ==
  LET n == Len(failures) IN
  /\ entry \in [count : 0..MaxAttempts, age : 0..(Window + 1)]
  /\ failures \in Seq(0..Window)
  /\ \A i, j \in 1..n : i < j => failures[i] >= failures[j]
  /\ entry.count = 0 => n = 0
  /\ entry.count > 0 /\ entry.age <= Window =>
       /\ entry.count <= n /\ n - entry.count < MaxAttempts
       /\ failures[n - entry.count + 1] = entry.age
  /\ entry.count > 0 /\ entry.age > Window => n < entry.count

LEMMA AttemptBounds == MaxAttempts \in Nat /\ MaxAttempts > 0 /\ Window \in Nat
BY AdminConsoleAssumption

LEMMA NoFailures ==
  ASSUME entry' = [count |-> 0, age |-> 0], failures' = <<>>
  PROVE  FailuresInv'
<1>1. failures' \in Seq(0..Window) /\ Len(failures') = 0
  BY EmptySeq
<1> QED BY <1>1, AttemptBounds DEF FailuresInv

\* fail(): the new failure is the last one, and belongs to the entry that counts it.
LEMMA FailKeepsFailures ==
  ASSUME FailuresInv, ~Throttled, entry' = Counted, failures' = Append(failures, 0)
  PROVE  FailuresInv'
<1> DEFINE n == Len(failures)
<1>1. /\ failures \in Seq(0..Window) /\ n \in Nat
      /\ entry \in [count : 0..MaxAttempts, age : 0..(Window + 1)]
      /\ 0 \in 0..Window
  BY AttemptBounds, LenProperties DEF FailuresInv
<1>2. /\ failures' \in Seq(0..Window) /\ Len(failures') = n + 1
      /\ \A i \in 1..n : failures'[i] = failures[i]
      /\ failures'[n + 1] = 0
  BY <1>1, AppendProperties
<1>3. \A i \in 1..n : failures[i] \in 0..Window
  BY <1>1, ElementOfSeq
<1>4. \A i, j \in 1..(n + 1) : i < j => failures'[i] >= failures'[j]
  <2> SUFFICES ASSUME NEW i \in 1..(n + 1), NEW j \in 1..(n + 1), i < j
               PROVE  failures'[i] >= failures'[j]
    OBVIOUS
  <2>1. i \in 1..n
    BY <1>1
  <2>2. CASE j = n + 1
    BY <1>2, <1>3, <2>1, <2>2
  <2>3. CASE j # n + 1
    <3>1. j \in 1..n
      BY <1>1, <2>3
    <3> QED BY <1>2, <2>1, <3>1 DEF FailuresInv
  <2> QED BY <2>2, <2>3
<1> HIDE DEF n
<1>5. CASE Lapsed \/ entry.count = 0
  <2>1. entry' = [count |-> 1, age |-> 0]
    BY <1>5 DEF Counted
  <2>2. n < MaxAttempts
    BY <1>1, <1>5, AttemptBounds DEF FailuresInv, Lapsed, n
  <2> QED BY <1>1, <1>2, <1>4, <2>1, <2>2, AttemptBounds DEF FailuresInv
<1>6. CASE ~Lapsed /\ entry.count # 0
  <2>1. entry' = [entry EXCEPT !.count = entry.count + 1]
    BY <1>6 DEF Counted
  <2>2. entry.count > 0 /\ entry.age <= Window /\ entry.count < MaxAttempts
    BY <1>1, <1>6, AttemptBounds DEF Lapsed, Throttled
  <2>3. /\ entry.count <= n /\ n - entry.count < MaxAttempts
        /\ failures[n - entry.count + 1] = entry.age
    BY <2>2 DEF FailuresInv, n
  <2>4. /\ entry'.count = entry.count + 1 /\ entry'.age = entry.age
        /\ entry' \in [count : 0..MaxAttempts, age : 0..(Window + 1)]
    BY <1>1, <2>1, <2>2, AttemptBounds
  <2>5. n - entry.count + 1 \in 1..n
    BY <1>1, <2>2, <2>3
  <2>6. failures'[(n + 1) - entry'.count + 1] = entry'.age
    BY <1>1, <1>2, <2>3, <2>4, <2>5
  <2> QED BY <1>1, <1>2, <1>4, <2>2, <2>3, <2>4, <2>6 DEF FailuresInv
<1> QED BY <1>5, <1>6

\* A tick drops the failures at the end of the window, all of them at the front.
LEMMA TickKeepsFailures ==
  ASSUME FailuresInv, Tick
  PROVE  FailuresInv'
<1> DEFINE n == Len(failures)
<1>1. /\ failures \in Seq(0..Window) /\ n \in Nat
      /\ entry \in [count : 0..MaxAttempts, age : 0..(Window + 1)]
  BY LenProperties DEF FailuresInv
<1>2. PICK d \in 0..n :
        /\ \A i \in 1..n : i <= d <=> failures[i] >= Window
        /\ failures' = [i \in 1..(n - d) |-> failures[i + d] + 1]
  BY DEF Tick
<1>3. \A i \in 1..n : failures[i] \in 0..Window
  BY <1>1, ElementOfSeq
<1> DEFINE m == n - d
<1>4. m \in Nat
  BY <1>1
<1>5. \A i \in 1..m : /\ i + d \in 1..n
                      /\ failures'[i] = failures[i + d] + 1
                      /\ failures'[i] \in 0..Window
  <2> SUFFICES ASSUME NEW i \in 1..m
               PROVE  /\ i + d \in 1..n
                      /\ failures'[i] = failures[i + d] + 1
                      /\ failures'[i] \in 0..Window
    OBVIOUS
  <2>1. i + d \in 1..n /\ ~(i + d <= d)
    BY <1>1
  <2>2. failures[i + d] \in 0..Window /\ ~(failures[i + d] >= Window)
    BY <1>2, <1>3, <2>1
  <2>3. failures'[i] = failures[i + d] + 1
    BY <1>2
  <2> QED BY <2>1, <2>2, <2>3, AttemptBounds
<1>6. failures' \in Seq(0..Window) /\ Len(failures') = m
  <2>1. failures' \in [1..m -> 0..Window]
    BY <1>2, <1>5
  <2>2. failures' \in Seq(0..Window)
    BY <1>4, <2>1, SeqDef
  <2>3. DOMAIN failures' = 1..m /\ DOMAIN failures' = 1..Len(failures') /\ Len(failures') \in Nat
    BY <2>1, <2>2, LenProperties
  <2> HIDE DEF m
  <2> QED BY <1>4, <2>2, <2>3
<1>7. \A i, j \in 1..m : i < j => failures'[i] >= failures'[j]
  <2> SUFFICES ASSUME NEW i \in 1..m, NEW j \in 1..m, i < j
               PROVE  failures'[i] >= failures'[j]
    OBVIOUS
  <2>1. i + d \in 1..n /\ j + d \in 1..n /\ i + d < j + d
    BY <1>1, <1>5
  <2>2. failures[i + d] >= failures[j + d]
    BY <2>1 DEF FailuresInv
  <2> QED BY <1>3, <1>5, <2>1, <2>2
<1> DEFINE age == IF entry.count > 0 /\ entry.age <= Window THEN entry.age + 1 ELSE entry.age
<1>8. /\ entry' = [entry EXCEPT !.age = age]
      /\ age \in 0..(Window + 1)
  BY <1>1, AttemptBounds DEF Tick
<1> HIDE DEF age, n, m
<1>9. /\ entry' \in [count : 0..MaxAttempts, age : 0..(Window + 1)]
      /\ entry'.count = entry.count /\ entry'.age = age
  BY <1>1, <1>8
<1>10. CASE entry.count = 0
  <2>1. m = 0
    BY <1>1, <1>10 DEF FailuresInv, n, m
  <2> QED BY <1>6, <1>7, <1>9, <1>10, <2>1, AttemptBounds DEF FailuresInv
<1>11. CASE entry.count > 0 /\ entry.age > Window
  <2>1. n < entry.count /\ age = entry.age
    BY <1>11, <1>1, AttemptBounds DEF FailuresInv, age, n
  <2>2. m < entry.count
    BY <1>1, <1>9, <2>1 DEF m
  <2> QED BY <1>1, <1>6, <1>7, <1>9, <1>11, <2>1, <2>2, AttemptBounds DEF FailuresInv
<1>12. CASE entry.count > 0 /\ entry.age <= Window
  <2> DEFINE k == n - entry.count + 1
  <2>1. /\ entry.count <= n /\ n - entry.count < MaxAttempts /\ failures[k] = entry.age
        /\ age = entry.age + 1
    BY <1>12 DEF FailuresInv, age, n
  <2>2. k \in 1..n /\ (k <= d <=> entry.age >= Window)
    BY <1>1, <1>2, <1>12, <2>1
  <2>t. /\ entry.count \in 1..MaxAttempts /\ entry.age \in 0..Window /\ Window \in Nat
        /\ n \in Nat /\ m \in Nat /\ d \in Nat /\ m = n - d /\ MaxAttempts \in Nat
    BY <1>1, <1>4, <1>12, AttemptBounds DEF m
  <2>3. CASE entry.age = Window
    <3>1. m < entry.count
      BY <2>t, <2>2, <2>3
    <3>2. age > Window /\ ~(age <= Window)
      BY <2>t, <2>1, <2>3
    <3>3. entry'.count > 0
      BY <1>9, <1>12
    <3> HIDE DEF k
    <3> QED BY <1>6, <1>7, <1>9, <3>1, <3>2, <3>3 DEF FailuresInv
  <2>4. CASE entry.age < Window
    <3>1. k > d
      BY <2>t, <2>2, <2>4
    <3>2. /\ entry.count <= m /\ m - entry.count < MaxAttempts
          /\ m - entry.count + 1 \in 1..m /\ (m - entry.count + 1) + d = k
      BY <2>t, <2>1, <3>1
    <3>3. age <= Window /\ ~(age > Window)
      BY <2>t, <2>1, <2>4
    <3>4. failures'[m - entry.count + 1] = age
      BY <1>5, <2>1, <3>2
    <3> HIDE DEF k
    <3> QED BY <1>6, <1>7, <1>9, <1>12, <2>t, <3>2, <3>3, <3>4 DEF FailuresInv
  <2> QED BY <2>t, <2>3, <2>4
<1>13. entry.count \in Nat /\ entry.age \in Nat /\ Window \in Nat
  BY AttemptBounds DEF FailuresInv
<1> QED BY <1>10, <1>11, <1>12, <1>13

LEMMA FailuresStaySound == Spec => []FailuresInv
<1>1. Init => FailuresInv
  <2> SUFFICES ASSUME Init PROVE FailuresInv
    OBVIOUS
  <2>1. failures = <<>> /\ entry = [count |-> 0, age |-> 0]
    BY DEF Init
  <2>2. failures \in Seq(0..Window) /\ Len(failures) = 0
    BY <2>1, EmptySeq
  <2> QED BY <2>1, <2>2, AttemptBounds DEF FailuresInv
<1>2. FailuresInv /\ [Next]_vars => FailuresInv'
  <2> SUFFICES ASSUME FailuresInv, [Next]_vars PROVE FailuresInv'
    OBVIOUS
  <2>1. ASSUME UNCHANGED <<entry, failures>> PROVE FailuresInv'
    BY <2>1 DEF FailuresInv
  <2>2. ASSUME NEW r \in sent, Login(r) PROVE FailuresInv'
    BY <2>1, <2>2, NoFailures, FailKeepsFailures DEF Login
  <2>3. CASE OtherLogsIn
    BY <2>3, NoFailures DEF OtherLogsIn
  <2>4. CASE Tick
    BY <2>4, TickKeepsFailures
  <2>5. UNCHANGED <<entry, failures>> \/ Tick \/ OtherLogsIn \/ \E r \in sent : Login(r)
    BY DEF Next, vars, server, Load, Fetch, Refresh, Disconnect, Logout, OtherSignsOut, Submit,
           Receive, Lose, Serve, Expire
  <2> QED BY <2>1, <2>2, <2>3, <2>4, <2>5
<1> QED BY <1>1, <1>2, PTL DEF Spec

\* server.js:755-756, 768-790: whatever the attempts and the ends of the window, less
\* than two windows' worth of failed logins is examined within one window's length.
THEOREM AttemptsAreLimited == Spec => []AttemptsLimited
<1>1. FailuresInv => AttemptsLimited
  <2> SUFFICES ASSUME FailuresInv PROVE AttemptsLimited
    OBVIOUS
  <2>1. Len(failures) \in Nat /\ entry \in [count : 0..MaxAttempts, age : 0..(Window + 1)]
    BY LenProperties DEF FailuresInv
  <2> QED BY <2>1, AttemptBounds DEF FailuresInv, AttemptsLimited
<1> QED BY <1>1, FailuresStaySound, PTL
=============================================================================
