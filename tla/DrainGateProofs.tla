--------------------------- MODULE DrainGateProofs ---------------------------
(***************************************************************************)
(* The safety of DrainGate for any streams, sizes and high-water mark.     *)
(* A write waits only above the mark, and above the mark the engine still  *)
(* has something of ours: at the server because a count that was not reset *)
(* since the buffer was last empty is one write's, at the client because   *)
(* the count is zero when the transport has nothing.                       *)
(***************************************************************************)
EXTENDS DrainGate, TLAPS

Issued(w) == w[2] <= written[w[1]]

\* Callbacks are due, and have run, only for writes that were made.
Bookkeeping ==
  /\ \A w \in Writes :
       /\ calls[w] \in {0, 1}
       /\ w \in waiters \cup timers \cup ticks => Issued(w)
       /\ calls[w] = 1 => Issued(w) /\ w \notin timers \cup ticks
       /\ w \in ticks => w \notin waiters \cup timers
  /\ \A s \in Streams, k \in 1..MaxWrites : k < written[s] => calls[<<s, k>>] = 1

\* What the engine holds and the count agree.
Engine ==
  /\ flight = 0 => queue = 0
  /\ ~open => flight = 0
  /\ open /\ side = "client" /\ flight = 0 => bytes = 0
  /\ open /\ side = "server" /\ queue = 0 => bytes <= HighWater

IInv == TypeOK /\ Bookkeeping /\ Engine /\ CountCovers /\ NoIdleWait

\* The parts of a write.
LEMMA WriteParts ==
  ASSUME NEW w \in Writes
  PROVE  w[1] \in Streams /\ w[2] \in 1..MaxWrites /\ w = <<w[1], w[2]>>
BY DEF Writes

\* What done() does to the callbacks.
LEMMA ResumedType ==
  ASSUME calls \in [Writes -> Nat], NEW W
  PROVE  /\ Resumed(W) \in [Writes -> Nat]
         /\ \A w \in Writes : Resumed(W)[w] = IF w \in W /\ calls[w] = 0 THEN 1 ELSE calls[w]
BY DEF Resumed

\* Initially nothing is under way.
LEMMA InitIInv == ASSUME Init PROVE IInv
BY DrainGateAssumption DEF Init, IInv, TypeOK, Bookkeeping, Engine, CountCovers, NoIdleWait,
   Waiting, Issued

-----------------------------------------------------------------------------
\* A write keeps the invariant: the stream's earlier writes have been called
\* back, so the new one is nobody's yet.
LEMMA WriteIInv ==
  ASSUME IInv, NEW s \in Streams, NEW n \in Sizes, Write(s, n)
  PROVE  IInv'
<1> DEFINE w == <<s, written[s] + 1>>
           drains == open /\ side = "server" /\ flight = 0
           resumed == IF drains THEN waiters ELSE {}
           count == Counted(n, drains)
<1> USE DrainGateAssumption
<1>1. n \in Nat /\ n > 0 /\ n <= HighWater
  OBVIOUS
<1>2. /\ written[s] \in 0..MaxWrites /\ written[s] < MaxWrites /\ Ready(s)
      /\ written' = [written EXCEPT ![s] = @ + 1]
      /\ flight' = (IF open /\ flight = 0 THEN n ELSE flight)
      /\ queue' = (IF open /\ flight > 0 THEN queue + n ELSE queue)
      /\ bytes' = count
      /\ calls' = Resumed(resumed)
      /\ \/ /\ MustWait(count)
            /\ waiters' = (waiters \ resumed) \cup {w}
            /\ timers' = (timers \cup {w}) \ resumed /\ ticks' = ticks
         \/ /\ ~MustWait(count)
            /\ waiters' = waiters \ resumed
            /\ ticks' = ticks \cup {w} /\ timers' = timers \ resumed
      /\ side' = side /\ open' = open /\ fired' = fired
  BY DEF Write, IInv, TypeOK, Armed
<1>3. w \in Writes /\ w[1] = s /\ w[2] = written[s] + 1 /\ count \in Nat /\ count >= n
  BY <1>1, <1>2 DEF Writes, Counted, AfterDrain, IInv, TypeOK
<1>4. resumed \subseteq waiters
  OBVIOUS
<1>5. /\ calls' \in [Writes -> Nat]
      /\ \A v \in Writes : calls'[v] = IF v \in resumed /\ calls[v] = 0 THEN 1 ELSE calls[v]
  BY <1>2, ResumedType DEF IInv, TypeOK
<1>6. TypeOK'
  BY <1>1, <1>2, <1>3, <1>4, <1>5 DEF IInv, TypeOK
<1>7. ASSUME NEW v \in Writes
      PROVE  /\ Issued(v) => Issued(v)'
             /\ v = w => ~Issued(v) /\ Issued(v)'
  <2>1. v[1] \in Streams /\ v[2] \in 1..MaxWrites
    BY WriteParts
  <2>2. written[v[1]] \in Nat /\ written'[v[1]] = IF v[1] = s THEN written[s] + 1 ELSE written[v[1]]
    BY <1>2, <2>1 DEF IInv, TypeOK
  <2>3. v = w => v[1] = s /\ v[2] = written[s] + 1
    OBVIOUS
  <2> HIDE DEF w
  <2> QED
    BY <2>1, <2>2, <2>3 DEF Issued
<1>8. w \notin waiters \cup timers \cup ticks /\ calls[w] = 0
  <2>1. ASSUME NEW v \in Writes, v = w
        PROVE  v \notin waiters \cup timers \cup ticks /\ calls[v] = 0
    BY <1>7, <2>1 DEF IInv, Bookkeeping
  <2> QED
    BY <1>3, <2>1
<1>9. Bookkeeping'
  <2>1. ASSUME NEW v \in Writes
        PROVE  /\ calls'[v] \in {0, 1}
               /\ v \in waiters' \cup timers' \cup ticks' => Issued(v)'
               /\ calls'[v] = 1 => Issued(v)' /\ v \notin timers' \cup ticks'
               /\ v \in ticks' => v \notin waiters' \cup timers'
    <3>1. /\ calls[v] \in {0, 1}
          /\ v \in waiters \cup timers \cup ticks => Issued(v)
          /\ calls[v] = 1 => Issued(v) /\ v \notin timers \cup ticks
          /\ v \in ticks => v \notin waiters \cup timers
      BY DEF IInv, Bookkeeping
    <3>2. Issued(v) => Issued(v)'
      BY <1>7
    <3>3. v = w => Issued(v)'
      BY <1>7
    <3>4. calls'[v] = IF v \in resumed /\ calls[v] = 0 THEN 1 ELSE calls[v]
      BY <1>5
    <3> HIDE DEF w, resumed, count, drains
    <3> QED
      BY <1>2, <1>4, <1>8, <3>1, <3>2, <3>3, <3>4
  <2>2. ASSUME NEW t \in Streams, NEW k \in 1..MaxWrites, k < written'[t]
        PROVE  calls'[<<t, k>>] = 1
    <3>1. <<t, k>> \in Writes /\ calls[<<t, k>>] \in {0, 1}
      BY DEF Writes, IInv, Bookkeeping
    <3>2. calls[<<t, k>>] = 1
      <4>1. CASE t = s
        <5>1. k \in 1..written[s]
          BY <1>2, <2>2, <4>1 DEF IInv, TypeOK
        <5> QED
          BY <1>2, <3>1, <4>1, <5>1 DEF Ready
      <4>2. CASE t # s
        BY <1>2, <2>2, <4>2 DEF IInv, TypeOK, Bookkeeping
      <4> QED
        BY <4>1, <4>2
    <3> QED
      BY <1>5, <3>1, <3>2
  <2> QED
    BY <2>1, <2>2 DEF Bookkeeping
<1>10. Engine'
  BY <1>1, <1>2 DEF IInv, TypeOK, Engine, Counted, AfterDrain
<1>11. CountCovers'
  BY <1>1, <1>2 DEF IInv, TypeOK, Engine, CountCovers, Counted, AfterDrain
<1>12. NoIdleWait'
  <2>1. CASE open /\ MustWait(count)
    BY <1>1, <1>2, <2>1 DEF IInv, TypeOK, Engine, Counted, AfterDrain, MustWait, NoIdleWait
  <2>2. CASE open /\ ~MustWait(count)
    <3>1. \A v \in Writes : Waiting(v)' => Waiting(v) /\ ~drains
      BY <1>2, <1>5, <2>2 DEF Waiting, IInv, Bookkeeping
    <3> QED
      BY <1>1, <1>2, <2>2, <3>1 DEF IInv, TypeOK, NoIdleWait
  <2> QED
    BY <1>2, <2>1, <2>2 DEF NoIdleWait
<1> QED
  BY <1>6, <1>9, <1>10, <1>11, <1>12 DEF IInv

\* A callback on the next tick: its write was not called back before.
LEMMA TickIInv ==
  ASSUME IInv, NEW w \in Writes, Tick(w)
  PROVE  IInv'
<1>1. calls[w] = 0 /\ w \notin waiters \cup timers /\ Issued(w)
  BY DEF Tick, IInv, Bookkeeping
<1>2. /\ calls' \in [Writes -> Nat]
      /\ \A v \in Writes : calls'[v] = IF v = w THEN 1 ELSE calls[v]
  BY <1>1 DEF Tick, IInv, TypeOK
<1>3. TypeOK'
  BY <1>2 DEF Tick, IInv, TypeOK
<1>4. \A v \in Writes : Issued(v)' <=> Issued(v)
  BY DEF Tick, Issued
<1>5. Bookkeeping'
  BY <1>1, <1>2, <1>4 DEF Tick, IInv, Bookkeeping, Writes
<1>6. NoIdleWait'
  BY <1>1, <1>2 DEF Tick, IInv, NoIdleWait, Waiting
<1> QED
  BY <1>3, <1>5, <1>6 DEF Tick, IInv, Engine, CountCovers

\* A safety timer: the same for a write that waits.
LEMMA TimerIInv ==
  ASSUME IInv, NEW w \in Writes, TimerFires(w)
  PROVE  IInv'
<1>1. calls[w] = 0 /\ Issued(w)
  BY DEF TimerFires, IInv, Bookkeeping
<1>2. /\ calls' \in [Writes -> Nat]
      /\ \A v \in Writes : calls'[v] = IF v = w THEN 1 ELSE calls[v]
  BY <1>1, ResumedType DEF TimerFires, IInv, TypeOK
<1>3. TypeOK'
  BY <1>2 DEF TimerFires, IInv, TypeOK
<1>4. \A v \in Writes : Issued(v)' <=> Issued(v)
  BY DEF TimerFires, Issued
<1>5. w \notin ticks
  BY DEF TimerFires, IInv, Bookkeeping
<1>6. Bookkeeping'
  BY <1>1, <1>2, <1>4, <1>5 DEF TimerFires, IInv, Bookkeeping, Writes
<1>7. NoIdleWait'
  BY <1>1, <1>2 DEF TimerFires, IInv, NoIdleWait, Waiting
<1> QED
  BY <1>3, <1>6, <1>7 DEF TimerFires, IInv, Engine, CountCovers

\* The transport takes the engine's buffer, with or without a drain.
LEMMA TransportIInv ==
  ASSUME IInv, TransportReady
  PROVE  IInv'
<1>1. /\ Resumed(waiters) \in [Writes -> Nat]
      /\ \A v \in Writes : Resumed(waiters)[v] = IF v \in waiters /\ calls[v] = 0 THEN 1 ELSE calls[v]
  BY ResumedType DEF IInv, TypeOK
<1>2. TypeOK'
  BY <1>1 DEF TransportReady, AfterDrain, IInv, TypeOK
<1>3. \A v \in Writes : Issued(v)' <=> Issued(v)
  BY DEF TransportReady, Issued
<1>4. Bookkeeping'
  BY <1>1, <1>3 DEF TransportReady, IInv, Bookkeeping, Writes
<1>5. Engine' /\ CountCovers'
  BY DrainGateAssumption DEF TransportReady, AfterDrain, IInv, TypeOK, Engine, CountCovers
<1>6. NoIdleWait'
  BY <1>1 DEF TransportReady, IInv, TypeOK, NoIdleWait, Waiting
<1> QED
  BY <1>2, <1>4, <1>5, <1>6 DEF IInv

\* The connection closes, and a client connects again.
LEMMA ConnectionIInv ==
  ASSUME IInv, Close \/ Reconnect
  PROVE  IInv'
<1>1. CASE Close
  BY <1>1 DEF Close, IInv, TypeOK, Bookkeeping, Issued, Engine, CountCovers, NoIdleWait
<1>2. CASE Reconnect
  BY <1>2 DEF Reconnect, IInv, TypeOK, Bookkeeping, Issued, Engine, CountCovers, NoIdleWait, Waiting
<1> QED
  BY <1>1, <1>2

\* The invariant holds in every reachable state.
LEMMA Inductive == Spec => []IInv
<1>1. Init => IInv
  BY InitIInv
<1>2. IInv /\ [Next]_vars => IInv'
  <2> SUFFICES ASSUME IInv, [Next]_vars PROVE IInv'
    OBVIOUS
  <2>1. CASE UNCHANGED vars
    BY <2>1 DEF vars, IInv, TypeOK, Bookkeeping, Issued, Engine, CountCovers, NoIdleWait, Waiting
  <2>2. CASE \E s \in Streams, n \in Sizes : Write(s, n)
    BY <2>2, WriteIInv
  <2>3. CASE \E w \in Writes : Tick(w) \/ TimerFires(w)
    BY <2>3, TickIInv, TimerIInv
  <2>4. CASE TransportReady
    BY <2>4, TransportIInv
  <2>5. CASE Close \/ Reconnect
    BY <2>5, ConnectionIInv
  <2> QED
    BY <2>1, <2>2, <2>3, <2>4, <2>5 DEF Next
<1> QED
  BY <1>1, <1>2, PTL DEF Spec

-----------------------------------------------------------------------------
\* The bookkeeping of safeEmitWithDrain stays well typed: the count in
\* particular never goes below zero, whichever end of the socket it is.
THEOREM GateTypeCorrect == Spec => []TypeOK
<1>1. IInv => TypeOK
  BY DEF IInv
<1> QED
  BY <1>1, Inductive, PTL

\* A write's callback runs at most once, and a stream's next write is made only
\* after it, although a tick, a drain and a timer may be after one callback.
THEOREM CallbacksRunOnce == Spec => []CallbackOnce
<1>1. IInv => CallbackOnce
  BY DEF IInv, Bookkeeping, CallbackOnce, TypeOK
<1> QED
  BY <1>1, Inductive, PTL

\* On an open connection a write that waits has a drain coming.
THEOREM NobodyWaitsIdle == Spec => []NoIdleWait
<1>1. IInv => NoIdleWait
  BY DEF IInv
<1> QED
  BY <1>1, Inductive, PTL

\* The count is never less than what engine.io still holds.
THEOREM TheCountCovers == Spec => []CountCovers
<1>1. IInv => CountCovers
  BY DEF IInv
<1> QED
  BY <1>1, Inductive, PTL
=============================================================================
