------------------------------ MODULE DrainGate ------------------------------
(***************************************************************************)
(* safeEmitWithDrain (lib.js, lib.ts): the streams of one socket share a   *)
(* count of the bytes they have handed to engine.io, and a write above the *)
(* high-water mark has to wait for its "drain" or, failing that, a timer.  *)
(*                                                                         *)
(* engine.io is modelled from what both files rely on.  The server's end   *)
(* reports "drain" as soon as its buffer is handed to the transport, so a  *)
(* write that finds the transport idle drains before it is counted.  The   *)
(* client's end reports it when the whole buffer is out.  A write's        *)
(* callback may write again at once, also from within "drain"; that is a   *)
(* Write step of its own, because the waiting list has been replaced then. *)
(***************************************************************************)
EXTENDS Integers, FiniteSets

CONSTANTS
  Streams,    \* the streams that share the socket
  Sizes,      \* bytes of a write
  HighWater,  \* HIGH_WATER_BYTES
  MaxWrites   \* bound: writes of a stream

\* A packet carries its request id, so no write is empty.  A single write above
\* the mark would wait on an idle connection: the streams' own marks prevent it.
ASSUME DrainGateAssumption ==
  /\ HighWater \in Nat /\ MaxWrites \in Nat
  /\ Sizes \subseteq 1..HighWater

Writes == Streams \X (1..MaxWrites)

VARIABLES
  side,     \* whose engine.io this is
  open,     \* the connection
  queue,    \* bytes in the engine's write buffer
  flight,   \* bytes the transport has not yet sent (0: it is writable)
  bytes,    \* state.bytes
  waiters,  \* state.waiters
  timers,   \* the writes whose safety timer is armed
  ticks,    \* the writes whose callback is due on the next tick
  written,  \* written[s]: the writes of s so far
  calls,    \* calls[w]: how often the callback of w ran
  fired     \* timers that fired while the connection was open

vars == <<side, open, queue, flight, bytes, waiters, timers, ticks, written, calls, fired>>

TypeOK ==
  /\ side \in {"server", "client"} /\ open \in BOOLEAN
  /\ queue \in Nat /\ flight \in Nat /\ bytes \in Nat /\ fired \in Nat
  /\ waiters \subseteq Writes /\ timers \subseteq Writes /\ ticks \subseteq Writes
  /\ written \in [Streams -> 0..MaxWrites]
  /\ calls \in [Writes -> Nat]

Init ==
  /\ side \in {"server", "client"} /\ open = TRUE
  /\ queue = 0 /\ flight = 0 /\ bytes = 0 /\ fired = 0
  /\ waiters = {} /\ timers = {} /\ ticks = {}
  /\ written = [s \in Streams |-> 0]
  /\ calls = [w \in Writes |-> 0]

\* A stream writes again only when the last callback has run.
Ready(s) == \A k \in 1..written[s] : calls[<<s, k>>] > 0

-----------------------------------------------------------------------------
\* Mutated form: done() does not remember that it has been called.
ResumedAgain(W) == [w \in Writes |-> IF w \in W THEN calls[w] + 1 ELSE calls[w]]

\* done() of the writes in W.
Resumed(W) == [w \in Writes |-> IF w \in W /\ calls[w] = 0 THEN 1 ELSE calls[w]]

\* Mutated form: the count keeps what has gone out.
AfterDrainKept == bytes

\* The "drain" handler: what the count becomes.
AfterDrain == 0

\* The count after a write of n bytes, whose emit drained or did not.
Counted(n, drains) == (IF drains THEN AfterDrain ELSE bytes) + n

MustWait(count) == count > HighWater

\* Mutated form: no safety timer.
ArmedNever(w) == timers

Armed(w) == timers \cup {w}

Write(s, n) ==
  LET w == <<s, written[s] + 1>>
      drains == open /\ side = "server" /\ flight = 0
      resumed == IF drains THEN waiters ELSE {}
      count == Counted(n, drains)
      left == waiters \ resumed
  IN
  /\ written[s] < MaxWrites /\ Ready(s)
  /\ written' = [written EXCEPT ![s] = @ + 1]
  /\ flight' = IF open /\ flight = 0 THEN n ELSE flight
  /\ queue' = IF open /\ flight > 0 THEN queue + n ELSE queue
  /\ bytes' = count
  /\ calls' = Resumed(resumed)
  /\ IF MustWait(count)
       THEN waiters' = left \cup {w} /\ timers' = Armed(w) \ resumed /\ UNCHANGED ticks
       ELSE waiters' = left /\ ticks' = ticks \cup {w} /\ timers' = timers \ resumed
  /\ UNCHANGED <<side, open, fired>>

\* process.nextTick(callback)
Tick(w) ==
  /\ w \in ticks
  /\ ticks' = ticks \ {w}
  /\ calls' = [calls EXCEPT ![w] = @ + 1]
  /\ UNCHANGED <<side, open, queue, flight, bytes, waiters, timers, written, fired>>

\* The transport has sent what it was given and takes the engine's buffer.
TransportReady ==
  LET drains == (side = "server") <=> (queue > 0) IN
  /\ open /\ flight > 0
  /\ flight' = queue /\ queue' = 0
  /\ IF drains
       THEN /\ bytes' = AfterDrain
            /\ calls' = Resumed(waiters)
            /\ timers' = timers \ waiters
            /\ waiters' = {}
       ELSE UNCHANGED <<bytes, calls, timers, waiters>>
  /\ UNCHANGED <<side, open, ticks, written, fired>>

\* The safety timer; the entry stays in state.waiters.
TimerFires(w) ==
  /\ w \in timers
  /\ timers' = timers \ {w}
  /\ calls' = Resumed({w})
  /\ fired' = IF open THEN fired + 1 ELSE fired
  /\ UNCHANGED <<side, open, queue, flight, bytes, waiters, ticks, written>>

\* The connection closes: its buffers are dropped and it never drains again.
Close ==
  /\ open
  /\ open' = FALSE /\ queue' = 0 /\ flight' = 0
  /\ UNCHANGED <<side, bytes, waiters, timers, ticks, written, calls, fired>>

\* A client connects again with a new engine, whose state starts clean; writes
\* that wait on the old one have only their timers.
Reconnect ==
  /\ ~open /\ side = "client"
  /\ open' = TRUE /\ bytes' = 0 /\ waiters' = {}
  /\ UNCHANGED <<side, queue, flight, timers, ticks, written, calls, fired>>

Next ==
  \/ \E s \in Streams, n \in Sizes : Write(s, n)
  \/ \E w \in Writes : Tick(w) \/ TimerFires(w)
  \/ TransportReady \/ Close \/ Reconnect

\* The event loop runs its ticks and its timers, and an open transport goes on
\* sending; nobody has to write or to connect again.
Spec ==
  /\ Init /\ [][Next]_vars
  /\ WF_vars(TransportReady)
  /\ \A w \in Writes : WF_vars(Tick(w)) /\ WF_vars(TimerFires(w))

-----------------------------------------------------------------------------
Waiting(w) == w \in waiters /\ calls[w] = 0

\* The callback of a write runs at most once although a tick, a drain and a
\* timer may be after it, and a stream has one write under way: Node fails a
\* stream whose callback runs twice.
CallbackOnce ==
  /\ \A w \in Writes : calls[w] <= 1 /\ (calls[w] = 1 => w \notin timers \cup ticks)
  /\ \A s \in Streams, k \in 1..MaxWrites : k < written[s] => calls[<<s, k>>] = 1

\* lib.js:20-21 "this is the point where everything we counted has actually gone
\* out": a write that waits on an open connection has a drain coming, and does
\* not sit out the timer on an idle transport.
NoIdleWait ==
  open /\ (\E w \in Writes : Waiting(w)) => flight > 0 /\ (side = "server" => queue > 0)

\* What engine.io still holds for us was counted.
CountCovers == open => (IF side = "server" THEN queue ELSE queue + flight) <= bytes

\* Every stream adds at most one write above the mark, and one more each time a
\* timer lets it go on.
MaxSize == CHOOSE n \in Sizes : \A k \in Sizes : k <= n
BacklogBounded == queue <= HighWater + (Cardinality(Streams) + fired) * MaxSize

\* README.md:12 "drain safety timeouts prevents sender deadlocks": every write
\* is called back, also when its connection closes while it waits.
WritesResume ==
  \A w \in Writes : w[2] <= written[w[1]] ~> calls[w] > 0
=============================================================================
