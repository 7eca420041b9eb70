----------------------------- MODULE ClientLife -----------------------------
(***************************************************************************)
(* The life of one tunnel client (api.ts, sdk.ts): it dials the servers of *)
(* --server in turn, proves with its own heartbeat that the server still   *)
(* answers, and ends when it is told to or refused.  socket.io's manager   *)
(* redials for ever after a transport failure and never after a refusal.   *)
(***************************************************************************)
EXTENDS Naturals, Sequences, SequencesExt, FiniteSetsExt

CONSTANTS
  Servers,   \* 1..n, in the order of --server
  Domain,    \* Domain[s]: the host name of server s, label by label
  Tries,     \* connect failures before the next server is tried
  Patience,  \* heartbeats without an answer before the server is given up
  MaxFaults  \* bound: changes of the servers for the worse, and verdicts

ASSUME ClientLifeAssumption ==
  /\ Servers = 1..Cardinality(Servers) /\ 1 \in Servers
  /\ \A s \in Servers : Domain[s] # <<>>
  /\ Tries \in Nat \ {0} /\ Patience \in Nat \ {0} /\ MaxFaults \in Nat

VARIABLES
  srv,      \* srv[s]: "up"; "down"; "wedged": accepts and says nothing more;
            \* "busy": its claim registry does not answer
  cli,      \* exitOnError: the command line, not the SDK
  phase,    \* "idle", "dialling", "connected", or a member of Gone
  linked,   \* the connection that phase is about still works
  index,    \* serverIndex: the entry of --server it is at
  host,     \* the host name dialled
  failures, \* connectFailures
  silent,   \* heartbeats since the last answer (lastPongAt)
  ping,     \* a heartbeat is on its way
  timer,    \* keepAliveTimer is set
  told,     \* the client was told to go, or refused for good
  faults

vars == <<srv, cli, phase, linked, index, host, failures, silent, ping, timer, told, faults>>

\* "unstarted": start() gave up before it dialled.
Gone == {"unstarted", "rejected", "stopped", "exited"}

TypeOK ==
  /\ srv \in [Servers -> {"up", "down", "wedged", "busy"}] /\ {cli, linked, ping, timer, told} \subseteq BOOLEAN
  /\ phase \in {"idle", "dialling", "connected"} \cup Gone /\ linked => phase = "connected"
  /\ index \in Servers /\ IsSuffix(Domain[index], host)
  /\ failures \in 0..(Tries - 1) /\ silent \in 0..Patience /\ faults \in 0..MaxFaults
  /\ timer => phase \notin {"idle", "unstarted", "stopped", "exited"}

Init ==
  /\ srv \in [Servers -> {"up", "down"}] /\ cli \in BOOLEAN
  /\ phase = "idle" /\ linked = FALSE /\ index = 1
  /\ host = <<"tunnel">> \o Domain[1]
  /\ failures = 0 /\ silent = 0 /\ ping = FALSE /\ timer = FALSE /\ told = FALSE /\ faults = 0

\* The server a host name leads to: the one of the longest domain it ends with.
\* Servers of one domain differ in their port, which follows the index; servers of
\* different domains are taken to listen on the same port.
Dialled ==
  LET ending == {s \in Servers : IsSuffix(Domain[s], host)}
      named == {s \in ending : \A t \in ending : Len(Domain[t]) <= Len(Domain[s])}
  IN IF index \in named THEN index ELSE Min(named)

client == <<phase, index, host, failures, silent, ping, timer, told>>

-----------------------------------------------------------------------------
\* Mutated form: the last server is the end of the list.
NextIndexStops == IF index < Cardinality(Servers) THEN index + 1 ELSE index

NextIndex == (index % Cardinality(Servers)) + 1

\* nextServer(): the host name dialled stays if it ends with the next server's.  (Of
\* whole labels here; endsWith would also take example.com for the end of badexample.com.)
NextServer ==
  IF Cardinality(Servers) < 2 THEN UNCHANGED <<index, host>>
  ELSE /\ index' = NextIndex
       /\ host' = IF IsSuffix(Domain[NextIndex], host) THEN host ELSE Domain[NextIndex]

\* start(), initStartClient: a profile (or --server and --token, or one that autoinit
\* can make) and a token are needed.  `issued`: the server issues one to autoinit;
\* if not, no profile is written and reading it fails.
Start(profile, server, token, autoinit, issued) ==
  LET found == profile # "none" \/ (server /\ token) \/ (autoinit /\ (token \/ issued))
      held == token \/ profile = "token" \/ (profile = "none" /\ autoinit) IN
  /\ phase = "idle"
  /\ phase' = IF found /\ held THEN "dialling" ELSE "unstarted"
  /\ timer' = (found /\ held)
  /\ UNCHANGED <<srv, cli, linked, index, host, failures, silent, ping, told, faults>>

\* connect: the manager's handshake was accepted.
Accepted ==
  /\ phase = "dialling" /\ srv[Dialled] = "up"
  /\ phase' = "connected" /\ linked' = TRUE /\ failures' = 0 /\ silent' = 0 /\ ping' = FALSE
  /\ UNCHANGED <<srv, cli, index, host, timer, told, faults>>

\* connect_error of the transport, or its time-out; the manager will dial again.
DialFails ==
  /\ phase = "dialling" /\ srv[Dialled] \in {"down", "wedged"}
  /\ IF failures + 1 >= Tries THEN failures' = 0 /\ NextServer
     ELSE failures' = failures + 1 /\ UNCHANGED <<index, host>>
  /\ UNCHANGED <<srv, cli, phase, linked, silent, ping, timer, told, faults>>

\* connect_error with a message "[40...": the command exits, the SDK's socket is
\* left as it is.  `final`: the token or the name is no good; otherwise the claim
\* registry could not be asked.
Rejected(final) ==
  /\ phase = "dialling"
  /\ IF final THEN srv[Dialled] = "up" /\ faults < MaxFaults /\ faults' = faults + 1
     ELSE srv[Dialled] = "busy" /\ UNCHANGED faults
  /\ phase' = IF cli THEN "exited" ELSE "rejected"
  /\ timer' = (timer /\ ~cli) /\ told' = (told \/ final)
  /\ UNCHANGED <<srv, cli, linked, index, host, failures, silent, ping>>

\* disconnect, but for "io server disconnect": the manager dials again.
TransportCloses ==
  /\ phase = "connected" /\ (~linked \/ srv[Dialled] = "wedged")
  /\ phase' = "dialling" /\ linked' = FALSE
  /\ UNCHANGED <<srv, cli, index, host, failures, silent, ping, timer, told, faults>>

\* keepAlive() looks at a connected socket only.
Beating == timer /\ phase = "connected"

\* An answer takes less than an interval: a server that answers has answered.
Awaited == ping /\ linked /\ srv[Dialled] = "up"

\* The heartbeat: "ping", and the next server after a silence.
Tick ==
  /\ Beating /\ ~Awaited
  /\ ping' = TRUE
  /\ IF silent >= Patience
       THEN silent' = 0 /\ NextServer /\ phase' = "dialling" /\ linked' = FALSE
       ELSE silent' = silent + 1 /\ UNCHANGED <<index, host, phase, linked>>
  /\ UNCHANGED <<srv, cli, failures, timer, told, faults>>

\* Mutated form: an answer does not end the silence.
HeardNothing == silent

Heard == 0

Pong ==
  /\ phase = "connected" /\ Awaited
  /\ ping' = FALSE /\ silent' = Heard
  /\ UNCHANGED <<srv, cli, phase, linked, index, host, failures, timer, told, faults>>

\* disconnect_exit or "io server disconnect": an administrator removed the tunnel
\* or another process of the same client took it over.
ToldToGo ==
  /\ phase = "connected" /\ linked /\ srv[Dialled] = "up"
  /\ phase' = IF cli THEN "exited" ELSE "stopped"
  /\ linked' = FALSE /\ timer' = FALSE /\ told' = TRUE
  /\ UNCHANGED <<srv, cli, index, host, failures, silent, ping, faults>>

\* stop(), or a signal to the command.  stop() does nothing before there is a socket,
\* so a start() that is still waiting for an answer goes on.
Stop ==
  /\ phase \notin {"unstarted", "stopped", "exited"} /\ (phase = "idle" => cli)
  /\ phase' = IF cli THEN "exited" ELSE "stopped"
  /\ linked' = FALSE /\ timer' = FALSE /\ told' = TRUE
  /\ UNCHANGED <<srv, cli, index, host, failures, silent, ping, faults>>

\* A server stops, wedges, loses its claim registry or comes back.
ServerTurns(s, to) ==
  /\ srv[s] # to
  /\ to # "up" => faults < MaxFaults
  /\ faults' = IF to = "up" THEN faults ELSE faults + 1
  /\ srv' = [srv EXCEPT ![s] = to]
  /\ linked' = (linked /\ ~(s = Dialled /\ "down" \in {to, srv[s]}))
  /\ UNCHANGED <<client, cli>>

Dial == Accepted \/ DialFails \/ Rejected(FALSE)

Next ==
  \/ \E profile \in {"none", "bare", "token"}, server, token, autoinit, issued \in BOOLEAN :
       Start(profile, server, token, autoinit, issued)
  \/ Dial \/ Rejected(TRUE) \/ TransportCloses \/ Tick \/ Pong \/ ToldToGo \/ Stop
  \/ \E s \in Servers, to \in {"up", "down", "wedged", "busy"} : ServerTurns(s, to)

\* The manager dials, the transport notices a loss, the timer fires, a server that
\* is up answers.
Spec == Init /\ [][Next]_vars
        /\ WF_vars(Dial) /\ WF_vars(TransportCloses) /\ WF_vars(Tick) /\ WF_vars(Pong)

-----------------------------------------------------------------------------
SettlesWith(s) ==
  <>[](srv[s] = "up") => <>[](
      \/ phase \in Gone \cup {"idle"}
      \/ phase = "connected" /\ linked /\ srv[Dialled] = "up")

\* However the servers failed before, once one of them stays up the client ends up
\* connected to one that answers, or has ended: one whose host name is not the end of
\* another server's.
EndsConnected ==
  \A s \in Servers :
    (\A t \in Servers : Domain[t] = Domain[s] \/ ~IsSuffix(Domain[s], Domain[t])) => SettlesWith(s)

\* api.ts:69-74 "with more than one `--server`, is what moves the tunnel to another
\* node": also to one whose host name another server's ends with.
EveryServerServes == \A s \in Servers : SettlesWith(s)

\* A client that was removed, replaced, refused or stopped never comes back, though
\* its heartbeat timer may still be running.
GoneIsFinal == [][(phase \in Gone) => (phase' \in Gone)]_vars

\* A server that answers is not given up: the client leaves it when it goes away
\* or tells it to.
HealthyServerKept ==
  [][phase = "connected" /\ linked /\ srv[Dialled] = "up"
       => phase' = "connected" \/ told' \/ srv'[Dialled] # "up"]_vars

\* api.ts:320-321 "Survive server restarts and rolling deploys: retry forever with
\* jittered backoff instead of giving up": only a verdict or an order ends a client.
SurvivesDeploys == phase \in {"rejected", "exited"} => told
=============================================================================
