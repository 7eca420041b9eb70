------------------------------ MODULE Exchange ------------------------------
(***************************************************************************)
(* Visitors' requests over one tunnel: what server.js's handleTunnelRequest *)
(* and "upgrade" handler, the client's "request" handler (api.ts) and the  *)
(* stream classes and TunnelSocketManager of both sides (lib.js, lib.ts)   *)
(* do together.  Many exchanges share the messages of one connection; the  *)
(* two ends notice a lost connection at different moments, and the client  *)
(* connects again and goes on with the streams it still has.               *)
(*                                                                         *)
(* Bodies are numbers of chunks.  Every stream of an id is registered with *)
(* its side's manager as long as it is "open", so the maps of streams are  *)
(* not variables of their own.  A stream that is "finished" is alive but   *)
(* out of the map: nothing that arrives for its id reaches it.             *)
(* Back-pressure is DrainGate's subject.                                   *)
(***************************************************************************)
EXTENDS Naturals, Sequences, SequencesExt, FiniteSetsExt

CONSTANTS
  Ids,        \* request ids
  MaxChunks,  \* bound: chunks of all bodies, in both directions
  MaxConns    \* bound: connections of the client

ASSUME ExchangeAssumption ==
  IsFiniteSet(Ids) /\ MaxChunks \in Nat /\ MaxConns \in Nat \ {0}

VARIABLES
  srv,        \* srv[x]: the visitor and the server's streams of x
  cli,        \* cli[x]: the client's streams of x and the local application
  toClient,   \* messages under way to the client
  toServer,   \* messages under way to the server
  held,       \* messages the client emitted while disconnected
  link        \* the connection each end believes in (0: none)

vars == <<srv, cli, toClient, toServer, held, link>>

Stream == {"none", "open", "done", "destroyed"}
Server == [ws : BOOLEAN, vis : {"new", "open", "ended", "bad", "left", "gone"}, upl : {"open", "ended"},
           head : {"none", "sent", "101"}, req : Stream, res : Stream \cup {"finished"},
           conn : 0..MaxConns, up : 0..MaxChunks, got : 0..MaxChunks,
           recorded : Nat, bytes : 0..MaxChunks, sent : 0..MaxChunks, early : BOOLEAN]
Client == [req : Stream, res : Stream, made : 0..MaxChunks, fed : 0..MaxChunks,
           app : {"none", "working", "replying", "socket", "closing", "done", "stopped"}]
Event == {"request", "request-pipe", "request-pipe-end", "request-pipe-error", "response",
          "upgraded", "response-pipe", "response-pipe-end", "response-pipe-error", "request-error"}
Message == [ev : Event, id : Ids]

TypeOK ==
  /\ srv \in [Ids -> Server]
  /\ cli \in [Ids -> Client]
  /\ {toClient, toServer, held} \subseteq Seq(Message)
  /\ link \in [server : 0..MaxConns, client : 0..MaxConns, count : 0..MaxConns, armed : BOOLEAN]

Init ==
  /\ srv = [x \in Ids |-> [ws |-> FALSE, vis |-> "new", upl |-> "open", head |-> "none", req |-> "none",
                           res |-> "none", conn |-> 0, up |-> 0, got |-> 0,
                           recorded |-> 0, bytes |-> 0, sent |-> 0, early |-> FALSE]]
  /\ cli = [x \in Ids |-> [req |-> "none", res |-> "none", made |-> 0, fed |-> 0, app |-> "none"]]
  /\ toClient = <<>> /\ toServer = <<>> /\ held = <<>>
  /\ link = [server |-> 1, client |-> 1, count |-> 1, armed |-> TRUE]

\* The exchanges that are WebSocket upgrades: the visitor decides.
Upgrades == {x \in Ids : srv[x].ws}

-----------------------------------------------------------------------------
\* A message is lost when the other end is no longer on the connection.
Says(x, evs) == [i \in DOMAIN evs |-> [ev |-> evs[i], id |-> x]]
InTouch == link.server = link.client

ServerSays(x, evs) ==
  toClient' = IF srv[x].conn = link.server /\ InTouch THEN toClient \o Says(x, evs) ELSE toClient

\* The client's socket keeps what is emitted while it is disconnected.
ClientEmits(msgs) ==
  IF link.client = 0 THEN held' = held \o msgs /\ UNCHANGED toServer
  ELSE toServer' = (IF InTouch THEN toServer \o msgs ELSE toServer) /\ UNCHANGED held

ClientSays(x, evs) == ClientEmits(Says(x, evs))

\* stream.destroy(): only a stream that is not over is disturbed.
Destroyed(st) == IF st \in {"open", "finished"} THEN "destroyed" ELSE st

\* Mutated form: only the request stream reports its error.
ErrorsForRequest(r) == IF r.req = "open" THEN <<"request-pipe-error">> ELSE <<>>

\* What destroying the server's streams of x with an error tells the client.
ErrorsFor(r) ==
  (IF r.req = "open" THEN <<"request-pipe-error">> ELSE <<>>) \o
  (IF r.res = "open" THEN <<"response-pipe-error">> ELSE <<>>)

\* cleanup() of both handlers: the two streams of x are destroyed.
Closed(r, vis) == [r EXCEPT !.vis = vis, !.req = Destroyed(@), !.res = Destroyed(@)]

\* Mutated form: every cleanup records, however it was reached.
RecordedAgain(r) == [r EXCEPT !.recorded = @ + 1, !.bytes = @ + r.got, !.sent = @ + r.up]

\* stats.recordTraffic, once: on res "close", or in the upgrade's cleanup.  Whether
\* the request's body was still being relayed then (early) is kept for the properties.
Recorded(r) ==
  IF r.recorded > 0 THEN r
  ELSE [r EXCEPT !.recorded = 1, !.bytes = r.got, !.sent = r.up, !.early = r.req = "open"]

\* The bound on chunks is shared, so any exchange may be the one with a body.
ChunkLeft == MapThenSumSet(LAMBDA x : srv[x].up + cli[x].made, Ids) < MaxChunks

SetServer(x, r) == srv' = [srv EXCEPT ![x] = r]
SetClient(x, c) == cli' = [cli EXCEPT ![x] = c]

-----------------------------------------------------------------------------
\* No tunnel: 404 at once.
NotFound(x) ==
  /\ srv[x].vis = "new" /\ link.server = 0
  /\ SetServer(x, [srv[x] EXCEPT !.vis = "bad"])
  /\ UNCHANGED <<cli, toClient, toServer, held, link>>

\* A visitor's request is announced to the tunnel; an upgrade has no body.
Visit(x, ws) ==
  /\ srv[x].vis = "new" /\ link.server # 0
  /\ SetServer(x, [srv[x] EXCEPT !.ws = ws, !.vis = "open", !.conn = link.server, !.res = "open",
                                 !.req = IF ws THEN "done" ELSE "open"])
  /\ toClient' = IF ~InTouch THEN toClient
                 ELSE toClient \o Says(x, IF ws THEN <<"request", "request-pipe-end">>
                                          ELSE <<"request">>)
  /\ UNCHANGED <<cli, toServer, held, link>>

\* The visitor sends: a chunk of the request's body, which is relayed whether or not
\* its response is over, or upgraded traffic.
VisitorSends(x) ==
  LET r == srv[x] IN
  /\ r.upl = "open" /\ ChunkLeft
  /\ IF x \in Upgrades THEN r.vis = "open" /\ r.head = "101" /\ r.res # "destroyed"
     ELSE r.req = "open"
  /\ SetServer(x, [r EXCEPT !.up = @ + 1])
  /\ ServerSays(x, IF x \in Upgrades THEN <<"response-pipe">> ELSE <<"request-pipe">>)
  /\ UNCHANGED <<cli, toServer, held, link>>

\* The body of the request is complete.
UploadEnds(x) ==
  LET r == srv[x] IN
  /\ x \notin Upgrades
  /\ r.vis # "new" /\ r.vis # "gone" /\ r.upl = "open"
  /\ SetServer(x, [r EXCEPT !.upl = "ended", !.req = IF @ = "open" THEN "done" ELSE @])
  /\ ServerSays(x, IF r.req = "open" THEN <<"request-pipe-end">> ELSE <<>>)
  /\ UNCHANGED <<cli, toServer, held, link>>

\* The visitor of an upgraded connection closes its sending side; with both
\* sides over, the stream closes and cleanup runs.
VisitorEnds(x) ==
  LET r == [srv[x] EXCEPT !.upl = "ended"] IN
  /\ x \in Upgrades
  /\ r.vis = "open" /\ srv[x].upl = "open" /\ r.head = "101" /\ r.res # "destroyed"
  /\ SetServer(x, IF r.res = "done" THEN Recorded(Closed(r, "ended")) ELSE r)
  /\ ServerSays(x, <<"response-pipe-end">>)
  /\ UNCHANGED <<cli, toServer, held, link>>

\* Its end sent, the stream is "finish"ed: the manager forgets it, while its other
\* side and the visitor's socket stay.
Finishes(x) ==
  LET r == srv[x] IN
  /\ x \in Upgrades /\ r.vis = "open" /\ r.upl = "ended" /\ r.res = "open"
  /\ SetServer(x, [r EXCEPT !.res = "finished"])
  /\ UNCHANGED <<cli, toClient, toServer, held, link>>

\* Mutated form: res "close" does not look at writableEnded.
LeavesUnnoticed(r) == [r EXCEPT !.vis = "gone"]

\* The visitor of an HTTP request goes away: "aborted" comes first while the
\* body is unfinished, and its cleanup has no error to pass on.
LeaveHttp(r) == IF r.vis = "open" THEN Recorded(Closed(r, "gone")) ELSE Closed(r, r.vis)

VisitorLeaves(x) ==
  LET r == srv[x] IN
  /\ x \notin Upgrades
  /\ r.vis = "open" \/ (r.vis \in {"ended", "bad"} /\ r.upl = "open" /\ r.req # "none")
  /\ SetServer(x, [LeaveHttp(r) EXCEPT !.upl = "ended"])
  /\ ServerSays(x, IF r.upl = "open" THEN <<>> ELSE ErrorsFor(r))
  /\ UNCHANGED <<cli, toServer, held, link>>

\* The socket of an upgrade fails ("error") or closes (without one).  It has
\* handlers only after a 101; cleanup destroys it, so its "close" comes back to
\* cleanup after every end.
UpgradeLeaves(x) ==
  LET r == srv[x]
      over == r.vis \notin {"open", "left"}
  IN
  /\ x \in Upgrades /\ r.head = "101"
  /\ SetServer(x, Recorded(Closed(r, IF over THEN r.vis ELSE "gone")))
  /\ \/ ServerSays(x, IF over \/ r.res = "destroyed" THEN <<>> ELSE <<"response-pipe-error">>)
     \/ r.upl = "ended" /\ UNCHANGED toClient
  /\ UNCHANGED <<cli, toServer, held, link>>

\* Before that nobody notices.
UpgradeLeavesEarly(x) ==
  /\ x \in Upgrades /\ srv[x].vis = "open" /\ srv[x].head # "101"
  /\ SetServer(x, [srv[x] EXCEPT !.vis = "left"])
  /\ UNCHANGED <<cli, toClient, toServer, held, link>>

-----------------------------------------------------------------------------
\* The server's manager hands a message to the response stream of its id.
OnResponse(x, head) ==
  SetServer(x, [srv[x] EXCEPT !.head = IF @ = "none" THEN head ELSE @]) /\ UNCHANGED toClient

OnResponsePipe(x) ==
  /\ SetServer(x, [srv[x] EXCEPT !.got = @ + 1])
  /\ UNCHANGED toClient

\* A declined upgrade whose visitor has left may have no reader for the end.
OnResponsePipeEnd(x) ==
  LET r == [srv[x] EXCEPT !.res = "done"] IN
  /\ IF x \notin Upgrades THEN SetServer(x, Recorded([r EXCEPT !.vis = "ended"]))
     ELSE IF r.head = "101"
       THEN SetServer(x, IF r.upl = "ended" THEN Recorded(Closed(r, "ended")) ELSE r)
     ELSE IF r.vis = "open" THEN SetServer(x, [r EXCEPT !.vis = "ended"])
     ELSE SetServer(x, r) \/ UNCHANGED srv
  /\ UNCHANGED toClient

\* The response stream fails: cleanup runs, but nothing answers the visitor of
\* an HTTP request; the error is echoed to the client.
OnResponsePipeError(x) ==
  LET r == srv[x] IN
  /\ SetServer(x, IF r.head = "101" THEN Recorded(Closed(r, "bad"))
                  ELSE IF x \in Upgrades THEN [r EXCEPT !.res = "destroyed"]
                  ELSE Closed(r, r.vis))
  /\ ServerSays(x, ErrorsFor(r))

\* Before a response: 502, or the upgrade's socket is destroyed.
OnRequestError(x) ==
  LET r == srv[x] IN
  IF r.head # "none" THEN UNCHANGED <<srv, toClient>>
  ELSE /\ SetServer(x, Recorded(Closed(r, IF r.vis = "open" THEN "bad" ELSE r.vis)))
       /\ IF x \in Upgrades THEN UNCHANGED toClient ELSE ServerSays(x, ErrorsFor(r))

ServerReceives ==
  LET m == Head(toServer) IN
  /\ toServer # <<>> /\ link.server # 0
  /\ toServer' = Tail(toServer)
  /\ IF srv[m.id].res # "open" THEN UNCHANGED <<srv, toClient>>
     ELSE CASE m.ev = "response" -> OnResponse(m.id, "sent")
            [] m.ev = "upgraded" -> OnResponse(m.id, "101")
            [] m.ev = "response-pipe" -> OnResponsePipe(m.id)
            [] m.ev = "response-pipe-end" -> OnResponsePipeEnd(m.id)
            [] m.ev = "response-pipe-error" -> OnResponsePipeError(m.id)
            [] OTHER -> OnRequestError(m.id)
  /\ UNCHANGED <<cli, held, link>>

\* Mutated form: the loss of a connection ends its responses instead of failing
\* them, as if the client had sent their end.
AfterServerLossEnds ==
  [x \in Ids |->
     IF srv[x].res = "open" /\ srv[x].vis = "open"
       THEN [srv[x] EXCEPT !.req = Destroyed(@), !.res = "done", !.vis = "ended"] ELSE srv[x]]

\* destroyAll: the registered streams end with an error; an upgraded visitor
\* is closed with them, one who waits for an HTTP response is not, nor one whose
\* stream is no longer registered.
AfterServerLoss ==
  [x \in Ids |->
     LET r == srv[x]
         halves == [r EXCEPT !.req = IF @ = "open" THEN "destroyed" ELSE @,
                             !.res = IF @ = "open" THEN "destroyed" ELSE @]
     IN IF r.head = "101" /\ r.res = "open" THEN Recorded(Closed(r, "bad")) ELSE halves]

ServerLoses ==
  /\ link.server # 0
  /\ srv' = AfterServerLoss
  /\ toServer' = <<>>
  /\ link' = [link EXCEPT !.server = 0]
  /\ UNCHANGED <<cli, toClient, held>>

-----------------------------------------------------------------------------
\* Mutated form: a local request that cannot be started is not reported.
OnRequestSilent(x) ==
  /\ \/ SetClient(x, [cli[x] EXCEPT !.req = "open", !.app = "working"])
     \/ SetClient(x, [cli[x] EXCEPT !.req = "destroyed", !.app = "stopped"])
  /\ UNCHANGED <<toServer, held>>

\* The client starts the local request, or cannot.
OnRequest(x) ==
  \/ /\ SetClient(x, [cli[x] EXCEPT !.req = "open", !.app = "working"])
     /\ UNCHANGED <<toServer, held>>
  \/ /\ SetClient(x, [cli[x] EXCEPT !.req = "destroyed", !.app = "stopped"])
     /\ ClientSays(x, <<"request-error">>)

\* The local request is destroyed: its error, or that of its response.
LocalStops(x, c) ==
  /\ SetClient(x, [c EXCEPT !.app = "stopped", !.req = Destroyed(@), !.res = Destroyed(@)])
  /\ IF c.app = "working" THEN ClientSays(x, <<"request-error">>)
     ELSE IF c.res = "open" /\ link.client # 0 THEN ClientSays(x, <<"response-pipe-error">>)
     ELSE UNCHANGED <<toServer, held>>

OnResponsePipeEndLocally(x) ==
  SetClient(x, [cli[x] EXCEPT !.app = "closing"]) /\ UNCHANGED <<toServer, held>>

Fed(x) == SetClient(x, [cli[x] EXCEPT !.fed = @ + 1]) /\ UNCHANGED <<toServer, held>>

\* The client's manager hands a message to the stream of its id, if it is there.
ClientReceives ==
  LET m == Head(toClient)
      c == cli[m.id]
      toRequest == m.ev \in {"request-pipe", "request-pipe-end", "request-pipe-error"}
  IN
  /\ toClient # <<>> /\ link.client # 0
  /\ toClient' = Tail(toClient)
  /\ IF m.ev = "request" THEN OnRequest(m.id)
     ELSE IF (IF toRequest THEN c.req ELSE c.res) # "open" \/ c.app = "closing"
       THEN UNCHANGED <<cli, toServer, held>>
     ELSE CASE m.ev \in {"request-pipe", "response-pipe"} -> Fed(m.id)
            [] m.ev = "request-pipe-end" ->
                 SetClient(m.id, [c EXCEPT !.req = "done"]) /\ UNCHANGED <<toServer, held>>
            [] m.ev = "response-pipe-end" -> OnResponsePipeEndLocally(m.id)
            [] OTHER -> LocalStops(m.id, c)
  /\ UNCHANGED <<srv, link>>

\* The local application answers, or accepts the upgrade.
AppReplies(x) ==
  /\ cli[x].app = "working"
  /\ \/ /\ SetClient(x, [cli[x] EXCEPT !.res = "open", !.app = "replying"])
        /\ ClientSays(x, <<"response">>)
     \/ /\ x \in Upgrades
        /\ SetClient(x, [cli[x] EXCEPT !.res = "open", !.app = "socket"])
        /\ ClientSays(x, <<"upgraded">>)
  /\ UNCHANGED <<srv, toClient, link>>

AppSends(x) ==
  /\ cli[x].app \in {"replying", "socket"} /\ ChunkLeft
  /\ SetClient(x, [cli[x] EXCEPT !.made = @ + 1])
  /\ ClientSays(x, <<"response-pipe">>)
  /\ UNCHANGED <<srv, toClient, link>>

\* Its response or its side of the upgraded connection is over.
AppEnds(x) ==
  /\ cli[x].app \in {"replying", "socket", "closing"}
  /\ SetClient(x, [cli[x] EXCEPT !.app = "done",
                                 !.res = IF cli[x].app = "replying" THEN "done" ELSE "destroyed"])
  /\ ClientSays(x, <<"response-pipe-end">>)
  /\ UNCHANGED <<srv, toClient, link>>

AppFails(x) ==
  /\ cli[x].app \in {"working", "replying", "socket"}
  /\ LocalStops(x, cli[x])
  /\ UNCHANGED <<srv, toClient, link>>

\* The client notices the loss.  Only the first "disconnect" destroys its
\* streams, and only those still registered: a local request whose body has
\* ended and which has not been answered goes on.
ClientLoses ==
  LET hit == {x \in Ids : link.armed /\ (cli[x].req = "open" \/ (cli[x].res = "open" /\ cli[x].app # "closing"))}
      refused == {x \in hit : cli[x].app = "working"}
  IN
  /\ link.client # 0
  /\ cli' = [x \in Ids |-> IF x \notin hit THEN cli[x]
               ELSE [cli[x] EXCEPT !.app = "stopped", !.req = Destroyed(@), !.res = Destroyed(@)]]
  /\ held' = held \o SetToSeq({[ev |-> "request-error", id |-> x] : x \in refused})
  /\ toClient' = <<>>
  /\ link' = [link EXCEPT !.client = 0, !.armed = FALSE]
  /\ UNCHANGED <<srv, toServer>>

\* The client connects again.  The server drops the connection it may still
\* believe in, and what the client has kept goes out on the new one.
Reconnect ==
  /\ link.client = 0 /\ link.count < MaxConns
  /\ srv' = IF link.server = 0 THEN srv ELSE AfterServerLoss
  /\ link' = [link EXCEPT !.server = link.count + 1, !.client = link.count + 1, !.count = @ + 1]
  /\ toServer' = held
  /\ held' = <<>>
  /\ UNCHANGED <<cli, toClient>>

ServerStep(x) == VisitorSends(x) \/ UploadEnds(x) \/ VisitorEnds(x) \/ Finishes(x)
App(x) == AppReplies(x) \/ AppSends(x) \/ AppEnds(x)

Next ==
  \/ \E x \in Ids : \/ NotFound(x) \/ (\E ws \in BOOLEAN : Visit(x, ws)) \/ ServerStep(x)
                    \/ VisitorLeaves(x) \/ UpgradeLeaves(x) \/ UpgradeLeavesEarly(x)
                    \/ App(x) \/ AppFails(x)
  \/ ServerReceives \/ ClientReceives \/ ServerLoses \/ ClientLoses \/ Reconnect

\* Messages arrive and bodies come to an end; the application need not answer.
Spec ==
  /\ Init /\ [][Next]_vars
  /\ WF_vars(ServerReceives) /\ WF_vars(ClientReceives)
  /\ \A x \in Ids : WF_vars(UploadEnds(x))

\* The application answers in the end.
AppAnswers == \A x \in Ids : WF_vars(AppReplies(x)) /\ WF_vars(AppEnds(x))

-----------------------------------------------------------------------------
\* A body that ends cleanly is complete, whatever connections came and went
\* while it was streamed: the visitor's response and the application's request.
CleanEndIsComplete ==
  \A x \in Ids :
    /\ srv[x].vis = "ended" => srv[x].got = cli[x].made /\ cli[x].app \in {"done", "stopped"}
    /\ x \notin Upgrades /\ cli[x].req = "done" => cli[x].fed = srv[x].up

\* The server keeps no stream of an exchange that is over, and its manager none of
\* a connection that is gone.  An upgrade whose visitor left before a 101 is an
\* exception: its socket has no handlers yet.
NothingLeftBehind ==
  \A x \in Ids :
    LET r == srv[x] IN
    /\ r.res \in {"open", "finished"} => r.vis \in {"open", "left"}
    /\ r.res = "open" => r.conn = link.server
    /\ r.req = "open" => r.conn = link.server /\ (r.vis = "open" \/ r.upl = "open")

\* README.md:11 "Zero-Leak Stream Multiplexing": nor does an upgraded visitor outlast
\* the connection.  One that has closed its sending side does, with its stream.
UpgradesGoWithConnection ==
  \A x \in Upgrades : srv[x].head = "101" /\ srv[x].vis = "open" => srv[x].conn = link.server

\* The bytes of an exchange are recorded once, and are final: none is received after,
\* and none sent unless the visitor was still uploading when the response was complete.
TrafficFinal ==
  \A x \in Ids :
    LET r == srv[x] IN
    /\ r.recorded <= 1
    /\ r.recorded = 1 => r.bytes = r.got /\ (r.sent = r.up \/ r.early)
    /\ r.early => ~r.ws /\ r.vis = "ended"

\* server.js:1354-1355 "Bytes are only final once the exchange is over, so account for
\* them here": also of an upload that goes on after its response.
UploadsCounted == \A x \in Ids : srv[x].recorded = 1 => srv[x].sent = srv[x].up

\* A visitor is answered as long as the connection the request went out on
\* lasts, the application answers and it does not break off its response.
AnswerArrives ==
  AppAnswers =>
    \A x \in Ids :
      srv[x].vis = "open" /\ x \notin Upgrades
        ~> srv[x].vis # "open" \/ srv[x].conn # link.server \/ ~InTouch
           \/ srv[x].res = "destroyed"

LeftMidResponse(x) == ~srv[x].ws /\ srv[x].vis = "gone" /\ srv[x].head # "none" /\ srv[x].conn = link.server
PullOver(x) == cli[x].app # "replying" \/ srv[x].conn # link.server \/ ~InTouch

\* api.ts:538-540: "If the visitor goes away mid-response the server destroys its
\* side; stop pulling from the local app instead of leaving the connection open",
\* even when the application would stream for ever.
LocalPullStops ==
  \A x \in Ids : LeftMidResponse(x) /\ srv[x].req = "done" ~> PullOver(x)

\* The same of visitors whose request was not complete either: "aborted" cleans
\* up without an error, so the client is told nothing and keeps both streams.
PullStopsForAll == \A x \in Ids : LeftMidResponse(x) ~> PullOver(x)
=============================================================================
