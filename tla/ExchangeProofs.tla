---------------------------- MODULE ExchangeProofs ----------------------------
(***************************************************************************)
(* Any number of exchanges, over any number of connections.  IInv is the   *)
(* server's side alone: no stream is left behind, and recorded traffic is  *)
(* final.  FInv relates both ends through the messages under way, so that  *)
(* a body that ends cleanly is complete.                                   *)
(***************************************************************************)
EXTENDS Exchange, FiniteSetTheorems, SequenceTheorems, TLAPS

Record == [ws : BOOLEAN, vis : {"new", "open", "ended", "bad", "left", "gone"}, upl : {"open", "ended"},
           head : {"none", "sent", "101"}, req : Stream, res : Stream \cup {"finished"}, conn : Nat,
           up : Nat, got : Nat, recorded : {0, 1}, bytes : Nat, sent : Nat, early : BOOLEAN]

\* What was recorded of r is what was relayed; only an upload may go on.
Final(r) ==
  /\ r.recorded = 1 => r.bytes = r.got /\ (r.early \/ (r.sent = r.up /\ r.req # "open"))
  /\ r.early => ~r.ws /\ r.vis = "ended"

\* What is true of an exchange r while the server believes in connection c.
Sound(r, c) ==
  /\ r \in Record
  /\ r.res = "open" => r.conn = c /\ c # 0
  /\ r.res \in {"open", "finished"} => r.vis \in {"open", "left"}
  /\ r.req = "open" => r.conn = c /\ c # 0 /\ r.upl = "open"
  /\ r.recorded = 1 => r.res \notin {"open", "finished"} /\ r.vis # "open"
  /\ Final(r)
  /\ r.vis = "new" => r.recorded = 0 /\ r.head = "none" /\ r.upl = "open"
  /\ r.ws => r.req # "open"

LinkOK == link \in [server : Nat, client : Nat, count : Nat, armed : BOOLEAN]

IInv ==
  /\ srv = [x \in Ids |-> srv[x]] /\ LinkOK
  /\ \A x \in Ids : Sound(srv[x], link.server)

LEMMA InitIInv == ASSUME Init PROVE IInv
<1> DEFINE r == [ws |-> FALSE, vis |-> "new", upl |-> "open", head |-> "none", req |-> "none",
                 res |-> "none", conn |-> 0, up |-> 0, got |-> 0, recorded |-> 0, bytes |-> 0,
                 sent |-> 0, early |-> FALSE]
<1>1. srv = [x \in Ids |-> r] /\ link = [server |-> 1, client |-> 1, count |-> 1, armed |-> TRUE]
  BY DEF Init
<1>2. Sound(r, 1)
  BY DEF Sound, Final, Record, Stream
<1>3. LinkOK /\ link.server = 1
  BY <1>1 DEF LinkOK
<1> HIDE DEF r
<1> QED BY <1>1, <1>2, <1>3 DEF IInv

\* An exchange that is replaced by a sound one.
LEMMA SetSound ==
  ASSUME IInv, NEW x, NEW r, x \in Ids => Sound(r, link.server), SetServer(x, r), UNCHANGED link
  PROVE  IInv'
<1>1. srv' = [srv EXCEPT ![x] = r] /\ link' = link
  BY DEF SetServer
<1>2. \A y \in Ids : srv'[y] = IF y = x THEN r ELSE srv[y]
  BY <1>1 DEF IInv
<1>3. srv' = [y \in Ids |-> srv'[y]]
  BY <1>1 DEF IInv
<1> QED BY <1>1, <1>2, <1>3 DEF IInv, LinkOK

LEMMA SameSound == ASSUME IInv, UNCHANGED <<srv, link>> PROVE IInv'
BY DEF IInv, LinkOK

\* cleanup() leaves neither stream open and touches nothing else.
LEMMA ClosedParts ==
  ASSUME NEW r \in Record, NEW vis \in {"new", "open", "ended", "bad", "left", "gone"}
  PROVE  /\ Closed(r, vis) \in Record
         /\ Closed(r, vis).res \notin {"open", "finished"} /\ Closed(r, vis).req # "open"
         /\ Closed(r, vis).vis = vis /\ Closed(r, vis).recorded = r.recorded
         /\ Closed(r, vis).bytes = r.bytes /\ Closed(r, vis).got = r.got
         /\ Closed(r, vis).sent = r.sent /\ Closed(r, vis).up = r.up
         /\ Closed(r, vis).early <=> r.early
         /\ Closed(r, vis).ws <=> r.ws
         /\ Closed(r, vis).upl = r.upl /\ Closed(r, vis).head = r.head /\ Closed(r, vis).conn = r.conn
<1> DEFINE req == Destroyed(r.req)
           res == Destroyed(r.res)
<1>1. req \in Stream /\ res \in Stream /\ req # "open" /\ res \notin {"open", "finished"}
  BY DEF Destroyed, Record, Stream
<1>2. Closed(r, vis) = [r EXCEPT !.vis = vis, !.req = req, !.res = res]
  BY DEF Closed
<1> HIDE DEF req, res
<1> QED BY <1>1, <1>2 DEF Record

\* Traffic is recorded when nothing is received any more, and nothing sent but an
\* upload whose response is complete.
LEMMA RecordedParts ==
  ASSUME NEW r \in Record, Final(r), r.req = "open" => ~r.ws /\ r.vis = "ended"
  PROVE  /\ Recorded(r) \in Record
         /\ Recorded(r).recorded = 1 /\ Final(Recorded(r))
         /\ Recorded(r).res = r.res /\ Recorded(r).req = r.req /\ Recorded(r).vis = r.vis
         /\ Recorded(r).upl = r.upl /\ Recorded(r).head = r.head /\ Recorded(r).conn = r.conn
         /\ Recorded(r).ws <=> r.ws
<1>1. CASE r.recorded > 0
  BY <1>1 DEF Recorded, Record
<1>2. CASE ~(r.recorded > 0)
  <2> DEFINE early == r.req = "open"
  <2>1. Recorded(r) = [r EXCEPT !.recorded = 1, !.bytes = r.got, !.sent = r.up, !.early = early]
    BY <1>2 DEF Recorded
  <2>2. early \in BOOLEAN /\ (early <=> r.req = "open")
    OBVIOUS
  <2> HIDE DEF early
  <2> QED BY <2>1, <2>2 DEF Record, Final
<1> QED BY <1>1, <1>2

\* An exchange that is closed is sound whatever the connection, recorded or not.
LEMMA ClosedSound ==
  ASSUME NEW r \in Record, NEW c, NEW vis \in {"open", "ended", "bad", "left", "gone"}, Final(r),
         r.recorded = 1 => vis # "open", r.early => vis = "ended"
  PROVE  /\ Sound(Closed(r, vis), c) /\ Final(Closed(r, vis))
         /\ vis # "open" => Sound(Recorded(Closed(r, vis)), c)
<1>1. Final(Closed(r, vis))
  BY ClosedParts DEF Final
<1>2. Sound(Closed(r, vis), c)
  BY <1>1, ClosedParts DEF Sound
<1>3. ASSUME vis # "open" PROVE Sound(Recorded(Closed(r, vis)), c)
  BY <1>1, <1>3, ClosedParts, RecordedParts DEF Sound
<1> QED BY <1>1, <1>2, <1>3

-----------------------------------------------------------------------------
\* What visitors do.
LEMMA VisitIInv ==
  ASSUME IInv, NEW x \in Ids, NEW ws \in BOOLEAN, NotFound(x) \/ Visit(x, ws)
  PROVE  IInv'
<1>1. Sound(srv[x], link.server) /\ srv[x].vis = "new" /\ UNCHANGED link
  BY DEF IInv, NotFound, Visit
<1>2. CASE NotFound(x)
  <2> DEFINE r == [srv[x] EXCEPT !.vis = "bad"]
  <2>1. SetServer(x, r) /\ link.server = 0
    BY <1>2 DEF NotFound
  <2>2. Sound(r, link.server)
    BY <1>1, <2>1 DEF Sound, Final, Record
  <2> QED BY <1>1, <2>1, <2>2, SetSound
<1>3. CASE Visit(x, ws)
  <2> DEFINE req == IF ws THEN "done" ELSE "open"
             r == [srv[x] EXCEPT !.ws = ws, !.vis = "open", !.conn = link.server, !.res = "open",
                                 !.req = req]
  <2>1. SetServer(x, r) /\ link.server # 0 /\ link.server \in Nat
    BY <1>3 DEF Visit, IInv, LinkOK
  <2>2. req \in Stream /\ (ws => req # "open")
    BY DEF Stream
  <2> HIDE DEF req
  <2>3. /\ r \in Record /\ (r.ws <=> ws) /\ r.vis = "open" /\ r.req = req /\ r.conn = link.server
        /\ r.recorded = 0 /\ r.upl = "open" /\ r.res = "open" /\ ~r.early
    BY <1>1, <2>1, <2>2 DEF Sound, Final, Record, Stream
  <2> HIDE DEF r
  <2>4. Sound(r, link.server)
    BY <2>1, <2>2, <2>3 DEF Sound, Final
  <2> QED BY <1>1, <2>1, <2>4, SetSound
<1> QED BY <1>2, <1>3

LEMMA ServerStepIInv ==
  ASSUME IInv, NEW x \in Ids, ServerStep(x)
  PROVE  IInv'
<1>1. Sound(srv[x], link.server) /\ srv[x] \in Record /\ UNCHANGED link
  BY DEF IInv, ServerStep, VisitorSends, UploadEnds, VisitorEnds, Finishes, Sound
<1>2. CASE VisitorSends(x)
  <2> DEFINE r == [srv[x] EXCEPT !.up = srv[x].up + 1]
  <2>1. SetServer(x, r) /\ (srv[x].vis = "open" \/ srv[x].req = "open")
    BY <1>2 DEF VisitorSends
  <2>2. srv[x].recorded = 1 => srv[x].early
    BY <1>1, <2>1 DEF Sound, Final
  <2>3. Sound(r, link.server)
    BY <1>1, <2>2 DEF Sound, Final, Record
  <2> HIDE DEF r
  <2> QED BY <1>1, <2>1, <2>3, SetSound
<1>3. CASE UploadEnds(x)
  <2> DEFINE req == IF srv[x].req = "open" THEN "done" ELSE srv[x].req
             r == [srv[x] EXCEPT !.upl = "ended", !.req = req]
  <2>1. SetServer(x, r) /\ srv[x].vis # "new"
    BY <1>3 DEF UploadEnds
  <2>2. req \in Stream /\ req # "open"
    BY <1>1 DEF Stream, Record
  <2> HIDE DEF req
  <2>3. Sound(r, link.server)
    BY <1>1, <2>1, <2>2 DEF Sound, Final, Record
  <2> HIDE DEF r
  <2> QED BY <1>1, <2>1, <2>3, SetSound
<1>4. CASE VisitorEnds(x)
  <2> DEFINE r == [srv[x] EXCEPT !.upl = "ended"]
  <2>1. SetServer(x, Recorded(Closed(r, "ended"))) \/ SetServer(x, r)
    BY <1>4 DEF VisitorEnds
  <2>2. /\ r \in Record /\ Final(r) /\ ~r.early
        /\ r.vis = "open" /\ r.req # "open" /\ r.recorded = 0
        /\ r.res = "open" => r.conn = link.server /\ link.server # 0
    BY <1>1, <1>4 DEF Sound, Final, Record, VisitorEnds, Upgrades
  <2> HIDE DEF r
  <2>3. Sound(r, link.server)
    BY <2>2 DEF Sound
  <2>4. Sound(Recorded(Closed(r, "ended")), link.server)
    BY <2>2, ClosedSound
  <2> QED BY <1>1, <2>1, <2>3, <2>4, SetSound
<1>5. CASE Finishes(x)
  <2> DEFINE r == [srv[x] EXCEPT !.res = "finished"]
  <2>1. SetServer(x, r) /\ srv[x].vis = "open" /\ srv[x].ws
    BY <1>5 DEF Finishes, Upgrades
  <2>2. Sound(r, link.server)
    BY <1>1, <2>1 DEF Sound, Final, Record
  <2> HIDE DEF r
  <2> QED BY <1>1, <2>1, <2>2, SetSound
<1> QED BY <1>2, <1>3, <1>4, <1>5 DEF ServerStep

LEMMA LeavesIInv ==
  ASSUME IInv, NEW x \in Ids, VisitorLeaves(x) \/ UpgradeLeaves(x) \/ UpgradeLeavesEarly(x)
  PROVE  IInv'
<1>1. Sound(srv[x], link.server) /\ srv[x] \in Record /\ Final(srv[x]) /\ UNCHANGED link
  BY DEF IInv, VisitorLeaves, UpgradeLeaves, UpgradeLeavesEarly, Sound
<1>2. CASE VisitorLeaves(x)
  <2> DEFINE r == LeaveHttp(srv[x])
  <2>1. SetServer(x, [r EXCEPT !.upl = "ended"]) /\ srv[x].vis # "new"
    BY <1>2 DEF VisitorLeaves
  <2>2. Sound(r, link.server) /\ r.res # "open" /\ r.req # "open" /\ r.vis # "new"
    <3>1. srv[x].vis \in {"open", "ended", "bad", "left", "gone"}
      BY <1>1, <2>1 DEF Record
    <3>2. CASE srv[x].vis = "open"
      <4>0. ~srv[x].early
        BY <1>1, <3>2 DEF Final
      <4>1. /\ Closed(srv[x], "gone") \in Record
            /\ Closed(srv[x], "gone").res # "open" /\ Closed(srv[x], "gone").req # "open"
            /\ Closed(srv[x], "gone").vis = "gone" /\ Final(Closed(srv[x], "gone"))
        BY <1>1, <4>0, ClosedParts, ClosedSound
      <4>2. r = Recorded(Closed(srv[x], "gone"))
        BY <3>2 DEF LeaveHttp
      <4> QED BY <1>1, <4>0, <4>1, <4>2, ClosedSound, RecordedParts
    <3>3. CASE srv[x].vis # "open"
      <4>1. r = Closed(srv[x], srv[x].vis) /\ (srv[x].early => srv[x].vis = "ended")
        BY <1>1, <3>3 DEF LeaveHttp, Final
      <4> QED BY <1>1, <3>1, <3>3, <4>1, ClosedSound, ClosedParts
    <3> QED BY <3>2, <3>3
  <2> HIDE DEF r
  <2>3. Sound([r EXCEPT !.upl = "ended"], link.server)
    BY <2>2 DEF Sound, Final, Record
  <2> QED BY <1>1, <2>1, <2>3, SetSound
<1>3. CASE UpgradeLeaves(x)
  <2>1. PICK vis : /\ SetServer(x, Recorded(Closed(srv[x], vis)))
                   /\ vis = "gone" \/ (vis = srv[x].vis /\ vis # "open")
    BY <1>3 DEF UpgradeLeaves
  <2>2. vis \in {"ended", "bad", "left", "gone"} /\ ~srv[x].early
    BY <1>1, <1>3, <2>1 DEF UpgradeLeaves, Upgrades, Record, Sound, Final
  <2> QED BY <1>1, <2>1, <2>2, ClosedSound, SetSound
<1>4. CASE UpgradeLeavesEarly(x)
  <2> DEFINE r == [srv[x] EXCEPT !.vis = "left"]
  <2>1. SetServer(x, r) /\ srv[x].vis = "open" /\ srv[x].ws
    BY <1>4 DEF UpgradeLeavesEarly, Upgrades
  <2>2. Sound(r, link.server)
    BY <1>1, <2>1 DEF Sound, Final, Record
  <2> HIDE DEF r
  <2> QED BY <1>1, <2>1, <2>2, SetSound
<1> QED BY <1>2, <1>3, <1>4

-----------------------------------------------------------------------------
\* What the server does with a message for a response stream that is open.
LEMMA HeadIInv ==
  ASSUME IInv, NEW x, srv[x].res = "open", UNCHANGED link,
         \/ \E head \in {"sent", "101"} : OnResponse(x, head)
         \/ OnResponsePipe(x)
  PROVE  IInv'
<1>1. x \in Ids => Sound(srv[x], link.server) /\ srv[x] \in Record
  BY DEF IInv, Sound
<1>2. CASE \E head \in {"sent", "101"} : OnResponse(x, head)
  <2>1. PICK head \in {"sent", "101"} : OnResponse(x, head)
    BY <1>2
  <2> DEFINE h == IF srv[x].head = "none" THEN head ELSE srv[x].head
             r == [srv[x] EXCEPT !.head = h]
  <2>2. SetServer(x, r)
    BY <2>1 DEF OnResponse
  <2>3. x \in Ids => h \in {"none", "sent", "101"}
    BY <1>1 DEF Record
  <2> HIDE DEF h
  <2>4. x \in Ids => Sound(r, link.server)
    BY <1>1, <2>3 DEF Sound, Final, Record
  <2> HIDE DEF r
  <2> QED BY <2>2, <2>4, SetSound
<1>3. CASE OnResponsePipe(x)
  <2> DEFINE r == [srv[x] EXCEPT !.got = srv[x].got + 1]
  <2>1. SetServer(x, r)
    BY <1>3 DEF OnResponsePipe
  <2>2. x \in Ids => Sound(r, link.server)
    BY <1>1 DEF Sound, Final, Record
  <2> HIDE DEF r
  <2> QED BY <2>1, <2>2, SetSound
<1> QED BY <1>2, <1>3

LEMMA PipeEndIInv ==
  ASSUME IInv, NEW x, srv[x].res = "open", UNCHANGED link, OnResponsePipeEnd(x)
  PROVE  IInv'
<1> DEFINE r == [srv[x] EXCEPT !.res = "done"]
           e == [r EXCEPT !.vis = "ended"]
<1>1. \/ x \notin Upgrades /\ SetServer(x, Recorded(e))
      \/ SetServer(x, Recorded(Closed(r, "ended")))
      \/ SetServer(x, r)
      \/ x \in Upgrades /\ SetServer(x, e)
      \/ UNCHANGED srv
  BY DEF OnResponsePipeEnd
<1>2. CASE x \in Ids
  <2>1. /\ Sound(srv[x], link.server) /\ srv[x] \in Record /\ srv[x].recorded = 0
        /\ srv[x].vis \in {"open", "left"} /\ ~srv[x].early
    BY <1>2 DEF IInv, Sound, Final, Record
  <2>2. /\ r \in Record /\ r.res = "done" /\ r.recorded = 0 /\ r.req = srv[x].req /\ ~r.early
        /\ r.vis \in {"open", "left"} /\ r.upl = srv[x].upl /\ (r.ws <=> srv[x].ws) /\ r.conn = srv[x].conn
    BY <2>1 DEF Record, Stream
  <2>3. Sound(r, link.server) /\ Final(r)
    BY <2>1, <2>2 DEF Sound, Final
  <2> HIDE DEF r
  <2>4. Sound(Recorded(Closed(r, "ended")), link.server)
    BY <2>2, <2>3, ClosedSound
  <2>5. /\ e \in Record /\ e.res = "done" /\ e.recorded = 0 /\ e.req = r.req /\ ~e.early
        /\ e.vis = "ended" /\ e.upl = r.upl /\ (e.ws <=> r.ws) /\ e.conn = r.conn
        /\ Final(e)
    BY <2>2 DEF Record, Final
  <2> HIDE DEF e
  <2>6. x \in Upgrades => Sound(e, link.server)
    BY <2>1, <2>2, <2>5 DEF Sound, Upgrades
  <2>7. x \notin Upgrades => Sound(Recorded(e), link.server)
    <3> SUFFICES ASSUME x \notin Upgrades PROVE Sound(Recorded(e), link.server)
      OBVIOUS
    <3>1. /\ Recorded(e) \in Record /\ Recorded(e).recorded = 1 /\ Final(Recorded(e))
          /\ Recorded(e).res = "done" /\ Recorded(e).req = e.req /\ Recorded(e).vis = "ended"
          /\ Recorded(e).upl = e.upl /\ Recorded(e).conn = e.conn
          /\ Recorded(e).ws <=> e.ws
      BY <1>2, <2>2, <2>5, RecordedParts DEF Upgrades
    <3> QED BY <2>1, <2>2, <2>5, <3>1 DEF Sound, Upgrades
  <2> QED BY <1>1, <2>3, <2>4, <2>6, <2>7, SetSound, SameSound
<1>3. CASE x \notin Ids
  <2> HIDE DEF r, e
  <2> QED BY <1>1, <1>3, SetSound, SameSound
<1> QED BY <1>2, <1>3

LEMMA ErrorIInv ==
  ASSUME IInv, NEW x, srv[x].res = "open", UNCHANGED link,
         OnResponsePipeError(x) \/ OnRequestError(x)
  PROVE  IInv'
<1> DEFINE r == srv[x]
           d == [r EXCEPT !.res = "destroyed"]
<1>1. \/ UNCHANGED srv
      \/ SetServer(x, Recorded(Closed(r, "bad")))
      \/ r.vis # "open" /\ SetServer(x, Recorded(Closed(r, r.vis)))
      \/ SetServer(x, Closed(r, r.vis))
      \/ SetServer(x, d)
  BY DEF OnResponsePipeError, OnRequestError
<1>2. CASE x \in Ids
  <2>1. /\ Sound(r, link.server) /\ r \in Record /\ r.recorded = 0 /\ Final(r) /\ ~r.early
        /\ r.vis \in {"open", "left"}
    BY <1>2 DEF IInv, Sound, Final, Record
  <2>2. Sound(d, link.server)
    BY <2>1 DEF Sound, Final, Record, Stream
  <2>3. /\ Sound(Recorded(Closed(r, "bad")), link.server) /\ Sound(Closed(r, r.vis), link.server)
        /\ r.vis # "open" => Sound(Recorded(Closed(r, r.vis)), link.server)
    BY <2>1, ClosedSound
  <2> HIDE DEF r, d
  <2> QED BY <1>1, <2>2, <2>3, SetSound, SameSound
<1>3. CASE x \notin Ids
  <2> HIDE DEF r, d
  <2> QED BY <1>1, <1>3, SetSound, SameSound
<1> QED BY <1>2, <1>3

LEMMA ServerReceivesIInv == ASSUME IInv, ServerReceives PROVE IInv'
<1>1. UNCHANGED link
  BY DEF ServerReceives
<1>2. PICK x : \/ UNCHANGED srv
               \/ /\ srv[x].res = "open"
                  /\ \/ \E head \in {"sent", "101"} : OnResponse(x, head)
                     \/ OnResponsePipe(x) \/ OnResponsePipeEnd(x)
                     \/ OnResponsePipeError(x) \/ OnRequestError(x)
  <2> DEFINE m == Head(toServer)
  <2>1. CASE srv[m.id].res # "open"
    BY <2>1 DEF ServerReceives
  <2>2. CASE srv[m.id].res = "open"
    <3>1. \/ OnResponse(m.id, "sent") \/ OnResponse(m.id, "101") \/ OnResponsePipe(m.id)
          \/ OnResponsePipeEnd(m.id) \/ OnResponsePipeError(m.id) \/ OnRequestError(m.id)
      BY <2>2 DEF ServerReceives
    <3> HIDE DEF m
    <3> QED BY <2>2, <3>1
  <2> QED BY <2>1, <2>2
<1> QED BY <1>1, <1>2, SameSound, HeadIInv, PipeEndIInv, ErrorIInv

-----------------------------------------------------------------------------
\* The loss of the server's connection leaves no stream open.
LEMMA LossParts ==
  ASSUME IInv, NEW c
  PROVE  /\ AfterServerLoss = [x \in Ids |-> AfterServerLoss[x]]
         /\ \A x \in Ids : Sound(AfterServerLoss[x], c)
<1>1. AfterServerLoss = [x \in Ids |-> AfterServerLoss[x]]
  BY DEF AfterServerLoss
<1> SUFFICES ASSUME NEW x \in Ids PROVE Sound(AfterServerLoss[x], c)
  BY <1>1
<1> DEFINE r == srv[x]
           req == IF r.req = "open" THEN "destroyed" ELSE r.req
           res == IF r.res = "open" THEN "destroyed" ELSE r.res
           halves == [r EXCEPT !.req = req, !.res = res]
<1>2. Sound(r, link.server) /\ r \in Record /\ Final(r)
  BY DEF IInv, Sound
<1>3. \/ r.head = "101" /\ r.res = "open" /\ AfterServerLoss[x] = Recorded(Closed(r, "bad"))
      \/ AfterServerLoss[x] = halves
  BY DEF AfterServerLoss
<1>4. r.res = "open" => Sound(Recorded(Closed(r, "bad")), c)
  <2>1. r.res = "open" => ~r.early
    BY <1>2 DEF Sound, Final
  <2> QED BY <1>2, <2>1, ClosedSound
<1>5. /\ req \in Stream /\ req # "open" /\ res \in Stream \cup {"finished"} /\ res # "open"
      /\ res = "finished" => r.res = "finished"
      /\ req = r.req \/ r.req = "open"
  BY <1>2 DEF Record, Stream
<1> HIDE DEF req, res
<1>6. Sound(halves, c)
  BY <1>2, <1>5 DEF Sound, Final, Record
<1> QED BY <1>3, <1>4, <1>6

LEMMA LosesIInv == ASSUME IInv, ServerLoses PROVE IInv'
<1>1. srv' = AfterServerLoss /\ link' = [link EXCEPT !.server = 0]
  BY DEF ServerLoses
<1>2. LinkOK' /\ link'.server = 0
  BY <1>1 DEF IInv, LinkOK
<1> QED BY <1>1, <1>2, LossParts DEF IInv

LEMMA ReconnectIInv == ASSUME IInv, Reconnect PROVE IInv'
<1> DEFINE c == link.count + 1
<1>1. /\ srv' = IF link.server = 0 THEN srv ELSE AfterServerLoss
      /\ link' = [link EXCEPT !.server = c, !.client = c, !.count = c]
  BY DEF Reconnect
<1>2. c \in Nat /\ LinkOK
  BY DEF IInv, LinkOK
<1> HIDE DEF c
<1>3. LinkOK' /\ link'.server = c
  BY <1>1, <1>2 DEF LinkOK
<1>4. CASE link.server = 0
  <2>1. srv' = srv
    BY <1>1, <1>4
  <2>2. \A x \in Ids : Sound(srv[x], c)
    BY <1>4 DEF IInv, Sound
  <2> QED BY <1>3, <2>1, <2>2 DEF IInv
<1>5. CASE link.server # 0
  BY <1>1, <1>3, <1>5, LossParts DEF IInv
<1> QED BY <1>4, <1>5

\* The client's steps leave the server's side alone.
LEMMA ClientIInv ==
  ASSUME IInv, ClientReceives \/ ClientLoses \/ UNCHANGED vars \/ \E x \in Ids : App(x) \/ AppFails(x)
  PROVE  IInv'
<1>1. CASE UNCHANGED <<srv, link>>
  BY <1>1, SameSound
<1>2. CASE ClientLoses
  <2>1. srv' = srv /\ link' = [link EXCEPT !.client = 0, !.armed = FALSE]
    BY <1>2 DEF ClientLoses
  <2>2. LinkOK' /\ link'.server = link.server
    BY <2>1 DEF IInv, LinkOK
  <2> QED BY <2>1, <2>2 DEF IInv
<1> QED BY <1>1, <1>2 DEF ClientReceives, App, AppReplies, AppSends, AppEnds, AppFails, vars

LEMMA StepIInv == ASSUME IInv, [Next]_vars PROVE IInv'
<1>1. ASSUME NEW x \in Ids,
             NotFound(x) \/ (\E ws \in BOOLEAN : Visit(x, ws)) \/ ServerStep(x) \/ VisitorLeaves(x)
               \/ UpgradeLeaves(x) \/ UpgradeLeavesEarly(x)
      PROVE  IInv'
  BY <1>1, VisitIInv, ServerStepIInv, LeavesIInv
<1>2. CASE ServerReceives \/ ServerLoses \/ Reconnect
  BY <1>2, ServerReceivesIInv, LosesIInv, ReconnectIInv
<1>3. CASE ClientReceives \/ ClientLoses \/ UNCHANGED vars \/ \E x \in Ids : App(x) \/ AppFails(x)
  BY <1>3, ClientIInv
<1> QED BY <1>1, <1>2, <1>3 DEF Next

LEMMA IInvHolds == Spec => []IInv
<1>1. Init => IInv
  BY InitIInv
<1>2. IInv /\ [Next]_vars => IInv'
  BY StepIInv
<1> QED BY <1>1, <1>2, PTL DEF Spec

\* server.js, lib.js: however visitors, applications and connections come and go, the
\* server keeps no stream of an exchange that is over, and its manager none of a
\* connection that is gone.  Half-closed upgrades are no longer the manager's.
THEOREM NoStreamIsLeft == Spec => []NothingLeftBehind
<1>1. IInv => NothingLeftBehind
  BY DEF IInv, Sound, NothingLeftBehind
<1> QED BY <1>1, IInvHolds, PTL

\* server.js: the bytes of an exchange, both ways, are recorded once, by whichever of its
\* handlers comes first, and nothing is relayed afterwards, except the rest of an upload
\* that was under way when the response was complete.
THEOREM TrafficIsFinal == Spec => []TrafficFinal
<1>1. IInv => TrafficFinal
  BY DEF IInv, Sound, Final, Record, TrafficFinal
<1> QED BY <1>1, IInvHolds, PTL

-----------------------------------------------------------------------------
(* Queues of messages: how many m are in q, and that no m comes after an e. *)
Positions(q, m) == {i \in 1..Len(q) : q[i] = m}
Count(q, m) == Cardinality(Positions(q, m))
Absent(q, m) == \A i \in 1..Len(q) : q[i] # m
NoneAfter(q, e, m) == \A i, j \in 1..Len(q) : i < j /\ q[i] = e => q[j] # m

LEMMA CountType ==
  ASSUME NEW S, NEW q \in Seq(S), NEW m
  PROVE  /\ IsFiniteSet(Positions(q, m)) /\ Count(q, m) \in Nat
         /\ Count(q, m) = 0 <=> Absent(q, m)
<1>1. Len(q) \in Nat
  BY LenProperties
<1>2. IsFiniteSet(1..Len(q)) /\ Positions(q, m) \in SUBSET (1..Len(q))
  BY <1>1, FS_Interval DEF Positions
<1>3. IsFiniteSet(Positions(q, m))
  BY <1>2, FS_Subset
<1>4. Count(q, m) \in Nat /\ (Count(q, m) = 0 <=> Positions(q, m) = {})
  BY <1>3, FS_CardinalityType, FS_EmptySet DEF Count
<1> QED BY <1>3, <1>4 DEF Absent, Positions

\* Receiving takes the first.
LEMMA TailParts ==
  ASSUME NEW S, NEW q \in Seq(S), q # <<>>
  PROVE  /\ Tail(q) \in Seq(S) /\ Len(q) \in Nat \ {0} /\ Len(Tail(q)) = Len(q) - 1
         /\ Head(q) = q[1] /\ Head(q) \in S
         /\ \A i \in 1..Len(Tail(q)) : i + 1 \in 1..Len(q) /\ Tail(q)[i] = q[i + 1]
         /\ \A i \in 1..Len(q) : i # 1 => i - 1 \in 1..Len(Tail(q)) /\ q[i] = Tail(q)[i - 1]
<1>1. Len(q) \in Nat \ {0}
  BY EmptySeq
<1>2. Head(q) = q[1]
  OBVIOUS
<1> QED BY <1>1, <1>2, HeadTailProperties

LEMMA CountTail ==
  ASSUME NEW S, NEW q \in Seq(S), q # <<>>, NEW m
  PROVE  Count(q, m) = IF Head(q) = m THEN Count(Tail(q), m) + 1 ELSE Count(Tail(q), m)
<1> DEFINE P == Positions(q, m)
           T == Positions(Tail(q), m)
           f == [i \in T |-> i + 1]
<1>1. /\ Tail(q) \in Seq(S) /\ Len(q) \in Nat \ {0} /\ Len(Tail(q)) = Len(q) - 1
      /\ Head(q) = q[1]
      /\ \A i \in 1..Len(Tail(q)) : i + 1 \in 1..Len(q) /\ Tail(q)[i] = q[i + 1]
      /\ \A i \in 1..Len(q) : i # 1 => i - 1 \in 1..Len(Tail(q)) /\ q[i] = Tail(q)[i - 1]
  BY TailParts
<1>2. IsFiniteSet(P) /\ IsFiniteSet(T)
  BY <1>1, CountType
<1>3. T \subseteq Nat /\ P \subseteq Nat /\ 0 \notin T
  BY <1>1 DEF Positions
<1>4. \A i \in T : i + 1 \in P \ {1}
  BY <1>1 DEF Positions
<1>5. \A i \in P \ {1} : i - 1 \in T /\ f[i - 1] = i
  BY <1>1 DEF Positions
<1>6. f \in Bijection(T, P \ {1})
  <2>1. f \in [T -> P \ {1}]
    BY <1>4
  <2>2. \A i, j \in T : f[i] = f[j] => i = j
    BY <1>3
  <2>3. \A i \in P \ {1} : \E j \in T : f[j] = i
    BY <1>5
  <2> HIDE DEF f, P, T
  <2>4. f \in Injection(T, P \ {1})
    BY <2>1, <2>2 DEF Injection, IsInjective
  <2>5. f \in Surjection(T, P \ {1})
    BY <2>1, <2>3 DEF Surjection
  <2> QED BY <2>4, <2>5 DEF Bijection
<1>7. Cardinality(T) = Cardinality(P \ {1}) /\ Cardinality(T) \in Nat /\ Cardinality(P) \in Nat
  <2> HIDE DEF f, P, T
  <2>1. ExistsBijection(T, P \ {1})
    BY <1>6 DEF ExistsBijection
  <2> QED BY <1>2, <2>1, FS_Bijection, FS_CardinalityType
<1>8. Cardinality(P \ {1}) = IF 1 \in P THEN Cardinality(P) - 1 ELSE Cardinality(P)
  <2> HIDE DEF f, P, T
  <2> QED BY <1>2, FS_RemoveElement
<1>9. 1 \in P <=> Head(q) = m
  BY <1>1 DEF Positions
<1> HIDE DEF f, P, T
<1>10. Count(q, m) = Cardinality(P) /\ Count(Tail(q), m) = Cardinality(T)
  BY DEF Count, P, T
<1> QED BY <1>7, <1>8, <1>9, <1>10

\* Sending adds to the end.
LEMMA CountConcat ==
  ASSUME NEW S, NEW q \in Seq(S), NEW p \in Seq(S), NEW m
  PROVE  /\ Absent(p, m) => Count(q \o p, m) = Count(q, m)
         /\ p = <<m>> => Count(q \o p, m) = Count(q, m) + 1
<1>1. /\ Len(q) \in Nat /\ Len(p) \in Nat /\ Len(q \o p) = Len(q) + Len(p)
      /\ q \o p \in Seq(S)
      /\ \A i \in 1..(Len(q) + Len(p)) : (q \o p)[i] = IF i <= Len(q) THEN q[i] ELSE p[i - Len(q)]
  BY LenProperties, ConcatProperties
<1>2. CASE Absent(p, m)
  <2>1. \A i \in 1..(Len(q) + Len(p)) : ~(i <= Len(q)) => i - Len(q) \in 1..Len(p)
    BY <1>1
  <2>2. Positions(q \o p, m) = Positions(q, m)
    BY <1>1, <1>2, <2>1 DEF Positions, Absent
  <2>3. p # <<m>>
    <3>1. p = <<m>> => Len(p) = 1 /\ p[1] = m
      OBVIOUS
    <3>2. Len(p) = 1 => p[1] # m
      BY <1>2 DEF Absent
    <3> QED BY <3>1, <3>2
  <2> QED BY <1>2, <2>2, <2>3 DEF Count
<1>3. CASE p = <<m>>
  <2>1. Len(p) = 1 /\ p[1] = m
    BY <1>3
  <2>2. Positions(q \o p, m) = Positions(q, m) \cup {Len(q) + 1}
    BY <1>1, <2>1 DEF Positions
  <2>3. Len(q) + 1 \notin Positions(q, m)
    BY <1>1 DEF Positions
  <2>4. IsFiniteSet(Positions(q, m))
    BY CountType
  <2>5. ~Absent(p, m)
    BY <2>1 DEF Absent
  <2> QED BY <2>2, <2>3, <2>4, <2>5, FS_AddElement DEF Count
<1> QED BY <1>2, <1>3

LEMMA AbsentConcat ==
  ASSUME NEW S, NEW q \in Seq(S), NEW p \in Seq(S), NEW m
  PROVE  Absent(q \o p, m) <=> Absent(q, m) /\ Absent(p, m)
<1>1. /\ Len(q) \in Nat /\ Len(p) \in Nat /\ Len(q \o p) = Len(q) + Len(p)
      /\ \A i \in 1..(Len(q) + Len(p)) : (q \o p)[i] = IF i <= Len(q) THEN q[i] ELSE p[i - Len(q)]
  BY LenProperties, ConcatProperties
<1>2. ASSUME Absent(q \o p, m) PROVE Absent(q, m) /\ Absent(p, m)
  <2>1. \A i \in 1..Len(q) : q[i] # m
    BY <1>1, <1>2 DEF Absent
  <2>2. ASSUME NEW i \in 1..Len(p) PROVE p[i] # m
    <3>1. i + Len(q) \in 1..(Len(q) + Len(p)) /\ ~(i + Len(q) <= Len(q)) /\ (i + Len(q)) - Len(q) = i
      BY <1>1
    <3>2. (q \o p)[i + Len(q)] = p[i]
      BY <1>1, <3>1
    <3> QED BY <1>1, <1>2, <3>1, <3>2 DEF Absent
  <2> QED BY <2>1, <2>2 DEF Absent
<1>3. ASSUME Absent(q, m), Absent(p, m) PROVE Absent(q \o p, m)
  <2>1. \A i \in 1..(Len(q) + Len(p)) : ~(i <= Len(q)) => i - Len(q) \in 1..Len(p)
    BY <1>1
  <2> QED BY <1>1, <1>3, <2>1 DEF Absent
<1> QED BY <1>2, <1>3

LEMMA AbsentTail ==
  ASSUME NEW S, NEW q \in Seq(S), q # <<>>, NEW m
  PROVE  Absent(q, m) <=> Head(q) # m /\ Absent(Tail(q), m)
<1>1. /\ Len(q) \in Nat \ {0} /\ Len(Tail(q)) = Len(q) - 1 /\ Head(q) = q[1]
      /\ \A i \in 1..Len(Tail(q)) : i + 1 \in 1..Len(q) /\ Tail(q)[i] = q[i + 1]
      /\ \A i \in 1..Len(q) : i # 1 => i - 1 \in 1..Len(Tail(q)) /\ q[i] = Tail(q)[i - 1]
  BY TailParts
<1>2. ASSUME Absent(q, m) PROVE Head(q) # m /\ Absent(Tail(q), m)
  <2>1. 1 \in 1..Len(q)
    BY <1>1
  <2> QED BY <1>1, <1>2, <2>1 DEF Absent
<1>3. ASSUME Head(q) # m, Absent(Tail(q), m), NEW i \in 1..Len(q) PROVE q[i] # m
  <2>1. CASE i = 1
    BY <1>1, <1>3, <2>1
  <2>2. CASE i # 1
    BY <1>1, <1>3, <2>2 DEF Absent
  <2> QED BY <2>1, <2>2
<1> QED BY <1>2, <1>3 DEF Absent

LEMMA NoneAfterTail ==
  ASSUME NEW S, NEW q \in Seq(S), q # <<>>, NEW e, NEW m, NoneAfter(q, e, m)
  PROVE  NoneAfter(Tail(q), e, m) /\ (Head(q) = e => Absent(Tail(q), m))
<1>1. /\ Len(q) \in Nat \ {0} /\ Len(Tail(q)) = Len(q) - 1 /\ Head(q) = q[1]
      /\ \A i \in 1..Len(Tail(q)) : i + 1 \in 1..Len(q) /\ Tail(q)[i] = q[i + 1]
  BY TailParts
<1>2. ASSUME NEW i \in 1..Len(Tail(q)), NEW j \in 1..Len(Tail(q)), i < j, Tail(q)[i] = e
      PROVE  Tail(q)[j] # m
  <2>1. i + 1 < j + 1 /\ i + 1 \in 1..Len(q) /\ j + 1 \in 1..Len(q) /\ q[i + 1] = e
    BY <1>1, <1>2
  <2>2. q[j + 1] # m
    BY <2>1 DEF NoneAfter
  <2> QED BY <1>1, <2>2
<1>3. ASSUME Head(q) = e, NEW j \in 1..Len(Tail(q)) PROVE Tail(q)[j] # m
  <2>1. 1 < j + 1 /\ 1 \in 1..Len(q) /\ j + 1 \in 1..Len(q) /\ q[1] = e
    BY <1>1, <1>3
  <2>2. q[j + 1] # m
    BY <2>1 DEF NoneAfter
  <2> QED BY <1>1, <2>2
<1> QED BY <1>2, <1>3 DEF NoneAfter, Absent

LEMMA NoneAfterConcat ==
  ASSUME NEW S, NEW q \in Seq(S), NEW p \in Seq(S), NEW e, NEW m
  PROVE  /\ NoneAfter(q, e, m) /\ Absent(p, m) => NoneAfter(q \o p, e, m)
         /\ Absent(q, e) /\ NoneAfter(p, e, m) => NoneAfter(q \o p, e, m)
         /\ NoneAfter(q \o p, e, m) => NoneAfter(p, e, m)
<1>1. /\ Len(q) \in Nat /\ Len(p) \in Nat /\ Len(q \o p) = Len(q) + Len(p)
      /\ \A i \in 1..(Len(q) + Len(p)) : (q \o p)[i] = IF i <= Len(q) THEN q[i] ELSE p[i - Len(q)]
  BY LenProperties, ConcatProperties
<1>2. \A i \in 1..(Len(q) + Len(p)) : ~(i <= Len(q)) => i - Len(q) \in 1..Len(p)
  BY <1>1
<1>3. NoneAfter(q, e, m) /\ Absent(p, m) => NoneAfter(q \o p, e, m)
  BY <1>1, <1>2 DEF NoneAfter, Absent
<1>4. Absent(q, e) /\ NoneAfter(p, e, m) => NoneAfter(q \o p, e, m)
  BY <1>1, <1>2 DEF NoneAfter, Absent
<1>5. ASSUME NoneAfter(q \o p, e, m), NEW i \in 1..Len(p), NEW j \in 1..Len(p), i < j, p[i] = e
      PROVE  p[j] # m
  <2>1. /\ i + Len(q) \in 1..(Len(q) + Len(p)) /\ ~(i + Len(q) <= Len(q)) /\ (i + Len(q)) - Len(q) = i
        /\ j + Len(q) \in 1..(Len(q) + Len(p)) /\ ~(j + Len(q) <= Len(q)) /\ (j + Len(q)) - Len(q) = j
        /\ i + Len(q) < j + Len(q)
    BY <1>1, <1>5
  <2>2. (q \o p)[i + Len(q)] = p[i] /\ (q \o p)[j + Len(q)] = p[j]
    BY <1>1, <2>1
  <2> QED BY <1>1, <1>5, <2>1, <2>2 DEF NoneAfter
<1> QED BY <1>3, <1>4, <1>5 DEF NoneAfter

LEMMA EmptyParts == \A e, m : Absent(<<>>, m) /\ NoneAfter(<<>>, e, m)
BY DEF Absent, NoneAfter

\* A queue of at most two messages.
LEMMA ShortParts ==
  \A a, b, e, m : /\ Absent(<<a>>, m) <=> a # m
                  /\ Absent(<<a, b>>, m) <=> a # m /\ b # m
                  /\ NoneAfter(<<a>>, e, m)
                  /\ NoneAfter(<<a, b>>, e, m) <=> ~(a = e /\ b = m)
BY DEF Absent, NoneAfter

-----------------------------------------------------------------------------
(* Bodies that end cleanly are complete.                                   *)
ClientRecord ==
  [req : Stream, res : Stream, made : Nat, fed : Nat,
   app : {"none", "working", "replying", "socket", "closing", "done", "stopped"}]

Msg(ev, x) == [ev |-> ev, id |-> x]

\* What the client has sent and the server has not received, in order.
Backlog == toServer \o held

\* The application is over: it sends no more.
Over == {"done", "stopped"}

\* The response of x, with server's record r, client's record c and backlog q: what is
\* delivered and what is under way make up what was sent, and nothing follows the end.
Down(x, r, c, q) ==
  /\ r.res = "open" => r.got + Count(q, Msg("response-pipe", x)) = c.made
  /\ r.res = "done" => r.got = c.made /\ c.app \in Over
  /\ r.vis = "ended" => r.res = "done"
  /\ NoneAfter(q, Msg("response-pipe-end", x), Msg("response-pipe", x))
  /\ c.app \notin Over => Absent(q, Msg("response-pipe-end", x))
  /\ c.app = "none" => Absent(q, Msg("response-pipe", x)) /\ c.made = 0 /\ c.fed = 0

\* The request of x is under way in q at most once, and nothing of x before it.
Announced(x, c, q) ==
  /\ c.app = "none" <=> c.req = "none"
  /\ NoneAfter(q, Msg("request", x), Msg("request", x))
  /\ NoneAfter(q, Msg("request-pipe", x), Msg("request", x))
  /\ c.app # "none" => Absent(q, Msg("request", x))
  /\ c.app = "none" /\ Absent(q, Msg("request", x)) => Absent(q, Msg("request-pipe", x))

\* The upload of x, with the queue q to a client that believes in connection k.
Upload(x, r, c, q, k) ==
  /\ c.res = "open" => c.app \in {"replying", "socket", "closing"}
  /\ r.vis = "new" => c.app = "none" /\ r.conn = 0 /\ r.got = 0 /\ r.up = 0
  /\ r.conn = 0 => r.head = "none"
  /\ r.conn = k /\ k # 0 /\ c.app = "none" => ~Absent(q, Msg("request", x))
  /\ ~r.ws =>
       /\ r.conn = k /\ k # 0 /\ c.req \in {"none", "open"} =>
            c.fed + Count(q, Msg("request-pipe", x)) = r.up
       /\ NoneAfter(q, Msg("request-pipe-end", x), Msg("request-pipe", x))
       /\ r.upl # "ended" => Absent(q, Msg("request-pipe-end", x))
       /\ c.req = "done" => c.fed = r.up /\ r.upl = "ended"
       /\ c.app # "closing"
       /\ Absent(q, Msg("response-pipe", x)) /\ Absent(q, Msg("response-pipe-end", x))

QueuesOK ==
  /\ toClient \in Seq(Message) /\ toServer \in Seq(Message) /\ held \in Seq(Message)
  /\ cli = [x \in Ids |-> cli[x]] /\ \A x \in Ids : cli[x] \in ClientRecord

\* A message to the client is one of the connection it believes in.
LinksOK ==
  /\ link.server <= link.count /\ link.client <= link.count
  /\ link.server # 0 /\ link.client # 0 => link.server = link.client
  /\ link.client # 0 => held = <<>>
  /\ link.client = 0 => toClient = <<>>
  /\ \A i \in 1..Len(toClient) : srv[toClient[i].id].conn = link.client
  /\ \A x \in Ids : srv[x].conn <= link.count

Whole(x) ==
  /\ Down(x, srv[x], cli[x], Backlog)
  /\ Announced(x, cli[x], toClient)
  /\ Upload(x, srv[x], cli[x], toClient, link.client)

FInv == QueuesOK /\ LinksOK /\ \A x \in Ids : Whole(x)

-----------------------------------------------------------------------------
(* What the parts survive, of one exchange.                                *)
LEMMA DownConcat ==
  ASSUME NEW x, NEW r, NEW c, NEW q \in Seq(Message), NEW p \in Seq(Message), Down(x, r, c, q),
         Absent(p, Msg("response-pipe", x)), Absent(p, Msg("response-pipe-end", x))
  PROVE  Down(x, r, c, q \o p)
<1> DEFINE m == Msg("response-pipe", x)
           e == Msg("response-pipe-end", x)
<1> HIDE DEF m, e
<1>1. /\ Count(q \o p, m) = Count(q, m)
      /\ NoneAfter(q, e, m) => NoneAfter(q \o p, e, m)
      /\ Absent(q, m) => Absent(q \o p, m)
      /\ Absent(q, e) => Absent(q \o p, e)
  BY CountConcat, NoneAfterConcat, AbsentConcat DEF m, e
<1> QED BY <1>1 DEF Down, m, e

LEMMA DownTail ==
  ASSUME NEW x, NEW r, NEW c, NEW q \in Seq(Message), q # <<>>, Down(x, r, c, q),
         Head(q) = Msg("response-pipe", x) => r.res # "open"
  PROVE  Down(x, r, c, Tail(q))
<1> DEFINE m == Msg("response-pipe", x)
           e == Msg("response-pipe-end", x)
<1> HIDE DEF m, e
<1>1. /\ Head(q) # m => Count(Tail(q), m) = Count(q, m)
      /\ NoneAfter(q, e, m) => NoneAfter(Tail(q), e, m)
      /\ Absent(q, m) => Absent(Tail(q), m)
      /\ Absent(q, e) => Absent(Tail(q), e)
  BY CountTail, NoneAfterTail, AbsentTail
<1> QED BY <1>1 DEF Down, m, e

LEMMA DownServer ==
  ASSUME NEW x, NEW r, NEW c, NEW q, NEW s, Down(x, r, c, q),
         s.res = r.res \/ s.res = "destroyed", s.got = r.got, s.vis = "ended" => s.res = "done"
  PROVE  Down(x, s, c, q)
BY DEF Down

LEMMA DownClient ==
  ASSUME NEW x, NEW r, NEW c, NEW q, NEW d, Down(x, r, c, q),
         d.made = c.made, c.app \in Over => d.app \in Over,
         d.app # "none"
  PROVE  Down(x, r, d, q)
BY DEF Down

LEMMA AnnouncedConcat ==
  ASSUME NEW x, NEW c, NEW q \in Seq(Message), NEW p \in Seq(Message), Announced(x, c, q),
         Absent(p, Msg("request", x)),
         Absent(p, Msg("request-pipe", x)) \/ c.app # "none" \/ ~Absent(q, Msg("request", x))
  PROVE  Announced(x, c, q \o p)
<1> DEFINE a == Msg("request", x)
           m == Msg("request-pipe", x)
<1> HIDE DEF m, a
<1>1. /\ Absent(p, a) /\ (Absent(p, m) \/ c.app # "none" \/ ~Absent(q, a))
      /\ c.app = "none" <=> c.req = "none"
      /\ NoneAfter(q, a, a) /\ NoneAfter(q, m, a)
      /\ c.app # "none" => Absent(q, a)
      /\ c.app = "none" /\ Absent(q, a) => Absent(q, m)
  BY DEF Announced, a, m
<1>2. NoneAfter(q \o p, a, a) /\ NoneAfter(q \o p, m, a)
  BY <1>1, NoneAfterConcat
<1>3. /\ Absent(q \o p, a) <=> Absent(q, a) /\ Absent(p, a)
      /\ Absent(q \o p, m) <=> Absent(q, m) /\ Absent(p, m)
  BY AbsentConcat
<1> QED BY <1>1, <1>2, <1>3 DEF Announced, a, m

LEMMA AnnouncedTail ==
  ASSUME NEW x, NEW c, NEW q \in Seq(Message), q # <<>>, Announced(x, c, q),
         Head(q) # Msg("request", x)
  PROVE  Announced(x, c, Tail(q))
<1> DEFINE a == Msg("request", x)
           m == Msg("request-pipe", x)
<1> HIDE DEF m, a
<1>1. /\ Head(q) # a
      /\ c.app = "none" <=> c.req = "none"
      /\ NoneAfter(q, a, a) /\ NoneAfter(q, m, a)
      /\ c.app # "none" => Absent(q, a)
      /\ c.app = "none" /\ Absent(q, a) => Absent(q, m)
  BY DEF Announced, a, m
<1>2. NoneAfter(Tail(q), a, a) /\ NoneAfter(Tail(q), m, a)
  BY <1>1, NoneAfterTail
<1>3. /\ Absent(q, a) <=> Head(q) # a /\ Absent(Tail(q), a)
      /\ Absent(q, m) <=> Head(q) # m /\ Absent(Tail(q), m)
  BY AbsentTail
<1> QED BY <1>1, <1>2, <1>3 DEF Announced, a, m

LEMMA UploadServer ==
  ASSUME NEW x, NEW r, NEW c, NEW q, NEW k, NEW s, Upload(x, r, c, q, k),
         s.ws <=> r.ws, s.conn = r.conn, s.up = r.up, s.upl = r.upl \/ s.upl = "ended",
         s.vis = "new" => r.vis = "new" /\ s.got = r.got, s.conn = 0 => s.head = "none"
  PROVE  Upload(x, s, c, q, k)
BY DEF Upload

LEMMA UploadConcat ==
  ASSUME NEW x, NEW r, NEW c, NEW q \in Seq(Message), NEW p \in Seq(Message), NEW k, Upload(x, r, c, q, k),
         ~r.ws => \A ev \in {"request-pipe", "request-pipe-end", "response-pipe", "response-pipe-end"} :
                    Absent(p, Msg(ev, x))
  PROVE  Upload(x, r, c, q \o p, k)
<1>a. Absent(q \o p, Msg("request", x)) => Absent(q, Msg("request", x))
  BY AbsentConcat
<1>1. CASE r.ws
  BY <1>a, <1>1 DEF Upload
<1>2. CASE ~r.ws
  <2> DEFINE m == Msg("request-pipe", x)
             e == Msg("request-pipe-end", x)
             f == Msg("response-pipe", x)
             g == Msg("response-pipe-end", x)
  <2>1. Absent(p, m) /\ Absent(p, e) /\ Absent(p, f) /\ Absent(p, g)
    BY <1>2
  <2> HIDE DEF m, e, f, g
  <2>2. /\ Count(q \o p, m) = Count(q, m)
        /\ NoneAfter(q, e, m) => NoneAfter(q \o p, e, m)
    BY <2>1, CountConcat, NoneAfterConcat
  <2>3. /\ Absent(q, e) => Absent(q \o p, e)
        /\ Absent(q, f) => Absent(q \o p, f)
        /\ Absent(q, g) => Absent(q \o p, g)
    BY <2>1, AbsentConcat
  <2> QED BY <1>a, <1>2, <2>2, <2>3 DEF Upload, m, e, f, g
<1> QED BY <1>1, <1>2

LEMMA UploadTail ==
  ASSUME NEW x, NEW r, NEW c, NEW q \in Seq(Message), q # <<>>, NEW k, Upload(x, r, c, q, k),
         Head(q) = Msg("request", x) => c.app # "none",
         Head(q) = Msg("request-pipe", x) => r.ws \/ c.req \notin {"none", "open"}
  PROVE  Upload(x, r, c, Tail(q), k)
<1>a. Absent(Tail(q), Msg("request", x)) /\ Head(q) # Msg("request", x) => Absent(q, Msg("request", x))
  BY AbsentTail
<1>1. CASE r.ws
  BY <1>a, <1>1 DEF Upload
<1>2. CASE ~r.ws
  <2> DEFINE m == Msg("request-pipe", x)
             e == Msg("request-pipe-end", x)
             f == Msg("response-pipe", x)
             g == Msg("response-pipe-end", x)
  <2> HIDE DEF m, e, f, g
  <2>2. /\ Head(q) # m => Count(Tail(q), m) = Count(q, m)
        /\ NoneAfter(q, e, m) => NoneAfter(Tail(q), e, m)
    BY CountTail, NoneAfterTail
  <2>3. /\ Absent(q, e) => Absent(Tail(q), e)
        /\ Absent(q, f) => Absent(Tail(q), f)
        /\ Absent(q, g) => Absent(Tail(q), g)
    BY AbsentTail
  <2> QED BY <1>a, <1>2, <2>2, <2>3 DEF Upload, m, e, f, g
<1> QED BY <1>1, <1>2

LEMMA UploadClient ==
  ASSUME NEW x, NEW r, NEW c, NEW q, NEW k, NEW d, Upload(x, r, c, q, k),
         c.app # "none", d.app # "none", d.fed = c.fed, d.req = c.req \/ d.req = "destroyed",
         d.res = "open" => d.app \in {"replying", "socket", "closing"},
         d.app = "closing" => r.ws \/ c.app = "closing"
  PROVE  Upload(x, r, d, q, k)
BY DEF Upload

-----------------------------------------------------------------------------
(* What a side says of an exchange.                                        *)
LEMMA SaysParts ==
  ASSUME NEW x \in Ids, NEW evs \in Seq(Event)
  PROVE  /\ Says(x, evs) \in Seq(Message) /\ Len(Says(x, evs)) = Len(evs)
         /\ \A i \in 1..Len(evs) : Says(x, evs)[i] = Msg(evs[i], x)
         /\ \A ev : Absent(evs, ev) => \A y : Absent(Says(x, evs), Msg(ev, y))
         /\ \A y, ev : y # x => Absent(Says(x, evs), Msg(ev, y))
<1>1. Len(evs) \in Nat /\ DOMAIN evs = 1..Len(evs) /\ \A i \in 1..Len(evs) : evs[i] \in Event
  BY LenProperties, ElementOfSeq
<1>2. /\ Says(x, evs) \in [1..Len(evs) -> Message]
      /\ \A i \in 1..Len(evs) : Says(x, evs)[i] = Msg(evs[i], x)
  BY <1>1 DEF Says, Msg, Message
<1>3. Says(x, evs) \in Seq(Message)
  BY <1>1, <1>2, SeqDef
<1>4. Len(Says(x, evs)) = Len(evs)
  <2>1. /\ DOMAIN Says(x, evs) = 1..Len(Says(x, evs)) /\ Len(Says(x, evs)) \in Nat
        /\ DOMAIN Says(x, evs) = 1..Len(evs)
    BY <1>2, <1>3, LenProperties
  <2>2. Len(evs) \in Nat
    BY <1>1
  <2> QED BY <2>1, <2>2
<1>5. \A e, f, y : Msg(e, x) = Msg(f, y) => e = f /\ x = y
  BY DEF Msg
<1> QED BY <1>2, <1>3, <1>4, <1>5 DEF Absent

LEMMA ShortSays ==
  ASSUME NEW x \in Ids
  PROVE  /\ Says(x, <<>>) = <<>>
         /\ \A ev \in Event : Says(x, <<ev>>) = <<Msg(ev, x)>>
BY DEF Says, Msg

\* What a record s of the server may differ in from r without touching a body.
Keeps(r, s) ==
  /\ s.ws <=> r.ws
  /\ s.conn = r.conn /\ s.got = r.got
  /\ s.up = r.up \/ (r.ws /\ r.vis # "new")
  /\ s.upl = r.upl \/ s.upl = "ended"
  /\ s.res = r.res \/ s.res \in {"finished", "destroyed"}
  /\ s.vis = "ended" => s.res = "done"
  /\ s.vis = "new" => r.vis = "new" /\ s.up = r.up
  /\ s.conn = 0 => s.head = "none"

LEMMA KeepsWhole ==
  ASSUME NEW x, NEW r, NEW s, NEW c, NEW q, NEW p, NEW k, Keeps(r, s)
  PROVE  /\ Down(x, r, c, q) => Down(x, s, c, q)
         /\ Upload(x, r, c, p, k) => Upload(x, s, c, p, k)
BY DEF Keeps, Down, Upload

LEMMA KeepsClosed ==
  ASSUME NEW r \in Record, NEW s \in Record, Keeps(r, s), NEW vis \in {"open", "ended", "bad", "left", "gone"},
         vis = "ended" => s.res = "done"
  PROVE  Keeps(r, Closed(s, vis))
<1> DEFINE req == Destroyed(s.req)
           res == Destroyed(s.res)
<1>1. Closed(s, vis) = [s EXCEPT !.vis = vis, !.req = req, !.res = res]
  BY DEF Closed
<1>2. (res = s.res \/ res = "destroyed") /\ (s.res = "done" => res = "done")
  BY DEF Destroyed
<1> HIDE DEF req, res
<1> QED BY <1>1, <1>2 DEF Record, Keeps

LEMMA KeepsRecorded ==
  ASSUME NEW r \in Record, NEW s \in Record, Keeps(r, s)
  PROVE  Keeps(r, Recorded(s))
<1>1. CASE s.recorded > 0
  BY <1>1 DEF Recorded
<1>2. CASE ~(s.recorded > 0)
  <2>1. Recorded(s) = [s EXCEPT !.recorded = 1, !.bytes = s.got, !.sent = s.up, !.early = s.req = "open"]
    BY <1>2 DEF Recorded
  <2> QED BY <2>1 DEF Record, Keeps
<1> QED BY <1>1, <1>2

LEMMA KeepsSelf ==
  ASSUME FInv, IInv, NEW x \in Ids
  PROVE  Keeps(srv[x], srv[x]) /\ srv[x] \in Record /\ Whole(x)
<1>1. srv[x] \in Record /\ Whole(x)
  BY DEF FInv, IInv, Sound
<1>2. /\ srv[x].vis = "ended" => srv[x].res = "done"
      /\ srv[x].conn = 0 => srv[x].head = "none"
  BY <1>1 DEF Whole, Down, Upload
<1> QED BY <1>1, <1>2 DEF Keeps

-----------------------------------------------------------------------------
(* What the server does.                                                   *)

\* A message that is added to what is under way to the client, or lost.
LEMMA ServerSaysParts ==
  ASSUME FInv, IInv, NEW x \in Ids, NEW evs \in Seq(Event), srv[x].conn # 0 \/ evs = <<>>,
         ServerSays(x, evs) \/ UNCHANGED toClient, UNCHANGED link
  PROVE  /\ toClient' \in Seq(Message)
         /\ \/ toClient' = toClient
            \/ /\ toClient' = toClient \o Says(x, evs) /\ link.client # 0
               /\ srv[x].conn = link.client /\ link.server = link.client
         /\ link.client = 0 => toClient' = <<>>
         /\ \A i \in 1..Len(toClient') : srv[toClient'[i].id].conn = link.client
<1>1. /\ toClient \in Seq(Message) /\ LinksOK /\ Says(x, evs) \in Seq(Message)
      /\ Len(Says(x, evs)) = Len(evs)
      /\ \A i \in 1..Len(evs) : Says(x, evs)[i] = Msg(evs[i], x)
  BY SaysParts DEF FInv, QueuesOK
<1>2. CASE UNCHANGED toClient
  BY <1>1, <1>2 DEF LinksOK
<1>3. CASE toClient' # toClient
  <2>1. toClient' = toClient \o Says(x, evs) /\ srv[x].conn = link.server /\ link.server = link.client
    BY <1>3 DEF ServerSays, InTouch
  <2>2. evs # <<>>
    BY <1>1, <1>3, <2>1, ShortSays, ConcatEmptySeq
  <2>3. link.client # 0
    BY <2>1, <2>2
  <2>4. /\ toClient' \in Seq(Message) /\ Len(toClient) \in Nat /\ Len(Says(x, evs)) \in Nat
        /\ Len(toClient') = Len(toClient) + Len(Says(x, evs))
        /\ \A i \in 1..(Len(toClient) + Len(Says(x, evs))) :
             toClient'[i] = IF i <= Len(toClient) THEN toClient[i] ELSE Says(x, evs)[i - Len(toClient)]
    <3> DEFINE p == Says(x, evs)
    <3>1. toClient \in Seq(Message) /\ p \in Seq(Message) /\ toClient' = toClient \o p
      BY <1>1, <2>1
    <3> HIDE DEF p
    <3>2. /\ toClient' \in Seq(Message) /\ Len(toClient) \in Nat /\ Len(p) \in Nat
          /\ Len(toClient') = Len(toClient) + Len(p)
          /\ \A i \in 1..(Len(toClient) + Len(p)) :
               toClient'[i] = IF i <= Len(toClient) THEN toClient[i] ELSE p[i - Len(toClient)]
      BY <3>1, ConcatProperties, LenProperties
    <3> QED BY <3>2 DEF p
  <2>5. ASSUME NEW i \in 1..Len(toClient') PROVE srv[toClient'[i].id].conn = link.client
    <3>1. CASE i <= Len(toClient)
      <4>1. i \in 1..Len(toClient) /\ toClient'[i] = toClient[i]
        BY <2>4, <3>1
      <4> QED BY <1>1, <4>1 DEF LinksOK
    <3>2. CASE ~(i <= Len(toClient))
      <4>1. i - Len(toClient) \in 1..Len(evs) /\ toClient'[i] = Says(x, evs)[i - Len(toClient)]
        BY <1>1, <2>4, <3>2
      <4>2. toClient'[i] = Msg(evs[i - Len(toClient)], x)
        BY <1>1, <4>1
      <4>3. toClient'[i].id = x
        BY <4>2 DEF Msg
      <4> QED BY <2>1, <4>3
    <3> QED BY <3>1, <3>2
  <2> QED BY <2>1, <2>3, <2>4, <2>5
<1> QED BY <1>2, <1>3

\* A step of the server on exchange x is felt by the others as a longer queue at most.
LEMMA ServerFrame ==
  ASSUME FInv, IInv, NEW x \in Ids, NEW r, NEW evs \in Seq(Event), srv[x].conn # 0 \/ evs = <<>>,
         SetServer(x, r), ServerSays(x, evs) \/ UNCHANGED toClient,
         UNCHANGED <<cli, held, link>>, toServer' \in Seq(Message), r.conn = srv[x].conn,
         \A y \in Ids \ {x} : Down(y, srv[y], cli[y], Backlog'),
         Down(x, r, cli[x], Backlog'), Announced(x, cli[x], toClient'),
         Upload(x, r, cli[x], toClient', link.client)
  PROVE  FInv'
<1>1. /\ \A y \in Ids : srv'[y] = IF y = x THEN r ELSE srv[y]
      /\ cli' = cli /\ held' = held /\ link' = link
      /\ \A y : y # x => srv'[y] = srv[y]
  BY DEF SetServer, IInv
<1>2. /\ toClient' \in Seq(Message)
      /\ toClient' = toClient \/ toClient' = toClient \o Says(x, evs)
      /\ link.client = 0 => toClient' = <<>>
      /\ \A i \in 1..Len(toClient') : srv[toClient'[i].id].conn = link.client
  BY ServerSaysParts, <1>1
<1>3. QueuesOK /\ LinksOK /\ \A y \in Ids : Whole(y)
  BY DEF FInv
<1>4. QueuesOK'
  BY <1>1, <1>2, <1>3 DEF QueuesOK
<1>5. LinksOK'
  <2>1. \A y : srv'[y].conn = srv[y].conn
    <3>1. srv'[x].conn = srv[x].conn
      BY <1>1
    <3> QED BY <1>1, <3>1
  <2> QED BY <1>1, <1>2, <1>3, <2>1 DEF LinksOK
<1>6. ASSUME NEW y \in Ids PROVE Whole(y)'
  <2>1. CASE y = x
    BY <1>1, <2>1 DEF Whole
  <2>2. CASE y # x
    <3>1. Announced(y, cli[y], toClient) /\ Upload(y, srv[y], cli[y], toClient, link.client)
      BY <1>3 DEF Whole
    <3>2. Announced(y, cli[y], toClient') /\ Upload(y, srv[y], cli[y], toClient', link.client)
      <4>1. CASE toClient' = toClient
        BY <3>1, <4>1
      <4>2. CASE toClient' = toClient \o Says(x, evs)
        <5>1. toClient \in Seq(Message) /\ Says(x, evs) \in Seq(Message)
          BY <1>3, SaysParts DEF QueuesOK
        <5>2. \A ev : Absent(Says(x, evs), Msg(ev, y))
          BY <2>2, SaysParts
        <5> QED BY <3>1, <4>2, <5>1, <5>2, AnnouncedConcat, UploadConcat
      <4> QED BY <1>2, <4>1, <4>2
    <3> QED BY <1>1, <2>2, <3>2 DEF Whole
  <2> QED BY <2>1, <2>2
<1> QED BY <1>4, <1>5, <1>6 DEF FInv

\* Steps that touch no body.
Quiet(ws, evs) ==
  /\ Absent(evs, "request") /\ Absent(evs, "request-pipe")
  /\ ~ws => \A ev \in {"request-pipe-end", "response-pipe", "response-pipe-end"} : Absent(evs, ev)

LEMMA QuietServer ==
  ASSUME FInv, IInv, NEW x \in Ids, NEW r, NEW evs \in Seq(Event), srv[x].conn # 0 \/ evs = <<>>,
         SetServer(x, r), ServerSays(x, evs) \/ UNCHANGED toClient,
         UNCHANGED <<cli, held, link>>, toServer' \in Seq(Message),
         \A y \in Ids : Down(y, srv[y], cli[y], Backlog'),
         Keeps(srv[x], r), Quiet(srv[x].ws, evs)
  PROVE  FInv'
<1>1. Down(x, r, cli[x], Backlog')
  BY KeepsWhole
<1>2. Announced(x, cli[x], toClient) /\ Upload(x, srv[x], cli[x], toClient, link.client)
  BY DEF FInv, Whole
<1>3. toClient' = toClient \/ toClient' = toClient \o Says(x, evs)
  BY ServerSaysParts
<1>4. Announced(x, cli[x], toClient') /\ Upload(x, srv[x], cli[x], toClient', link.client)
  <2>1. CASE toClient' = toClient
    BY <1>2, <2>1
  <2>2. CASE toClient' = toClient \o Says(x, evs)
    <3>1. toClient \in Seq(Message) /\ Says(x, evs) \in Seq(Message)
      BY SaysParts DEF FInv, QueuesOK
    <3>2. /\ Absent(Says(x, evs), Msg("request", x)) /\ Absent(Says(x, evs), Msg("request-pipe", x))
          /\ ~srv[x].ws => \A ev \in {"request-pipe", "request-pipe-end", "response-pipe", "response-pipe-end"} :
                             Absent(Says(x, evs), Msg(ev, x))
      BY SaysParts DEF Quiet
    <3> QED BY <1>2, <2>2, <3>1, <3>2, AnnouncedConcat, UploadConcat
  <2> QED BY <1>3, <2>1, <2>2
<1>5. Upload(x, r, cli[x], toClient', link.client) /\ r.conn = srv[x].conn
  BY <1>4, KeepsWhole DEF Keeps
<1> QED BY <1>1, <1>4, <1>5, ServerFrame

LEMMA SameBacklog ==
  ASSUME FInv, UNCHANGED <<toServer, held>>
  PROVE  toServer' \in Seq(Message) /\ \A y \in Ids : Down(y, srv[y], cli[y], Backlog')
BY DEF FInv, QueuesOK, Whole, Backlog

LEMMA QuietEvents ==
  /\ \A ws : Quiet(ws, <<>>) /\ <<>> \in Seq(Event)
  /\ \A ev \in Event : <<ev>> \in Seq(Event)
  /\ \A ws, ev : ev \in {"request-pipe-error", "response-pipe-error"} => Quiet(ws, <<ev>>)
  /\ \A ws, ev : ws /\ ev \in {"response-pipe", "response-pipe-end"} => Quiet(ws, <<ev>>)
  /\ \A r \in Record : ErrorsFor(r) \in Seq(Event) /\ Quiet(r.ws, ErrorsFor(r))
  /\ \A r \in Record : r.req # "open" /\ r.res # "open" => ErrorsFor(r) = <<>>
<1>1. \A ws : Quiet(ws, <<>>) /\ <<>> \in Seq(Event)
  BY EmptyParts, EmptySeq DEF Quiet
<1>2. \A ev \in Event : <<ev>> \in Seq(Event)
  OBVIOUS
<1>3. \A ws, ev : ev \in {"request-pipe-error", "response-pipe-error"} => Quiet(ws, <<ev>>)
  BY DEF Quiet, Absent
<1>4. \A ws, ev : ws /\ ev \in {"response-pipe", "response-pipe-end"} => Quiet(ws, <<ev>>)
  BY DEF Quiet, Absent
<1>8. "request-pipe-error" \in Event /\ "response-pipe-error" \in Event
  BY DEF Event
<1>6. <<"request-pipe-error", "response-pipe-error">> \in Seq(Event)
  BY <1>8
<1>5. ASSUME NEW r \in Record
      PROVE  ErrorsFor(r) \in {<<>>, <<"request-pipe-error">>, <<"response-pipe-error">>,
                               <<"request-pipe-error", "response-pipe-error">>}
             /\ (r.req # "open" /\ r.res # "open" => ErrorsFor(r) = <<>>)
  <2> DEFINE a == <<"request-pipe-error">>
             b == <<"response-pipe-error">>
             ab == <<"request-pipe-error", "response-pipe-error">>
  <2>1. a \in Seq(Event) /\ b \in Seq(Event) /\ ab \in Seq(Event)
    BY <1>2, <1>6, <1>8
  <2>l. Len(a) = 1 /\ Len(b) = 1 /\ Len(ab) = 2 /\ a[1] = ab[1] /\ b[1] = ab[2]
    OBVIOUS
  <2>2. a \o b = ab
    <3> HIDE DEF a, b, ab
    <3>1. /\ a \o b \in Seq(Event) /\ Len(a \o b) = 2
          /\ \A i \in 1..2 : (a \o b)[i] = IF i <= 1 THEN a[i] ELSE b[i - 1]
      <4>1. /\ a \o b \in Seq(Event) /\ Len(a \o b) = Len(a) + Len(b)
            /\ \A i \in 1..(Len(a) + Len(b)) : (a \o b)[i] = IF i <= Len(a) THEN a[i] ELSE b[i - Len(a)]
        BY <2>1, ConcatProperties
      <4>2. Len(a) = 1 /\ Len(b) = 1 /\ Len(a) + Len(b) = 2
        BY <2>l
      <4> QED BY <4>1, <4>2
    <3>2. \A i \in 1..2 : (a \o b)[i] = ab[i]
      BY <2>l, <3>1
    <3> QED BY <2>1, <2>l, <3>1, <3>2, SeqEqual
  <2>3. ErrorsFor(r) = (IF r.req = "open" THEN a ELSE <<>>) \o (IF r.res = "open" THEN b ELSE <<>>)
    BY DEF ErrorsFor
  <2> HIDE DEF a, b
  <2>4. a \o <<>> = a /\ <<>> \o b = b
    BY <2>1, ConcatEmptySeq
  <2>5. <<>> \o <<>> = <<>>
    BY EmptySeq, ConcatEmptySeq
  <2>6. ErrorsFor(r) \in {<<>>, a, b, a \o b} /\ (r.req # "open" /\ r.res # "open" => ErrorsFor(r) = <<>>)
    BY <2>3, <2>4, <2>5
  <2> QED BY <2>2, <2>6 DEF a, b
<1>7. \A ws : Quiet(ws, <<"request-pipe-error", "response-pipe-error">>)
  BY DEF Quiet, Absent
<1> QED BY <1>1, <1>2, <1>3, <1>4, <1>5, <1>6, <1>7, <1>8

\* Who has a stream that is open, or a response, is on a connection.
LEMMA OnConnection ==
  ASSUME FInv, IInv, NEW x \in Ids
  PROVE  /\ srv[x].req = "open" \/ srv[x].res = "open" => srv[x].conn = link.server /\ link.server # 0
         /\ srv[x].req = "open" \/ srv[x].res = "open" \/ srv[x].head # "none" => srv[x].conn # 0
<1>1. Sound(srv[x], link.server) /\ Upload(x, srv[x], cli[x], toClient, link.client)
  BY DEF FInv, IInv, Whole
<1> QED BY <1>1 DEF Sound, Upload

LEMMA NotFoundFInv ==
  ASSUME FInv, IInv, NEW x \in Ids, NotFound(x)
  PROVE  FInv'
<1> DEFINE r == [srv[x] EXCEPT !.vis = "bad"]
<1>1. /\ SetServer(x, r) /\ UNCHANGED <<cli, toClient, toServer, held, link>>
      /\ Keeps(srv[x], srv[x]) /\ srv[x] \in Record
  BY KeepsSelf DEF NotFound
<1>2. Keeps(srv[x], r)
  BY <1>1 DEF Keeps, Record
<1> HIDE DEF r
<1> QED BY <1>1, <1>2, QuietServer, QuietEvents, SameBacklog

LEMMA VisitFInv ==
  ASSUME FInv, IInv, NEW x \in Ids, NEW ws \in BOOLEAN, Visit(x, ws)
  PROVE  FInv'
<1> DEFINE req == IF ws THEN "done" ELSE "open"
           r == [srv[x] EXCEPT !.ws = ws, !.vis = "open", !.conn = link.server, !.res = "open",
                               !.req = req]
           evs == IF ws THEN <<"request", "request-pipe-end">> ELSE <<"request">>
           p == Says(x, evs)
           c == cli[x]
<1>1. /\ SetServer(x, r) /\ srv[x].vis = "new" /\ link.server # 0
      /\ UNCHANGED <<cli, toServer, held, link>>
      /\ toClient' = IF link.server # link.client THEN toClient ELSE toClient \o p
  BY DEF Visit, InTouch
<1>2. /\ QueuesOK /\ LinksOK /\ LinkOK /\ srv[x] \in Record
      /\ \A y \in Ids : Whole(y)
      /\ Down(x, srv[x], c, Backlog) /\ Announced(x, c, toClient)
      /\ Upload(x, srv[x], c, toClient, link.client)
  BY DEF FInv, IInv, Sound, Whole
<1>3. /\ c.app = "none" /\ c.req = "none" /\ c.made = 0 /\ c.fed = 0 /\ srv[x].conn = 0 /\ srv[x].got = 0
      /\ srv[x].up = 0 /\ Absent(Backlog, Msg("response-pipe", x))
  BY <1>1, <1>2 DEF Down, Announced, Upload
<1>4. \A ev : Absent(toClient, Msg(ev, x))
  <2>1. \A i \in 1..Len(toClient) : srv[toClient[i].id].conn = link.client
    BY <1>2 DEF LinksOK
  <2>2. link.client = 0 => toClient = <<>>
    BY <1>2 DEF LinksOK
  <2>3. CASE link.client = 0
    BY <2>2, <2>3, EmptyParts
  <2>4. CASE link.client # 0
    BY <1>3, <2>1, <2>4 DEF Absent, Msg
  <2> QED BY <2>3, <2>4
<1>5. /\ r \in Record /\ (r.ws <=> ws) /\ r.vis = "open" /\ r.conn = link.server /\ r.res = "open"
      /\ r.got = 0 /\ r.up = 0 /\ r.upl = srv[x].upl
  BY <1>2, <1>3 DEF Record, Stream, LinkOK
<1>6. evs \in Seq(Event) /\ Absent(evs, "request-pipe") /\ Absent(evs, "response-pipe")
      /\ Absent(evs, "response-pipe-end") /\ (~ws => Absent(evs, "request-pipe-end"))
  <2>1. "request" \in Event /\ "request-pipe-end" \in Event
    BY DEF Event
  <2>2. <<"request", "request-pipe-end">> \in Seq(Event) /\ <<"request">> \in Seq(Event)
    BY <2>1
  <2> QED BY <2>2, ShortParts
<1>7. /\ p \in Seq(Message) /\ \A ev : Absent(evs, ev) => Absent(p, Msg(ev, x))
      /\ \A y, ev : y # x => Absent(p, Msg(ev, y))
      /\ Len(p) = Len(evs) /\ \A i \in 1..Len(evs) : p[i] = Msg(evs[i], x)
  BY <1>6, SaysParts
<1>8. NoneAfter(p, Msg("request", x), Msg("request", x)) /\ NoneAfter(p, Msg("request-pipe", x), Msg("request", x))
  <2>1. /\ Len(evs) \in {1, 2} /\ evs[1] = "request" /\ (Len(evs) = 2 => evs[2] = "request-pipe-end")
    OBVIOUS
  <2>2. 1 \in 1..Len(evs) /\ p[1] = Msg("request", x) /\ (Len(evs) = 2 => p[2] = Msg("request-pipe-end", x))
    BY <1>7, <2>1
  <2>3. Msg("request", x) # Msg("request-pipe-end", x)
    BY DEF Msg
  <2> HIDE DEF evs, p
  <2> QED BY <1>7, <2>1, <2>2, <2>3 DEF NoneAfter
<1>9. ~Absent(p, Msg("request", x))
  <2>1. Len(evs) \in {1, 2} /\ evs[1] = "request"
    OBVIOUS
  <2>2. 1 \in 1..Len(p) /\ p[1] = Msg("request", x)
    BY <1>7, <2>1
  <2> HIDE DEF p
  <2> QED BY <2>2 DEF Absent
<1> HIDE DEF r, evs, p, req
<1>10. /\ \A y \in Ids : srv'[y] = IF y = x THEN r ELSE srv[y]
       /\ \A y : y # x => srv'[y] = srv[y]
  BY <1>1 DEF SetServer, IInv
<1>11. toClient \in Seq(Message) /\ toClient' \in Seq(Message) /\ link.server \in Nat /\ link.client \in Nat
  BY <1>1, <1>2, <1>7, ConcatProperties DEF QueuesOK, LinkOK
<1>12. QueuesOK'
  BY <1>1, <1>2, <1>11 DEF QueuesOK
<1>13. LinksOK'
  <2>1. link.server # link.client => link.client = 0 /\ toClient = <<>>
    BY <1>1, <1>2 DEF LinksOK
  <2>2. link.client = 0 => toClient' = <<>>
    BY <1>1, <1>2 DEF LinksOK
  <2>3. ASSUME NEW i \in 1..Len(toClient') PROVE srv'[toClient'[i].id].conn = link.client
    <3>1. link.client # 0 /\ toClient' = toClient \o p /\ link.server = link.client
      BY <1>1, <2>1, <2>2, <2>3
    <3>2. /\ Len(toClient) \in Nat /\ Len(p) \in Nat /\ Len(toClient') = Len(toClient) + Len(p)
          /\ \A j \in 1..(Len(toClient) + Len(p)) :
               toClient'[j] = IF j <= Len(toClient) THEN toClient[j] ELSE p[j - Len(toClient)]
      <4>1. Len(toClient) \in Nat /\ Len(p) \in Nat
        BY <1>7, <1>11, LenProperties
      <4>2. /\ Len(toClient \o p) = Len(toClient) + Len(p)
            /\ \A j \in 1..(Len(toClient) + Len(p)) :
                 (toClient \o p)[j] = IF j <= Len(toClient) THEN toClient[j] ELSE p[j - Len(toClient)]
        BY <1>7, <1>11, ConcatProperties
      <4> QED BY <3>1, <4>1, <4>2
    <3>3. CASE i <= Len(toClient)
      <4>1. i \in 1..Len(toClient) /\ toClient'[i] = toClient[i]
        BY <3>2, <3>3
      <4>2. srv[toClient[i].id].conn = link.client
        BY <1>2, <4>1 DEF LinksOK
      <4>3. toClient[i].id # x
        BY <1>3, <3>1, <4>2
      <4> QED BY <1>10, <4>1, <4>2, <4>3
    <3>4. CASE ~(i <= Len(toClient))
      <4>1. i - Len(toClient) \in 1..Len(p) /\ toClient'[i] = p[i - Len(toClient)]
        BY <3>2, <3>4
      <4>2. toClient'[i] = Msg(evs[i - Len(toClient)], x)
        BY <1>7, <4>1
      <4>3. toClient'[i].id = x
        BY <4>2 DEF Msg
      <4> QED BY <1>5, <1>10, <3>1, <4>3
    <3> QED BY <3>3, <3>4
  <2>4. \A y \in Ids : srv'[y].conn <= link.count
    BY <1>2, <1>5, <1>10 DEF LinksOK
  <2> QED BY <1>1, <1>2, <2>2, <2>3, <2>4 DEF LinksOK
<1>14. ASSUME NEW y \in Ids \ {x} PROVE Whole(y)'
  <2>1. Down(y, srv[y], cli[y], Backlog) /\ Announced(y, cli[y], toClient)
        /\ Upload(y, srv[y], cli[y], toClient, link.client)
    BY <1>2 DEF Whole
  <2>2. \A ev : Absent(p, Msg(ev, y))
    BY <1>7
  <2>3. Announced(y, cli[y], toClient \o p) /\ Upload(y, srv[y], cli[y], toClient \o p, link.client)
    BY <1>7, <1>11, <2>1, <2>2, AnnouncedConcat, UploadConcat
  <2>4. Announced(y, cli[y], toClient') /\ Upload(y, srv[y], cli[y], toClient', link.client)
    BY <1>1, <2>1, <2>3
  <2> QED BY <1>1, <1>10, <2>1, <2>4 DEF Whole, Backlog
<1>15. Down(x, r, c, Backlog)
  <2>1. Backlog \in Seq(Message)
    BY <1>2, ConcatProperties DEF QueuesOK, Backlog
  <2>2. Count(Backlog, Msg("response-pipe", x)) = 0
    BY <1>3, <2>1, CountType
  <2> QED BY <1>2, <1>3, <1>5, <2>2 DEF Down
<1>16. Announced(x, c, toClient')
  <2> DEFINE a == Msg("request", x)
             m == Msg("request-pipe", x)
  <2>1. Absent(toClient, a) /\ Absent(toClient, m) /\ Absent(p, m) /\ NoneAfter(p, a, a) /\ NoneAfter(p, m, a)
    BY <1>4, <1>6, <1>7, <1>8
  <2> HIDE DEF a, m
  <2>2. NoneAfter(toClient \o p, a, a) /\ NoneAfter(toClient \o p, m, a) /\ Absent(toClient \o p, m)
    BY <1>7, <1>11, <2>1, NoneAfterConcat, AbsentConcat
  <2>3. Announced(x, c, toClient \o p)
    BY <1>3, <2>2 DEF Announced, a, m
  <2> QED BY <1>1, <1>2, <2>3
<1>17. Upload(x, r, c, toClient', link.client)
  <2>1. CASE link.server # link.client
    <3>1. link.client = 0 /\ toClient' = toClient
      BY <1>1, <1>2, <2>1 DEF LinksOK
    <3>2. \A e : NoneAfter(toClient, Msg("request-pipe-end", x), e)
      BY <1>4 DEF NoneAfter, Absent
    <3> QED BY <1>1, <1>2, <1>3, <1>4, <1>5, <3>1, <3>2 DEF Upload
  <2>2. CASE link.server = link.client
    <3> DEFINE a == Msg("request", x)
               m == Msg("request-pipe", x)
               e == Msg("request-pipe-end", x)
               f == Msg("response-pipe", x)
               g == Msg("response-pipe-end", x)
               q == toClient \o p
    <3>1. /\ Absent(toClient, m) /\ Absent(p, m) /\ Absent(toClient, e) /\ (~ws => Absent(p, e))
          /\ Absent(toClient, f) /\ Absent(p, f) /\ Absent(toClient, g) /\ Absent(p, g) /\ ~Absent(p, a)
      BY <1>4, <1>6, <1>7, <1>9
    <3> HIDE DEF a, m, e, f, g
    <3>2. /\ Absent(q, m) /\ (~ws => Absent(q, e)) /\ Absent(q, f) /\ Absent(q, g) /\ ~Absent(q, a)
          /\ q \in Seq(Message)
      BY <1>7, <1>11, <3>1, AbsentConcat, ConcatProperties
    <3>3. Count(q, m) = 0 /\ NoneAfter(q, e, m)
      BY <3>2, CountType DEF NoneAfter, Absent
    <3>4. toClient' = q
      BY <1>1, <2>2
    <3> HIDE DEF q
    <3>5. Upload(x, r, c, q, link.client)
      BY <1>1, <1>2, <1>3, <1>5, <3>2, <3>3 DEF Upload, a, m, e, f, g
    <3> QED BY <3>4, <3>5
  <2> QED BY <2>1, <2>2
<1>18. Whole(x)'
  BY <1>1, <1>10, <1>15, <1>16, <1>17 DEF Whole, Backlog
<1> QED BY <1>12, <1>13, <1>14, <1>18 DEF FInv

LEMMA VisitorSendsFInv ==
  ASSUME FInv, IInv, NEW x \in Ids, VisitorSends(x)
  PROVE  FInv'
<1> DEFINE r == [srv[x] EXCEPT !.up = srv[x].up + 1]
           c == cli[x]
<1>1. /\ SetServer(x, r) /\ UNCHANGED <<cli, toServer, held, link>>
      /\ srv[x].vis # "new" /\ srv[x].upl = "open"
      /\ Keeps(srv[x], srv[x]) /\ srv[x] \in Record /\ Whole(x)
  <2>1. srv[x].vis = "open" \/ (srv[x].req = "open" /\ srv[x].conn # 0)
    BY OnConnection DEF VisitorSends
  <2> QED BY <2>1, KeepsSelf DEF VisitorSends, Whole, Upload
<1>2. /\ r \in Record /\ r.vis = srv[x].vis /\ r.upl = "open" /\ r.up = srv[x].up + 1
      /\ r.conn = srv[x].conn /\ (r.ws <=> srv[x].ws) /\ r.res = srv[x].res /\ r.got = srv[x].got
      /\ r.head = srv[x].head
  BY <1>1 DEF Record
<1>3. "request-pipe" \in Event /\ "response-pipe" \in Event
  BY DEF Event
<1> HIDE DEF r
<1>4. CASE srv[x].ws
  <2>1. srv[x].conn # 0 /\ ServerSays(x, <<"response-pipe">>)
    BY <1>4, OnConnection DEF VisitorSends, Upgrades
  <2>2. Keeps(srv[x], r)
    BY <1>1, <1>2, <1>4 DEF Keeps
  <2>3. Quiet(srv[x].ws, <<"response-pipe">>) /\ <<"response-pipe">> \in Seq(Event)
    BY <1>3, <1>4, QuietEvents
  <2> QED BY <1>1, <2>1, <2>2, <2>3, QuietServer, SameBacklog
<1>5. CASE ~srv[x].ws
  <2>1. ServerSays(x, <<"request-pipe">>) /\ srv[x].req = "open"
    BY <1>5 DEF VisitorSends, Upgrades
  <2>2. srv[x].conn = link.server /\ link.server # 0
    BY <2>1, OnConnection
  <2>3. <<"request-pipe">> \in Seq(Event) /\ Says(x, <<"request-pipe">>) = <<Msg("request-pipe", x)>>
    BY <1>3, QuietEvents, ShortSays
  <2> DEFINE m == Msg("request-pipe", x)
             a == Msg("request", x)
             e == Msg("request-pipe-end", x)
             f == Msg("response-pipe", x)
             g == Msg("response-pipe-end", x)
             p == <<m>>
             q == toClient \o p
  <2>4. /\ link.server # link.client => link.client = 0
        /\ toClient' = IF link.server = link.client THEN q ELSE toClient
        /\ toClient \in Seq(Message) /\ p \in Seq(Message)
    BY <2>1, <2>2, <2>3, SaysParts DEF ServerSays, InTouch, FInv, LinksOK, QueuesOK
  <2>5. Down(x, srv[x], c, Backlog) /\ Announced(x, c, toClient) /\ Upload(x, srv[x], c, toClient, link.client)
    BY <1>1 DEF Whole
  <2>6. m # a /\ m # e /\ m # f /\ m # g
    BY DEF Msg
  <2>7. Down(x, r, c, Backlog)
    BY <1>2, <2>5 DEF Down
  <2>8. Announced(x, c, toClient') /\ Upload(x, r, c, toClient', link.client)
    <3>1. CASE link.server # link.client
      BY <1>1, <1>2, <1>5, <2>4, <2>5, <3>1 DEF Upload
    <3>2. CASE link.server = link.client
      <4>1. c.app # "none" \/ ~Absent(toClient, a)
        BY <2>2, <2>5, <3>2 DEF Upload
      <4> HIDE DEF p, m, a, e, f, g
      <4>2. Absent(p, a) /\ Absent(p, e) /\ Absent(p, f) /\ Absent(p, g)
        BY <2>6, ShortParts DEF p
      <4>3. Announced(x, c, q)
        BY <2>4, <2>5, <4>1, <4>2, AnnouncedConcat DEF a, m
      <4>4. /\ Absent(toClient, e) /\ Absent(toClient, f) /\ Absent(toClient, g) /\ c.req # "done"
        BY <1>1, <1>5, <2>5 DEF Upload, e, f, g
      <4>5. /\ Absent(q, e) /\ Absent(q, f) /\ Absent(q, g)
            /\ Absent(q, a) => Absent(toClient, a)
        BY <2>4, <4>2, <4>4, AbsentConcat
      <4>6. Count(q, m) = Count(toClient, m) + 1 /\ NoneAfter(q, e, m)
        BY <2>4, <4>5, CountConcat DEF p, NoneAfter, Absent
      <4>7. Count(toClient, m) \in Nat /\ c.fed \in Nat /\ srv[x].up \in Nat
        <5>1. Count(toClient, m) \in Nat
          BY <2>4, CountType
        <5>2. c.fed \in Nat
          BY DEF FInv, QueuesOK, ClientRecord
        <5> QED BY <1>1, <5>1, <5>2 DEF Record
      <4>8. toClient' = q
        BY <2>4, <3>2
      <4> HIDE DEF q
      <4>9. Upload(x, r, c, q, link.client)
        <5>1. r.conn = link.client /\ link.client # 0 /\ c.req \in {"none", "open"} =>
                c.fed + Count(q, m) = r.up
          BY <1>2, <1>5, <2>5, <4>6, <4>7 DEF Upload, m
        <5> QED BY <1>1, <1>2, <1>5, <2>5, <4>4, <4>5, <4>6, <5>1 DEF Upload, a, m, e, f, g
      <4> QED BY <4>3, <4>8, <4>9
    <3> QED BY <3>1, <3>2
  <2>9. srv[x].conn # 0
    BY <2>2
  <2> HIDE DEF p, m, a, e, f, g, q, c
  <2> QED BY <1>1, <1>2, <2>1, <2>3, <2>7, <2>8, <2>9, ServerFrame, SameBacklog DEF c, Backlog
<1> QED BY <1>4, <1>5

LEMMA UploadEndsFInv ==
  ASSUME FInv, IInv, NEW x \in Ids, UploadEnds(x)
  PROVE  FInv'
<1> DEFINE req == IF srv[x].req = "open" THEN "done" ELSE srv[x].req
           r == [srv[x] EXCEPT !.upl = "ended", !.req = req]
           c == cli[x]
<1>1. /\ SetServer(x, r) /\ UNCHANGED <<cli, toServer, held, link>>
      /\ srv[x].vis # "new" /\ ~srv[x].ws
      /\ Keeps(srv[x], srv[x]) /\ srv[x] \in Record /\ Whole(x)
  BY KeepsSelf DEF UploadEnds, Upgrades
<1>2. req \in Stream
  BY <1>1 DEF Record, Stream
<1> HIDE DEF req
<1>3. Keeps(srv[x], r) /\ r.conn = srv[x].conn /\ r.upl = "ended"
  BY <1>1, <1>2 DEF Keeps, Record
<1> HIDE DEF r
<1>4. CASE srv[x].req # "open"
  <2>1. ServerSays(x, <<>>)
    BY <1>4 DEF UploadEnds
  <2> QED BY <1>1, <1>3, <2>1, QuietServer, SameBacklog, QuietEvents
<1>5. CASE srv[x].req = "open"
  <2>1. ServerSays(x, <<"request-pipe-end">>) /\ srv[x].conn # 0
    BY <1>5, OnConnection DEF UploadEnds
  <2>2. <<"request-pipe-end">> \in Seq(Event) /\ Says(x, <<"request-pipe-end">>) = <<Msg("request-pipe-end", x)>>
    <3>1. "request-pipe-end" \in Event
      BY DEF Event
    <3> QED BY <3>1, QuietEvents, ShortSays
  <2> DEFINE m == Msg("request-pipe", x)
             a == Msg("request", x)
             e == Msg("request-pipe-end", x)
             f == Msg("response-pipe", x)
             g == Msg("response-pipe-end", x)
             p == <<e>>
             q == toClient \o p
  <2>3. (toClient' = toClient \/ toClient' = q) /\ toClient \in Seq(Message) /\ p \in Seq(Message)
    BY <2>1, <2>2, SaysParts DEF ServerSays, FInv, QueuesOK
  <2>4. /\ Down(x, r, c, Backlog) /\ Announced(x, c, toClient)
        /\ Upload(x, r, c, toClient, link.client)
    BY <1>1, <1>3, KeepsWhole DEF Whole
  <2>5. e # a /\ e # m /\ e # f /\ e # g
    BY DEF Msg
  <2> HIDE DEF m, a, e, f, g, p
  <2>6. Absent(p, a) /\ Absent(p, m) /\ Absent(p, f) /\ Absent(p, g)
    BY <2>5, ShortParts DEF p
  <2>7. Announced(x, c, q)
    BY <2>3, <2>4, <2>6, AnnouncedConcat DEF a, m
  <2>8. Count(q, m) = Count(toClient, m) /\ (NoneAfter(toClient, e, m) => NoneAfter(q, e, m))
    BY <2>3, <2>6, CountConcat, NoneAfterConcat
  <2>9. /\ Absent(toClient, f) => Absent(q, f)
        /\ Absent(toClient, g) => Absent(q, g)
        /\ Absent(q, a) => Absent(toClient, a)
    BY <2>3, <2>6, AbsentConcat
  <2> HIDE DEF q
  <2>10. Upload(x, r, c, q, link.client)
    BY <1>3, <2>4, <2>8, <2>9 DEF Upload, m, a, e, f, g
  <2>11. Announced(x, c, toClient') /\ Upload(x, r, c, toClient', link.client)
    BY <2>3, <2>4, <2>7, <2>10
  <2> HIDE DEF c
  <2> QED BY <1>1, <1>3, <2>1, <2>2, <2>4, <2>11, ServerFrame, SameBacklog DEF c, Backlog
<1> QED BY <1>4, <1>5

LEMMA VisitorLeavesFInv ==
  ASSUME FInv, IInv, NEW x \in Ids,
         VisitorEnds(x) \/ Finishes(x) \/ VisitorLeaves(x) \/ UpgradeLeaves(x) \/ UpgradeLeavesEarly(x)
  PROVE  FInv'
<1>1. /\ UNCHANGED <<cli, toServer, held, link>>
      /\ Keeps(srv[x], srv[x]) /\ srv[x] \in Record /\ Sound(srv[x], link.server)
  BY KeepsSelf DEF VisitorEnds, Finishes, VisitorLeaves, UpgradeLeaves, UpgradeLeavesEarly, IInv
<1>2. CASE VisitorEnds(x)
  <2> DEFINE r == [srv[x] EXCEPT !.upl = "ended"]
  <2>1. /\ SetServer(x, IF r.res = "done" THEN Recorded(Closed(r, "ended")) ELSE r)
        /\ ServerSays(x, <<"response-pipe-end">>) /\ srv[x].ws /\ srv[x].head = "101"
    BY <1>2 DEF VisitorEnds, Upgrades
  <2>2. r \in Record /\ Keeps(srv[x], r)
    BY <1>1 DEF Keeps, Record
  <2> HIDE DEF r
  <2>3. r.res = "done" => Closed(r, "ended") \in Record /\ Keeps(srv[x], Closed(r, "ended"))
    BY <1>1, <2>2, ClosedParts, KeepsClosed
  <2>4. r.res = "done" => Keeps(srv[x], Recorded(Closed(r, "ended")))
    BY <1>1, <2>3, KeepsRecorded
  <2>5. /\ <<"response-pipe-end">> \in Seq(Event) /\ Quiet(srv[x].ws, <<"response-pipe-end">>)
        /\ srv[x].conn # 0
    <3>1. "response-pipe-end" \in Event
      BY DEF Event
    <3> QED BY <2>1, <3>1, QuietEvents, OnConnection
  <2>6. PICK s : SetServer(x, s) /\ Keeps(srv[x], s)
    BY <2>1, <2>2, <2>4
  <2> QED BY <1>1, <2>1, <2>5, <2>6, QuietServer, SameBacklog
<1>3. CASE VisitorLeaves(x)
  <2> DEFINE r == LeaveHttp(srv[x])
             s == [r EXCEPT !.upl = "ended"]
             evs == IF srv[x].upl = "open" THEN <<>> ELSE ErrorsFor(srv[x])
  <2>1. SetServer(x, s) /\ ServerSays(x, evs) /\ srv[x].vis \in {"open", "ended", "bad"}
    BY <1>3 DEF VisitorLeaves
  <2>2. r \in Record /\ Keeps(srv[x], r)
    <3>1. CASE srv[x].vis = "open"
      <4>1. Closed(srv[x], "gone") \in Record /\ Keeps(srv[x], Closed(srv[x], "gone"))
            /\ Closed(srv[x], "gone").req # "open" /\ Final(Closed(srv[x], "gone"))
        BY <1>1, <3>1, ClosedParts, ClosedSound, KeepsClosed DEF Sound, Final
      <4> QED BY <1>1, <3>1, <4>1, KeepsRecorded, RecordedParts DEF LeaveHttp
    <3>2. CASE srv[x].vis # "open"
      <4>1. srv[x].vis \in {"ended", "bad"} /\ (srv[x].vis = "ended" => srv[x].res = "done")
        BY <1>1, <2>1, <3>2 DEF Keeps
      <4> QED BY <1>1, <3>2, <4>1, KeepsClosed, ClosedParts DEF LeaveHttp
    <3> QED BY <3>1, <3>2
  <2> HIDE DEF r
  <2>3. Keeps(srv[x], s)
    BY <2>2 DEF Keeps, Record
  <2>4. evs \in Seq(Event) /\ Quiet(srv[x].ws, evs) /\ (srv[x].conn # 0 \/ evs = <<>>)
    BY <1>1, QuietEvents, OnConnection
  <2> HIDE DEF s, evs
  <2> QED BY <1>1, <2>1, <2>3, <2>4, QuietServer, SameBacklog
<1>4. CASE UpgradeLeaves(x)
  <2>1. PICK vis : /\ SetServer(x, Recorded(Closed(srv[x], vis)))
                   /\ vis = "gone" \/ vis = srv[x].vis
    BY <1>4 DEF UpgradeLeaves
  <2>2. PICK evs \in {<<>>, <<"response-pipe-error">>} : ServerSays(x, evs) \/ UNCHANGED toClient
    BY <1>4 DEF UpgradeLeaves
  <2>3. vis \in {"open", "ended", "bad", "left", "gone"} /\ (vis = "ended" => srv[x].res = "done")
    BY <1>1, <1>4, <2>1 DEF UpgradeLeaves, Record, Sound, Keeps
  <2>4. Closed(srv[x], vis) \in Record /\ Keeps(srv[x], Closed(srv[x], vis))
    BY <1>1, <2>3, ClosedParts, KeepsClosed
  <2>5. Keeps(srv[x], Recorded(Closed(srv[x], vis)))
    BY <1>1, <2>4, KeepsRecorded
  <2>6. evs \in Seq(Event) /\ Quiet(srv[x].ws, evs) /\ srv[x].conn # 0
    <3>1. "response-pipe-error" \in Event
      BY DEF Event
    <3>2. srv[x].conn # 0
      BY <1>4, OnConnection DEF UpgradeLeaves
    <3> QED BY <2>2, <3>1, <3>2, QuietEvents
  <2> QED BY <1>1, <2>1, <2>2, <2>5, <2>6, QuietServer, SameBacklog
<1>5. CASE UpgradeLeavesEarly(x)
  <2> DEFINE r == [srv[x] EXCEPT !.vis = "left"]
  <2>1. SetServer(x, r) /\ UNCHANGED toClient
    BY <1>5 DEF UpgradeLeavesEarly
  <2>2. Keeps(srv[x], r)
    BY <1>1 DEF Keeps, Record
  <2> HIDE DEF r
  <2> QED BY <1>1, <2>1, <2>2, QuietServer, SameBacklog, QuietEvents
<1>6. CASE Finishes(x)
  <2> DEFINE r == [srv[x] EXCEPT !.res = "finished"]
  <2>1. SetServer(x, r) /\ UNCHANGED toClient /\ srv[x].vis = "open"
    BY <1>6 DEF Finishes
  <2>2. Keeps(srv[x], r)
    BY <1>1, <2>1 DEF Keeps, Record
  <2> HIDE DEF r
  <2> QED BY <1>1, <2>1, <2>2, QuietServer, SameBacklog, QuietEvents
<1> QED BY <1>2, <1>3, <1>4, <1>5, <1>6

-----------------------------------------------------------------------------
(* What the server receives.                                               *)
LEMMA BacklogTail ==
  ASSUME FInv, toServer # <<>>, UNCHANGED held, toServer' = Tail(toServer)
  PROVE  /\ Backlog \in Seq(Message) /\ Backlog # <<>> /\ Head(Backlog) = Head(toServer)
         /\ Backlog' = Tail(Backlog) /\ toServer' \in Seq(Message)
         /\ Head(toServer).id \in Ids /\ Head(toServer) = Msg(Head(toServer).ev, Head(toServer).id)
<1> DEFINE t == toServer
           b == t \o held
           u == Tail(t) \o held
<1>1. t \in Seq(Message) /\ held \in Seq(Message) /\ t # <<>>
  BY DEF FInv, QueuesOK
<1>2. Backlog = b /\ Backlog' = u /\ toServer' = Tail(t)
  BY DEF Backlog
<1> HIDE DEF t
<1>3. Tail(t) \in Seq(Message) /\ Len(t) \in Nat \ {0} /\ Len(Tail(t)) = Len(t) - 1 /\ Head(t) = t[1] /\ Head(t) \in Message
      /\ \A i \in 1..Len(Tail(t)) : i + 1 \in 1..Len(t) /\ Tail(t)[i] = t[i + 1]
  BY <1>1, TailParts
<1>4. Len(held) \in Nat
  BY <1>1, LenProperties
<1>5. b \in Seq(Message) /\ Len(b) = Len(t) + Len(held)
      /\ \A i \in 1..(Len(t) + Len(held)) : b[i] = IF i <= Len(t) THEN t[i] ELSE held[i - Len(t)]
  BY <1>1, ConcatProperties
<1>6. u \in Seq(Message) /\ Len(u) = Len(Tail(t)) + Len(held)
      /\ \A i \in 1..(Len(Tail(t)) + Len(held)) : u[i] = IF i <= Len(Tail(t)) THEN Tail(t)[i] ELSE held[i - Len(Tail(t))]
  BY <1>1, <1>3, ConcatProperties
<1>7. b # <<>>
  BY <1>3, <1>4, <1>5
<1> HIDE DEF b, u
<1>8. Tail(b) \in Seq(Message) /\ Len(Tail(b)) = Len(b) - 1 /\ Head(b) = b[1]
      /\ \A i \in 1..Len(Tail(b)) : i + 1 \in 1..Len(b) /\ Tail(b)[i] = b[i + 1]
  BY <1>5, <1>7, TailParts
<1>9. Len(u) = Len(Tail(b))
  BY <1>3, <1>4, <1>5, <1>6, <1>8
<1>10. \A i \in 1..Len(u) : u[i] = Tail(b)[i]
  <2> SUFFICES ASSUME NEW i \in 1..Len(u) PROVE u[i] = Tail(b)[i]
    OBVIOUS
  <2>1. Tail(b)[i] = b[i + 1] /\ i + 1 \in 1..(Len(t) + Len(held)) /\ i \in 1..(Len(Tail(t)) + Len(held))
    BY <1>3, <1>4, <1>5, <1>6, <1>8, <1>9
  <2>2. CASE i <= Len(Tail(t))
    BY <1>3, <1>4, <1>5, <1>6, <2>1, <2>2
  <2>3. CASE ~(i <= Len(Tail(t)))
    <3>1. u[i] = held[i - Len(Tail(t))] /\ b[i + 1] = held[i + 1 - Len(t)]
      BY <1>3, <1>4, <1>5, <1>6, <2>1, <2>3
    <3>2. i - Len(Tail(t)) = i + 1 - Len(t)
      BY <1>3
    <3> QED BY <2>1, <3>1, <3>2
  <2> QED BY <2>2, <2>3
<1>11. u = Tail(b)
  BY <1>6, <1>8, <1>9, <1>10, SeqEqual
<1>12. Head(b) = Head(t)
  BY <1>3, <1>4, <1>5, <1>8
<1>13. Head(t).id \in Ids /\ Head(t) = Msg(Head(t).ev, Head(t).id)
  BY <1>3 DEF Message, Msg
<1> QED BY <1>2, <1>3, <1>5, <1>7, <1>11, <1>12, <1>13 DEF t

\* A message the server has no use for, or whose handling touches no body.
LEMMA QuietReceive ==
  ASSUME FInv, IInv, toServer # <<>>, UNCHANGED <<cli, held, link>>, toServer' = Tail(toServer),
         NEW x \in Ids, x = Head(toServer).id, NEW r, NEW evs \in Seq(Event),
         srv[x].conn # 0 \/ evs = <<>>, SetServer(x, r), ServerSays(x, evs) \/ UNCHANGED toClient,
         Keeps(srv[x], r), Quiet(srv[x].ws, evs),
         Head(toServer).ev = "response-pipe" => srv[x].res # "open"
  PROVE  FInv'
<1>1. /\ Backlog \in Seq(Message) /\ Backlog # <<>> /\ Head(Backlog) = Head(toServer)
      /\ Backlog' = Tail(Backlog) /\ toServer' \in Seq(Message)
      /\ Head(toServer) = Msg(Head(toServer).ev, x)
  BY BacklogTail
<1>2. ASSUME NEW y \in Ids PROVE Down(y, srv[y], cli[y], Backlog')
  <2>1. Down(y, srv[y], cli[y], Backlog)
    BY DEF FInv, Whole
  <2>2. Head(Backlog) = Msg("response-pipe", y) => srv[y].res # "open"
    BY <1>1 DEF Msg
  <2> QED BY <1>1, <2>1, <2>2, DownTail
<1> QED BY <1>1, <1>2, QuietServer

\* A chunk of the response is delivered.
LEMMA PipeFInv ==
  ASSUME FInv, IInv, toServer # <<>>, UNCHANGED <<cli, held, link>>, toServer' = Tail(toServer),
         NEW x \in Ids, x = Head(toServer).id, Head(toServer).ev = "response-pipe",
         srv[x].res = "open", OnResponsePipe(x)
  PROVE  FInv'
<1> DEFINE r == [srv[x] EXCEPT !.got = srv[x].got + 1]
           m == Msg("response-pipe", x)
           e == Msg("response-pipe-end", x)
           c == cli[x]
<1>1. /\ Backlog \in Seq(Message) /\ Backlog # <<>> /\ Head(Backlog) = m
      /\ Backlog' = Tail(Backlog) /\ toServer' \in Seq(Message)
  BY BacklogTail
<1>2. SetServer(x, r) /\ UNCHANGED toClient
  BY DEF OnResponsePipe
<1>3. /\ srv[x] \in Record /\ Sound(srv[x], link.server) /\ Down(x, srv[x], c, Backlog)
      /\ Announced(x, c, toClient) /\ Upload(x, srv[x], c, toClient, link.client)
  BY DEF FInv, IInv, Sound, Whole
<1>4. /\ r.got = srv[x].got + 1 /\ r.res = "open" /\ r.vis = srv[x].vis /\ r.conn = srv[x].conn
      /\ (r.ws <=> srv[x].ws) /\ r.head = srv[x].head /\ r.up = srv[x].up /\ r.upl = srv[x].upl
      /\ srv[x].got \in Nat /\ r.vis \in {"open", "left"}
  BY <1>3 DEF Record, Sound
<1>5. Upload(x, r, c, toClient', link.client)
  BY <1>2, <1>3, <1>4 DEF Upload
<1> HIDE DEF r
<1>6. \A y \in Ids \ {x} : Down(y, srv[y], cli[y], Backlog')
  <2> SUFFICES ASSUME NEW y \in Ids \ {x} PROVE Down(y, srv[y], cli[y], Backlog')
    OBVIOUS
  <2>1. Down(y, srv[y], cli[y], Backlog) /\ Head(Backlog) # Msg("response-pipe", y)
    BY <1>1 DEF FInv, Whole, Msg
  <2> QED BY <1>1, <2>1, DownTail
<1>7. Down(x, r, c, Backlog')
  <2> HIDE DEF m, e, c
  <2>1. Count(Backlog, m) = Count(Tail(Backlog), m) + 1 /\ Tail(Backlog) \in Seq(Message)
    BY <1>1, CountTail, HeadTailProperties
  <2>2. Count(Tail(Backlog), m) \in Nat
    BY <2>1, CountType
  <2>3. srv[x].got + Count(Backlog, m) = c.made
    BY <1>3 DEF Down, m
  <2>4. r.got + Count(Tail(Backlog), m) = c.made
    <3>1. r.got = srv[x].got + 1 /\ srv[x].got \in Nat
      BY <1>4
    <3>2. Count(Backlog, m) = Count(Tail(Backlog), m) + 1
      BY <2>1
    <3> QED BY <2>2, <2>3, <3>1, <3>2
  <2>5. /\ NoneAfter(Tail(Backlog), e, m)
        /\ c.app \notin Over => Absent(Tail(Backlog), e)
        /\ c.app # "none"
    <3>1. /\ NoneAfter(Backlog, e, m) /\ (c.app \notin Over => Absent(Backlog, e))
          /\ (c.app = "none" => Absent(Backlog, m))
      BY <1>3 DEF Down, m, e
    <3>2. ~Absent(Backlog, m)
      BY <1>1, AbsentTail
    <3>3. Absent(Backlog, e) => Absent(Tail(Backlog), e)
      BY <1>1, AbsentTail
    <3>4. NoneAfter(Tail(Backlog), e, m)
      BY <1>1, <3>1, NoneAfterTail
    <3> QED BY <3>1, <3>2, <3>3, <3>4
  <2> QED BY <1>1, <1>4, <2>4, <2>5 DEF Down, m, e
<1>8. Announced(x, c, toClient')
  BY <1>2, <1>3
<1> HIDE DEF m, e
<1> QED BY <1>1, <1>2, <1>4, <1>5, <1>6, <1>7, <1>8, ServerFrame, QuietEvents

\* The response ends, complete.
LEMMA PipeEndFInv ==
  ASSUME FInv, IInv, toServer # <<>>, UNCHANGED <<cli, held, link>>, toServer' = Tail(toServer),
         NEW x \in Ids, x = Head(toServer).id, Head(toServer).ev = "response-pipe-end",
         srv[x].res = "open", OnResponsePipeEnd(x)
  PROVE  FInv'
<1> DEFINE m == Msg("response-pipe", x)
           e == Msg("response-pipe-end", x)
           c == cli[x]
           r == [srv[x] EXCEPT !.res = "done"]
           f == [r EXCEPT !.vis = "ended"]
<1>1. /\ Backlog \in Seq(Message) /\ Backlog # <<>> /\ Head(Backlog) = e
      /\ Backlog' = Tail(Backlog) /\ toServer' \in Seq(Message)
  BY BacklogTail
<1>2. /\ UNCHANGED toClient
      /\ \/ SetServer(x, Recorded(f)) \/ SetServer(x, Recorded(Closed(r, "ended")))
         \/ SetServer(x, r) \/ SetServer(x, f) \/ UNCHANGED srv
  BY DEF OnResponsePipeEnd
<1>3. /\ srv[x] \in Record /\ Sound(srv[x], link.server) /\ Down(x, srv[x], c, Backlog)
      /\ Announced(x, c, toClient) /\ Upload(x, srv[x], c, toClient, link.client)
  BY DEF FInv, IInv, Sound, Whole
<1>4. m # e
  BY DEF Msg
<1>5. /\ r \in Record /\ r.got = srv[x].got /\ r.res = "done" /\ r.vis = srv[x].vis /\ r.conn = srv[x].conn
      /\ (r.ws <=> srv[x].ws) /\ r.head = srv[x].head /\ r.up = srv[x].up /\ r.upl = srv[x].upl
      /\ r.vis # "new" /\ r.vis # "ended"
  BY <1>3 DEF Record, Stream, Sound
<1>6. f \in Record /\ f.res = "done" /\ f.vis = "ended"
  BY <1>5 DEF Record
<1>7. Upload(x, r, c, toClient, link.client) /\ Keeps(r, r) /\ Keeps(r, f)
  BY <1>3, <1>5 DEF Upload, Keeps, Record
<1> HIDE DEF r, f
<1>8. Keeps(r, Recorded(f)) /\ Keeps(r, Recorded(Closed(r, "ended")))
  <2>1. Closed(r, "ended") \in Record /\ Keeps(r, Closed(r, "ended"))
    BY <1>5, <1>7, ClosedParts, KeepsClosed
  <2> QED BY <1>5, <1>6, <1>7, <2>1, KeepsRecorded
<1>9. \A y \in Ids : Down(y, srv[y], cli[y], Backlog')
  <2> SUFFICES ASSUME NEW y \in Ids PROVE Down(y, srv[y], cli[y], Backlog')
    OBVIOUS
  <2>1. Down(y, srv[y], cli[y], Backlog) /\ Head(Backlog) # Msg("response-pipe", y)
    BY <1>1 DEF FInv, Whole, Msg
  <2> QED BY <1>1, <2>1, DownTail
<1>10. Down(x, r, c, Backlog')
  <2> HIDE DEF m, e, c
  <2>1. Count(Backlog, m) = Count(Tail(Backlog), m) /\ Tail(Backlog) \in Seq(Message)
    BY <1>1, <1>4, CountTail, HeadTailProperties
  <2>2. NoneAfter(Backlog, e, m) /\ c.app \in Over /\ srv[x].got + Count(Backlog, m) = c.made
    <3>1. ~Absent(Backlog, e)
      BY <1>1, AbsentTail
    <3> QED BY <1>3, <3>1 DEF Down, m, e
  <2>3. Count(Tail(Backlog), m) = 0
    BY <1>1, <2>1, <2>2, NoneAfterTail, CountType
  <2>4. srv[x].got = c.made
    BY <1>3, <2>1, <2>2, <2>3 DEF Record
  <2>5. Down(x, srv[x], c, Backlog')
    BY <1>9 DEF c
  <2> QED BY <1>5, <2>2, <2>4, <2>5 DEF Down
<1>11. CASE UNCHANGED srv
  <2>1. SetServer(x, srv[x]) /\ Keeps(srv[x], srv[x])
    BY <1>11, KeepsSelf DEF SetServer, IInv
  <2> QED BY <1>1, <1>2, <1>9, <2>1, QuietServer, QuietEvents
<1>12. ASSUME NEW s, SetServer(x, s), Keeps(r, s) PROVE FInv'
  <2>1. Down(x, s, c, Backlog') /\ Upload(x, s, c, toClient, link.client) /\ s.conn = srv[x].conn
    BY <1>5, <1>7, <1>10, <1>12, KeepsWhole DEF Keeps
  <2> HIDE DEF m, e
  <2> QED BY <1>1, <1>2, <1>3, <1>9, <1>12, <2>1, ServerFrame, QuietEvents
<1> QED BY <1>2, <1>7, <1>8, <1>11, <1>12

LEMMA ServerReceivesFInv ==
  ASSUME FInv, IInv, ServerReceives
  PROVE  FInv'
<1> DEFINE m == Head(toServer)
           x == m.id
           r == srv[x]
<1>1. /\ toServer # <<>> /\ toServer' = Tail(toServer) /\ UNCHANGED <<cli, held, link>>
      /\ x \in Ids
  BY BacklogTail DEF ServerReceives
<1>2. /\ r \in Record /\ Keeps(r, r) /\ Sound(r, link.server)
      /\ r.res = "open" => r.conn # 0 /\ r.vis \in {"open", "left"}
  BY <1>1, KeepsSelf, OnConnection DEF IInv, Sound
<1>3. CASE r.res # "open"
  <2>1. UNCHANGED <<srv, toClient>>
    BY <1>3 DEF ServerReceives
  <2>2. SetServer(x, r)
    BY <1>1, <2>1 DEF SetServer, IInv
  <2> HIDE DEF x, r, m
  <2> QED BY <1>1, <1>2, <1>3, <2>1, <2>2, QuietReceive, QuietEvents DEF x, r, m
<1>4. CASE r.res = "open"
  <2>1. \/ m.ev = "response-pipe" /\ OnResponsePipe(x)
        \/ m.ev = "response-pipe-end" /\ OnResponsePipeEnd(x)
        \/ m.ev # "response-pipe" /\ \E head \in {"sent", "101"} : OnResponse(x, head)
        \/ m.ev # "response-pipe" /\ (OnResponsePipeError(x) \/ OnRequestError(x))
    BY <1>4 DEF ServerReceives
  <2>2. ASSUME m.ev # "response-pipe", NEW head \in {"sent", "101"}, OnResponse(x, head) PROVE FInv'
    <3> DEFINE h == IF r.head = "none" THEN head ELSE r.head
               s == [r EXCEPT !.head = h]
    <3>1. SetServer(x, s) /\ UNCHANGED toClient
      BY <2>2 DEF OnResponse
    <3> HIDE DEF h
    <3>2. Keeps(r, s)
      BY <1>2, <1>4 DEF Keeps, Record
    <3> HIDE DEF s, r, x, m
    <3> QED BY <1>1, <1>2, <2>2, <3>1, <3>2, QuietReceive, QuietEvents DEF x, r, m
  <2>3. ASSUME m.ev # "response-pipe", OnResponsePipeError(x) \/ OnRequestError(x) PROVE FInv'
    <3> DEFINE d == [r EXCEPT !.res = "destroyed"]
    <3>1. \/ ServerSays(x, ErrorsFor(r)) \/ UNCHANGED toClient
      BY <2>3 DEF OnResponsePipeError, OnRequestError
    <3>2. \/ UNCHANGED srv
          \/ SetServer(x, Recorded(Closed(r, "bad")))
          \/ SetServer(x, Recorded(Closed(r, r.vis)))
          \/ SetServer(x, Closed(r, r.vis))
          \/ SetServer(x, d)
      BY <2>3 DEF OnResponsePipeError, OnRequestError
    <3>3. Keeps(r, d)
      BY <1>2, <1>4 DEF Keeps, Record
    <3>4. UNCHANGED srv => SetServer(x, r)
      BY <1>1 DEF SetServer, IInv
    <3> HIDE DEF d, r
    <3>5. \A vis \in {"open", "left", "bad"} :
            /\ Closed(r, vis) \in Record /\ Keeps(r, Closed(r, vis))
            /\ Keeps(r, Recorded(Closed(r, vis)))
      BY <1>2, ClosedParts, KeepsClosed, KeepsRecorded
    <3>6. PICK s : SetServer(x, s) /\ Keeps(r, s)
      BY <1>2, <1>4, <3>2, <3>3, <3>4, <3>5
    <3>7. ErrorsFor(r) \in Seq(Event) /\ Quiet(r.ws, ErrorsFor(r))
      BY <1>2, QuietEvents
    <3> HIDE DEF x, m
    <3> QED BY <1>1, <1>2, <1>4, <2>3, <3>1, <3>6, <3>7, QuietReceive DEF x, r, m
  <2> QED BY <1>1, <1>4, <2>1, <2>2, <2>3, PipeFInv, PipeEndFInv
<1> QED BY <1>3, <1>4

-----------------------------------------------------------------------------
(* What the client and the application do.                                 *)

\* A message of the client joins the backlog, or is lost when the server is gone.
LEMMA ClientEmitsParts ==
  ASSUME FInv, NEW msgs \in Seq(Message), ClientEmits(msgs)
  PROVE  /\ toServer' \in Seq(Message) /\ held' \in Seq(Message) /\ Backlog \in Seq(Message)
         /\ link.client # 0 => held' = <<>>
         /\ Backlog' = Backlog \o msgs \/ (Backlog' = Backlog /\ link.server = 0)
<1>1. toServer \in Seq(Message) /\ held \in Seq(Message) /\ LinksOK
  BY DEF FInv, QueuesOK
<1>2. CASE link.client = 0
  <2>1. held' = held \o msgs /\ toServer' = toServer
    BY <1>2 DEF ClientEmits
  <2>2. held \o msgs \in Seq(Message) /\ toServer \o held \in Seq(Message)
    BY <1>1, ConcatProperties
  <2>3. toServer \o (held \o msgs) = (toServer \o held) \o msgs
    BY <1>1, ConcatAssociative
  <2> QED BY <1>1, <1>2, <2>1, <2>2, <2>3 DEF Backlog
<1>3. CASE link.client # 0
  <2>1. held = <<>> /\ held' = held /\ toServer' = IF InTouch THEN toServer \o msgs ELSE toServer
    BY <1>1, <1>3 DEF ClientEmits, LinksOK
  <2>2. CASE InTouch
    <3>1. toServer' \in Seq(Message) /\ toServer' = toServer \o msgs
      BY <1>1, <2>1, <2>2, ConcatProperties
    <3>2. toServer \o <<>> = toServer /\ toServer' \o <<>> = toServer'
      BY <1>1, <3>1, ConcatEmptySeq
    <3> QED BY <1>1, <2>1, <3>1, <3>2 DEF Backlog
  <2>3. CASE ~InTouch
    <3>1. link.server = 0
      BY <1>1, <1>3, <2>3 DEF LinksOK, InTouch
    <3> QED BY <1>1, <2>1, <2>3, <3>1, ConcatProperties DEF Backlog
  <2> QED BY <2>2, <2>3
<1> QED BY <1>2, <1>3

LEMMA ClientSaysParts ==
  ASSUME FInv, IInv, NEW x \in Ids, NEW evs \in Seq(Event),
         ClientSays(x, evs) \/ UNCHANGED <<toServer, held>>
  PROVE  /\ toServer' \in Seq(Message) /\ held' \in Seq(Message) /\ Backlog \in Seq(Message)
         /\ link.client # 0 => held' = <<>>
         /\ \A y \in Ids \ {x} : Down(y, srv[y], cli[y], Backlog')
         /\ Absent(evs, "response-pipe") /\ Absent(evs, "response-pipe-end") =>
              Down(x, srv[x], cli[x], Backlog')
<1>1. /\ Says(x, evs) \in Seq(Message)
      /\ \A ev : Absent(evs, ev) => Absent(Says(x, evs), Msg(ev, x))
      /\ \A y, ev : y # x => Absent(Says(x, evs), Msg(ev, y))
  BY SaysParts
<1>2. /\ Backlog \in Seq(Message) /\ toServer \in Seq(Message) /\ held \in Seq(Message)
      /\ (link.client # 0 => held = <<>>) /\ \A y \in Ids : Down(y, srv[y], cli[y], Backlog)
  BY ConcatProperties DEF FInv, QueuesOK, LinksOK, Whole, Backlog
<1>3. CASE UNCHANGED <<toServer, held>>
  BY <1>2, <1>3 DEF Backlog
<1>4. CASE ClientSays(x, evs)
  <2>1. /\ toServer' \in Seq(Message) /\ held' \in Seq(Message)
        /\ link.client # 0 => held' = <<>>
        /\ Backlog' = Backlog \o Says(x, evs) \/ Backlog' = Backlog
    BY <1>1, <1>4, ClientEmitsParts DEF ClientSays
  <2>2. \A y \in Ids \ {x} : Down(y, srv[y], cli[y], Backlog \o Says(x, evs))
    BY <1>1, <1>2, DownConcat
  <2>3. Absent(evs, "response-pipe") /\ Absent(evs, "response-pipe-end") =>
          Down(x, srv[x], cli[x], Backlog \o Says(x, evs))
    BY <1>1, <1>2, DownConcat
  <2> QED BY <1>2, <2>1, <2>2, <2>3
<1> QED BY <1>3, <1>4

LEMMA ClientFrame ==
  ASSUME FInv, IInv, NEW x \in Ids, NEW d \in ClientRecord, SetClient(x, d), UNCHANGED <<srv, link>>,
         UNCHANGED toClient \/ (/\ link.client # 0 /\ toClient # <<>> /\ toClient' = Tail(toClient)
                                /\ Head(toClient).id = x),
         toServer' \in Seq(Message), held' \in Seq(Message), link.client # 0 => held' = <<>>,
         \A y \in Ids \ {x} : Down(y, srv[y], cli[y], Backlog'),
         Down(x, srv[x], d, Backlog'), Announced(x, d, toClient'),
         Upload(x, srv[x], d, toClient', link.client)
  PROVE  FInv'
<1>1. QueuesOK /\ LinksOK /\ \A y \in Ids : Whole(y)
  BY DEF FInv
<1>2. /\ cli' = [y \in Ids |-> cli'[y]] /\ \A y \in Ids : cli'[y] = IF y = x THEN d ELSE cli[y]
      /\ srv' = srv /\ link' = link
  BY <1>1 DEF QueuesOK, SetClient
<1>3. /\ toClient' \in Seq(Message)
      /\ \A i \in 1..Len(toClient') : srv[toClient'[i].id].conn = link.client
      /\ link.client = 0 => toClient' = <<>>
      /\ \A y \in Ids \ {x} : Announced(y, cli[y], toClient') /\ Upload(y, srv[y], cli[y], toClient', link.client)
  <2>1. CASE UNCHANGED toClient
    BY <1>1, <2>1 DEF QueuesOK, LinksOK, Whole
  <2>2. CASE /\ link.client # 0 /\ toClient # <<>> /\ toClient' = Tail(toClient)
             /\ Head(toClient).id = x
    <3>1. /\ toClient' \in Seq(Message)
          /\ \A i \in 1..Len(Tail(toClient)) : i + 1 \in 1..Len(toClient) /\ Tail(toClient)[i] = toClient[i + 1]
          /\ toClient \in Seq(Message)
      BY <1>1, <2>2, TailParts DEF QueuesOK
    <3>2. \A i \in 1..Len(toClient') : srv[toClient'[i].id].conn = link.client
      BY <1>1, <2>2, <3>1 DEF LinksOK
    <3>3. ASSUME NEW y \in Ids \ {x}
          PROVE  Announced(y, cli[y], toClient') /\ Upload(y, srv[y], cli[y], toClient', link.client)
      <4>1. \A ev : Head(toClient) # Msg(ev, y)
        BY <2>2 DEF Msg
      <4>2. Announced(y, cli[y], toClient) /\ Upload(y, srv[y], cli[y], toClient, link.client)
        BY <1>1 DEF Whole
      <4> QED BY <2>2, <3>1, <4>1, <4>2, AnnouncedTail, UploadTail
    <3> QED BY <2>2, <3>1, <3>2, <3>3
  <2> QED BY <2>1, <2>2
<1>4. QueuesOK'
  BY <1>1, <1>2, <1>3 DEF QueuesOK
<1>5. LinksOK'
  BY <1>1, <1>2, <1>3 DEF LinksOK
<1>6. ASSUME NEW y \in Ids PROVE Whole(y)'
  BY <1>2, <1>3 DEF Whole
<1> QED BY <1>4, <1>5, <1>6 DEF FInv

\* The local request of x stops.
LEMMA StopsParts ==
  ASSUME NEW c \in ClientRecord, c.app # "none"
  PROVE  \E d \in ClientRecord :
           /\ d = [c EXCEPT !.app = "stopped", !.req = Destroyed(@), !.res = Destroyed(@)]
           /\ d.app = "stopped" /\ (d.req = "none" <=> c.req = "none")
           /\ d.req = c.req \/ d.req = "destroyed"
           /\ d.res # "open" /\ d.made = c.made /\ d.fed = c.fed
<1> DEFINE req == Destroyed(c.req)
           res == Destroyed(c.res)
           d == [c EXCEPT !.app = "stopped", !.req = req, !.res = res]
<1>1. /\ req = c.req \/ (req = "destroyed" /\ c.req = "open")
      /\ res # "open" /\ req \in Stream /\ res \in Stream
  BY DEF Destroyed, ClientRecord, Stream
<1>2. d = [c EXCEPT !.app = "stopped", !.req = Destroyed(@), !.res = Destroyed(@)]
  OBVIOUS
<1> HIDE DEF req, res
<1>3. /\ d \in ClientRecord /\ d.app = "stopped" /\ d.req = req /\ d.res = res
      /\ d.made = c.made /\ d.fed = c.fed
  BY <1>1 DEF ClientRecord
<1> HIDE DEF d
<1> QED BY <1>1, <1>2, <1>3

LEMMA LocalStopsFInv ==
  ASSUME FInv, IInv, NEW x \in Ids, LocalStops(x, cli[x]), cli[x].app # "none", UNCHANGED <<srv, link>>,
         UNCHANGED toClient \/ (/\ link.client # 0 /\ toClient # <<>> /\ toClient' = Tail(toClient)
                                /\ Head(toClient).id = x),
         Announced(x, cli[x], toClient'), Upload(x, srv[x], cli[x], toClient', link.client)
  PROVE  FInv'
<1> DEFINE c == cli[x]
<1>1. c \in ClientRecord
  BY DEF FInv, QueuesOK
<1>2. PICK d \in ClientRecord :
        /\ d = [c EXCEPT !.app = "stopped", !.req = Destroyed(@), !.res = Destroyed(@)]
        /\ d.app = "stopped" /\ (d.req = "none" <=> c.req = "none")
        /\ d.req = c.req \/ d.req = "destroyed"
        /\ d.res # "open" /\ d.made = c.made /\ d.fed = c.fed
  BY <1>1, StopsParts
<1>3. SetClient(x, d)
  BY <1>2 DEF LocalStops
<1>4. PICK ev \in {"request-error", "response-pipe-error"} : ClientSays(x, <<ev>>) \/ UNCHANGED <<toServer, held>>
  BY DEF LocalStops
<1>5. <<ev>> \in Seq(Event) /\ Absent(<<ev>>, "response-pipe") /\ Absent(<<ev>>, "response-pipe-end")
  BY QuietEvents, ShortParts DEF Event
<1>6. /\ toServer' \in Seq(Message) /\ held' \in Seq(Message)
      /\ link.client # 0 => held' = <<>>
      /\ \A y \in Ids \ {x} : Down(y, srv[y], cli[y], Backlog')
      /\ Down(x, srv[x], c, Backlog')
  BY <1>4, <1>5, ClientSaysParts
<1>7. Announced(x, d, toClient')
  BY <1>2 DEF Announced
<1>8. Upload(x, srv[x], d, toClient', link.client)
  BY <1>2, UploadClient
<1>9. Down(x, srv[x], d, Backlog')
  BY <1>2, <1>6, DownClient DEF Over
<1> QED BY <1>3, <1>6, <1>7, <1>8, <1>9, ClientFrame

LEMMA AppFailsFInv ==
  ASSUME FInv, IInv, NEW x \in Ids, AppFails(x)
  PROVE  FInv'
<1>1. /\ LocalStops(x, cli[x]) /\ cli[x].app # "none" /\ UNCHANGED <<srv, toClient, link>>
  BY DEF AppFails
<1>2. Announced(x, cli[x], toClient) /\ Upload(x, srv[x], cli[x], toClient, link.client)
  BY DEF FInv, Whole
<1> QED BY <1>1, <1>2, LocalStopsFInv

LEMMA AppRepliesFInv ==
  ASSUME FInv, IInv, NEW x \in Ids, AppReplies(x)
  PROVE  FInv'
<1> DEFINE c == cli[x]
<1>1. /\ c \in ClientRecord /\ Announced(x, c, toClient) /\ Upload(x, srv[x], c, toClient, link.client)
  BY DEF FInv, QueuesOK, Whole
<1>2. /\ c.app = "working" /\ UNCHANGED <<srv, toClient, link>>
      /\ \E app \in {"replying", "socket"}, ev \in {"response", "upgraded"} :
           SetClient(x, [c EXCEPT !.res = "open", !.app = app]) /\ ClientSays(x, <<ev>>)
  BY DEF AppReplies
<1>3. PICK app \in {"replying", "socket"}, ev \in {"response", "upgraded"} :
        SetClient(x, [c EXCEPT !.res = "open", !.app = app]) /\ ClientSays(x, <<ev>>)
  BY <1>2
<1> DEFINE d == [c EXCEPT !.res = "open", !.app = app]
<1>4. <<ev>> \in Seq(Event) /\ Absent(<<ev>>, "response-pipe") /\ Absent(<<ev>>, "response-pipe-end")
  BY QuietEvents, ShortParts DEF Event
<1>5. /\ toServer' \in Seq(Message) /\ held' \in Seq(Message)
      /\ link.client # 0 => held' = <<>>
      /\ \A y \in Ids \ {x} : Down(y, srv[y], cli[y], Backlog')
      /\ Down(x, srv[x], c, Backlog')
  BY <1>3, <1>4, ClientSaysParts
<1>6. /\ d \in ClientRecord /\ d.app = app /\ d.req = c.req /\ d.res = "open"
      /\ d.made = c.made /\ d.fed = c.fed
  BY <1>1 DEF ClientRecord, Stream
<1>7. SetClient(x, d)
  BY <1>3
<1> HIDE DEF d, c
<1>8. Down(x, srv[x], d, Backlog')
  BY <1>2, <1>5, <1>6, DownClient DEF Over
<1>9. Announced(x, d, toClient')
  BY <1>1, <1>2, <1>6 DEF Announced
<1>10. Upload(x, srv[x], d, toClient', link.client)
  BY <1>1, <1>2, <1>6, UploadClient
<1> QED BY <1>2, <1>5, <1>6, <1>7, <1>8, <1>9, <1>10, ClientFrame DEF c

LEMMA AppSendsFInv ==
  ASSUME FInv, IInv, NEW x \in Ids, AppSends(x)
  PROVE  FInv'
<1> DEFINE c == cli[x]
           r == srv[x]
           d == [c EXCEPT !.made = c.made + 1]
           m == Msg("response-pipe", x)
           e == Msg("response-pipe-end", x)
<1>1. /\ c \in ClientRecord /\ Announced(x, c, toClient) /\ Upload(x, r, c, toClient, link.client)
      /\ Down(x, r, c, Backlog) /\ r \in Record /\ (r.res = "open" => link.server # 0)
  BY DEF FInv, QueuesOK, Whole, IInv, Sound
<1>2. /\ c.app \in {"replying", "socket"} /\ UNCHANGED <<srv, toClient, link>>
      /\ SetClient(x, d) /\ ClientSays(x, <<"response-pipe">>)
  BY DEF AppSends
<1>3. "response-pipe" \in Event /\ <<"response-pipe">> \in Seq(Event)
  BY DEF Event
<1>4. Says(x, <<"response-pipe">>) = <<m>> /\ <<m>> \in Seq(Message)
  BY <1>3, ShortSays, SaysParts
<1>5. /\ toServer' \in Seq(Message) /\ held' \in Seq(Message) /\ Backlog \in Seq(Message)
      /\ link.client # 0 => held' = <<>>
      /\ \A y \in Ids \ {x} : Down(y, srv[y], cli[y], Backlog')
  BY <1>2, <1>3, ClientSaysParts
<1>6. Backlog' = Backlog \o <<m>> \/ (Backlog' = Backlog /\ link.server = 0)
  BY <1>2, <1>4, ClientEmitsParts DEF ClientSays
<1>7. /\ d \in ClientRecord /\ d.app = c.app /\ d.req = c.req /\ d.res = c.res
      /\ d.made = c.made + 1 /\ d.fed = c.fed /\ c.made \in Nat
  BY <1>1 DEF ClientRecord
<1>m. m # e
  BY DEF Msg
<1> HIDE DEF d, c, r
<1>8. Down(x, r, d, Backlog')
  <2>1. /\ r.res = "open" => r.got + Count(Backlog, m) = c.made
        /\ r.res # "done" /\ r.vis # "ended"
        /\ NoneAfter(Backlog, e, m) /\ Absent(Backlog, e)
    BY <1>1, <1>2 DEF Down, Over
  <2>2. CASE Backlog' = Backlog /\ link.server = 0
    BY <1>1, <1>2, <1>7, <2>1, <2>2 DEF Down
  <2>3. CASE Backlog' = Backlog \o <<m>>
    <3> HIDE DEF m, e
    <3>1. Count(Backlog \o <<m>>, m) = Count(Backlog, m) + 1
      BY <1>4, <1>5, CountConcat
    <3>2. Absent(<<m>>, e) /\ NoneAfter(<<m>>, e, m)
      BY <1>m, ShortParts
    <3>3. NoneAfter(Backlog \o <<m>>, e, m) /\ Absent(Backlog \o <<m>>, e)
      BY <1>4, <1>5, <2>1, <3>2, NoneAfterConcat, AbsentConcat
    <3>4. r.res = "open" => r.got + (Count(Backlog, m) + 1) = d.made
      <4>1. Count(Backlog, m) \in Nat /\ r.got \in Nat
        BY <1>1, <1>5, CountType DEF Record
      <4> QED BY <1>7, <2>1, <4>1
    <3> QED BY <1>2, <1>7, <2>1, <2>3, <3>1, <3>3, <3>4 DEF Down, m, e
  <2> QED BY <1>6, <2>2, <2>3
<1>9. Announced(x, d, toClient')
  BY <1>1, <1>2, <1>7 DEF Announced
<1>10. Upload(x, r, d, toClient', link.client)
  BY <1>1, <1>2, <1>7, UploadClient
<1> QED BY <1>2, <1>5, <1>7, <1>8, <1>9, <1>10, ClientFrame DEF c, r

LEMMA AppEndsFInv ==
  ASSUME FInv, IInv, NEW x \in Ids, AppEnds(x)
  PROVE  FInv'
<1> DEFINE c == cli[x]
           r == srv[x]
           res == IF c.app = "replying" THEN "done" ELSE "destroyed"
           d == [c EXCEPT !.app = "done", !.res = res]
           m == Msg("response-pipe", x)
           e == Msg("response-pipe-end", x)
<1>1. /\ c \in ClientRecord /\ Announced(x, c, toClient) /\ Upload(x, r, c, toClient, link.client)
      /\ Down(x, r, c, Backlog) /\ r \in Record /\ (r.res = "open" => link.server # 0)
  BY DEF FInv, QueuesOK, Whole, IInv, Sound
<1>2. /\ c.app \in {"replying", "socket", "closing"} /\ UNCHANGED <<srv, toClient, link>>
      /\ SetClient(x, d) /\ ClientSays(x, <<"response-pipe-end">>)
  BY DEF AppEnds
<1>3. "response-pipe-end" \in Event /\ <<"response-pipe-end">> \in Seq(Event)
  BY DEF Event
<1>4. Says(x, <<"response-pipe-end">>) = <<e>> /\ <<e>> \in Seq(Message)
  BY <1>3, ShortSays, SaysParts
<1>5. /\ toServer' \in Seq(Message) /\ held' \in Seq(Message) /\ Backlog \in Seq(Message)
      /\ link.client # 0 => held' = <<>>
      /\ \A y \in Ids \ {x} : Down(y, srv[y], cli[y], Backlog')
  BY <1>2, <1>3, ClientSaysParts
<1>6. Backlog' = Backlog \o <<e>> \/ (Backlog' = Backlog /\ link.server = 0)
  BY <1>2, <1>4, ClientEmitsParts DEF ClientSays
<1>r. res \in {"done", "destroyed"}
  OBVIOUS
<1> HIDE DEF res
<1>7. /\ d \in ClientRecord /\ d.app = "done" /\ d.req = c.req /\ d.res # "open"
      /\ d.made = c.made /\ d.fed = c.fed
  BY <1>1, <1>r DEF ClientRecord, Stream
<1>m. m # e
  BY DEF Msg
<1> HIDE DEF d, c, r
<1>8. Down(x, r, d, Backlog')
  <2>1. /\ r.res = "open" => r.got + Count(Backlog, m) = c.made
        /\ r.res # "done" /\ r.vis # "ended"
        /\ NoneAfter(Backlog, e, m)
    BY <1>1, <1>2 DEF Down, Over
  <2>2. CASE Backlog' = Backlog /\ link.server = 0
    BY <1>1, <1>2, <1>7, <2>1, <2>2 DEF Down, Over
  <2>3. CASE Backlog' = Backlog \o <<e>>
    <3> HIDE DEF m, e
    <3>1. Absent(<<e>>, m)
      BY <1>m, ShortParts
    <3>2. Count(Backlog \o <<e>>, m) = Count(Backlog, m)
      BY <1>4, <1>5, <3>1, CountConcat
    <3>3. NoneAfter(Backlog \o <<e>>, e, m)
      BY <1>4, <1>5, <2>1, <3>1, NoneAfterConcat
    <3> QED BY <1>7, <2>1, <2>3, <3>2, <3>3 DEF Down, m, e, Over
  <2> QED BY <1>6, <2>2, <2>3
<1>9. Announced(x, d, toClient')
  BY <1>1, <1>2, <1>7 DEF Announced
<1>10. Upload(x, r, d, toClient', link.client)
  BY <1>1, <1>2, <1>7, UploadClient
<1> QED BY <1>2, <1>5, <1>7, <1>8, <1>9, <1>10, ClientFrame DEF c, r

-----------------------------------------------------------------------------
(* What the client receives.                                               *)
LEMMA ReceiveParts ==
  ASSUME FInv, IInv, toClient # <<>>, link.client # 0, NEW x, x = Head(toClient).id
  PROVE  /\ x \in Ids /\ toClient \in Seq(Message) /\ Tail(toClient) \in Seq(Message)
         /\ Head(toClient) = Msg(Head(toClient).ev, x) /\ Head(toClient).ev \in Event
         /\ cli[x] \in ClientRecord /\ srv[x] \in Record
         /\ srv[x].conn = link.client /\ srv[x].conn # 0
         /\ Announced(x, cli[x], toClient) /\ Upload(x, srv[x], cli[x], toClient, link.client)
         /\ Down(x, srv[x], cli[x], Backlog)
<1>1. QueuesOK /\ LinksOK /\ (\A y \in Ids : Whole(y)) /\ (\A y \in Ids : srv[y] \in Record)
  BY DEF FInv, IInv, Sound
<1>2. toClient \in Seq(Message)
  BY <1>1 DEF QueuesOK
<1>3. /\ Tail(toClient) \in Seq(Message) /\ Len(toClient) \in Nat \ {0}
      /\ Head(toClient) = toClient[1] /\ Head(toClient) \in Message
  BY <1>2, TailParts
<1>4. x \in Ids /\ Head(toClient) = Msg(Head(toClient).ev, x) /\ Head(toClient).ev \in Event
  BY <1>3 DEF Message, Msg
<1>5. srv[x].conn = link.client
  <2>1. 1 \in 1..Len(toClient) /\ toClient[1].id = x
    BY <1>3
  <2> QED BY <1>1, <2>1 DEF LinksOK
<1> QED BY <1>1, <1>2, <1>3, <1>4, <1>5 DEF QueuesOK, Whole

\* A chunk of a request never comes before the request.
LEMMA ChunkHead ==
  ASSUME NEW x, NEW c, NEW q \in Seq(Message), q # <<>>, Announced(x, c, q),
         Head(q) = Msg("request-pipe", x)
  PROVE  c.app # "none"
<1> DEFINE a == Msg("request", x)
           m == Msg("request-pipe", x)
<1>1. m # a
  BY DEF Msg
<1> HIDE DEF m, a
<1>2. Absent(Tail(q), a)
  BY NoneAfterTail DEF Announced, a, m
<1>3. Absent(q, a) /\ ~Absent(q, m)
  BY <1>1, <1>2, AbsentTail DEF m
<1> QED BY <1>3 DEF Announced, a, m

\* The client's stream for the message is over, or never was.
LEMMA IgnoredFInv ==
  ASSUME FInv, IInv, toClient # <<>>, link.client # 0, toClient' = Tail(toClient),
         UNCHANGED <<srv, cli, toServer, held, link>>,
         NEW x, x = Head(toClient).id, Head(toClient).ev # "request",
         Head(toClient).ev = "request-pipe" => cli[x].req # "open" \/ cli[x].app = "closing"
  PROVE  FInv'
<1> DEFINE c == cli[x]
           r == srv[x]
<1>1. /\ x \in Ids /\ toClient \in Seq(Message)
      /\ Head(toClient) = Msg(Head(toClient).ev, x)
      /\ c \in ClientRecord /\ Announced(x, c, toClient) /\ Upload(x, r, c, toClient, link.client)
      /\ Down(x, r, c, Backlog)
  BY ReceiveParts
<1>2. SetClient(x, c) /\ toServer' \in Seq(Message) /\ held' \in Seq(Message) /\ held' = held
      /\ (link.client # 0 => held' = <<>>) /\ Backlog' = Backlog
  BY <1>1 DEF SetClient, FInv, QueuesOK, LinksOK, Backlog
<1>3. \A y \in Ids : Down(y, srv[y], cli[y], Backlog')
  BY <1>2 DEF FInv, Whole
<1>4. Head(toClient) # Msg("request", x)
  BY <1>1 DEF Msg
<1> HIDE DEF c, r
<1>5. Announced(x, c, toClient')
  BY <1>1, <1>4, AnnouncedTail
<1>6. Upload(x, r, c, toClient', link.client)
  <2>1. ASSUME Head(toClient) = Msg("request-pipe", x) PROVE r.ws \/ c.req \notin {"none", "open"}
    <3>1. c.app # "none"
      BY <1>1, <2>1, ChunkHead
    <3>2. c.req # "none"
      BY <1>1, <3>1 DEF Announced
    <3>3. Head(toClient).ev = "request-pipe"
      BY <2>1 DEF Msg
    <3>4. c.app = "closing" => r.ws
      BY <1>1 DEF Upload
    <3> QED BY <3>2, <3>3, <3>4 DEF c
  <2> QED BY <1>1, <1>4, <2>1, UploadTail
<1> QED BY <1>1, <1>2, <1>3, <1>5, <1>6, ClientFrame DEF c, r

\* The request arrives: the local request starts, or cannot.
LEMMA OnRequestFInv ==
  ASSUME FInv, IInv, toClient # <<>>, link.client # 0, toClient' = Tail(toClient),
         UNCHANGED <<srv, link>>,
         NEW x, x = Head(toClient).id, Head(toClient).ev = "request", OnRequest(x)
  PROVE  FInv'
<1> DEFINE c == cli[x]
           r == srv[x]
           q == toClient
           k == link.client
           a == Msg("request", x)
           m == Msg("request-pipe", x)
           e == Msg("request-pipe-end", x)
           f == Msg("response-pipe", x)
           g == Msg("response-pipe-end", x)
<1>1. /\ x \in Ids /\ q \in Seq(Message) /\ q # <<>> /\ Head(q) = a
      /\ c \in ClientRecord /\ Announced(x, c, q) /\ Upload(x, r, c, q, k)
      /\ r.conn = k /\ k # 0
  BY ReceiveParts
<1>2. PICK req \in {"open", "destroyed"}, app \in {"working", "stopped"}, evs \in {<<>>, <<"request-error">>} :
        /\ SetClient(x, [c EXCEPT !.req = req, !.app = app])
        /\ ClientSays(x, evs) \/ UNCHANGED <<toServer, held>>
  BY DEF OnRequest
<1> DEFINE d == [c EXCEPT !.req = req, !.app = app]
<1>3. SetClient(x, d)
  BY <1>2
<1>4. /\ evs \in Seq(Event) /\ Absent(evs, "response-pipe") /\ Absent(evs, "response-pipe-end")
  <2>1. "request-error" \in Event
    BY DEF Event
  <2>2. evs \in Seq(Event)
    BY <2>1, QuietEvents
  <2>3. CASE evs = <<>>
    BY <2>2, <2>3, EmptyParts
  <2>4. CASE evs = <<"request-error">>
    BY <2>2, <2>4, ShortParts
  <2> QED BY <2>3, <2>4
<1>5. /\ toServer' \in Seq(Message) /\ held' \in Seq(Message)
      /\ link.client # 0 => held' = <<>>
      /\ \A y \in Ids \ {x} : Down(y, srv[y], cli[y], Backlog')
      /\ Down(x, r, c, Backlog')
  BY <1>1, <1>2, <1>4, ClientSaysParts
<1>6. /\ d \in ClientRecord /\ d.app = app /\ d.req = req /\ d.res = c.res
      /\ d.made = c.made /\ d.fed = c.fed
  BY <1>1 DEF ClientRecord, Stream
<1>7. a # m /\ a # e /\ a # f /\ a # g
  BY DEF Msg
<1> HIDE DEF d, c, r, a, m, e, f, g, q, k
<1>8. /\ c.app = "none" /\ c.req = "none" /\ c.res # "open"
      /\ NoneAfter(q, a, a) /\ NoneAfter(q, m, a)
  <2>1. ~Absent(q, a)
    BY <1>1, AbsentTail
  <2> QED BY <1>1, <2>1 DEF Announced, Upload, a, m
<1>9. /\ NoneAfter(Tail(q), a, a) /\ NoneAfter(Tail(q), m, a) /\ Absent(Tail(q), a)
  BY <1>1, <1>8, NoneAfterTail
<1>10. Announced(x, d, Tail(q))
  BY <1>6, <1>9 DEF Announced, a, m
<1>11. Upload(x, r, d, Tail(q), k)
  <2>1. /\ ~r.ws => /\ c.fed + Count(q, m) = r.up /\ NoneAfter(q, e, m)
                    /\ r.upl # "ended" => Absent(q, e)
                    /\ Absent(q, f) /\ Absent(q, g)
        /\ r.vis # "new" /\ (r.conn = 0 => r.head = "none")
    BY <1>1, <1>8 DEF Upload, m, e, f, g
  <2>2. Count(Tail(q), m) = Count(q, m)
    BY <1>1, <1>7, CountTail
  <2>3. NoneAfter(q, e, m) => NoneAfter(Tail(q), e, m)
    BY <1>1, NoneAfterTail
  <2>4. \A z \in {e, f, g} : Absent(q, z) => Absent(Tail(q), z)
    BY <1>1, AbsentTail
  <2> QED BY <1>6, <1>8, <2>1, <2>2, <2>3, <2>4 DEF Upload, m, e, f, g
<1>12. Down(x, r, d, Backlog')
  BY <1>5, <1>6, <1>8, DownClient DEF Over
<1> QED BY <1>1, <1>3, <1>5, <1>6, <1>10, <1>11, <1>12, ClientFrame DEF q, r, k, c, a, Msg

\* A chunk reaches the local request, or the upgraded connection.
LEMMA FedFInv ==
  ASSUME FInv, IInv, toClient # <<>>, link.client # 0, toClient' = Tail(toClient),
         UNCHANGED <<srv, link>>, NEW x, x = Head(toClient).id, Fed(x),
         \/ Head(toClient).ev = "request-pipe" /\ cli[x].req = "open"
         \/ Head(toClient).ev = "response-pipe" /\ cli[x].res = "open"
  PROVE  FInv'
<1> DEFINE c == cli[x]
           r == srv[x]
           q == toClient
           k == link.client
           a == Msg("request", x)
           m == Msg("request-pipe", x)
           e == Msg("request-pipe-end", x)
           f == Msg("response-pipe", x)
           g == Msg("response-pipe-end", x)
           d == [c EXCEPT !.fed = c.fed + 1]
<1>1. /\ x \in Ids /\ q \in Seq(Message) /\ q # <<>> /\ r \in Record
      /\ c \in ClientRecord /\ Announced(x, c, q) /\ Upload(x, r, c, q, k)
      /\ r.conn = k /\ k # 0
  BY ReceiveParts
<1>2. (Head(q) = m /\ c.req = "open") \/ (Head(q) = f /\ c.res = "open")
  BY ReceiveParts
<1>3. SetClient(x, d) /\ UNCHANGED <<toServer, held>>
  BY DEF Fed
<1>4. /\ <<>> \in Seq(Event) /\ Absent(<<>>, "response-pipe") /\ Absent(<<>>, "response-pipe-end")
  BY QuietEvents, EmptyParts
<1>5. /\ toServer' \in Seq(Message) /\ held' \in Seq(Message)
      /\ link.client # 0 => held' = <<>>
      /\ \A y \in Ids \ {x} : Down(y, srv[y], cli[y], Backlog')
      /\ Down(x, r, c, Backlog')
  BY <1>1, <1>3, <1>4, ClientSaysParts
<1>6. /\ d \in ClientRecord /\ d.app = c.app /\ d.req = c.req /\ d.res = c.res
      /\ d.made = c.made /\ d.fed = c.fed + 1 /\ c.fed \in Nat
  BY <1>1 DEF ClientRecord
<1>7. a # m /\ a # f /\ m # f
  BY DEF Msg
<1> HIDE DEF d, c, r, a, m, e, f, g, q, k
<1>8. c.app # "none"
  BY <1>1, <1>2 DEF Announced, Upload
<1>9. Announced(x, c, Tail(q))
  BY <1>1, <1>2, <1>7, AnnouncedTail DEF a
<1>10. Announced(x, d, Tail(q))
  BY <1>6, <1>9 DEF Announced
<1>11. Upload(x, r, d, Tail(q), k)
  <2>1. CASE r.ws
    BY <1>1, <1>6, <1>8, <2>1 DEF Upload
  <2>2. CASE ~r.ws
    <3>1. Head(q) = m /\ c.req = "open"
      <4>1. Absent(q, f)
        BY <1>1, <2>2 DEF Upload, f
      <4> QED BY <1>1, <1>2, <4>1, AbsentTail
    <3>2. /\ c.fed + Count(q, m) = r.up /\ NoneAfter(q, e, m)
          /\ r.upl # "ended" => Absent(q, e)
          /\ Absent(q, f) /\ Absent(q, g) /\ c.app # "closing"
      BY <1>1, <2>2, <3>1 DEF Upload, m, e, f, g
    <3>3. Count(q, m) = Count(Tail(q), m) + 1 /\ Count(Tail(q), m) \in Nat
      <4>1. Tail(q) \in Seq(Message)
        BY <1>1, TailParts
      <4> QED BY <1>1, <3>1, <4>1, CountTail, CountType
    <3>4. d.fed + Count(Tail(q), m) = r.up
      BY <1>6, <3>2, <3>3
    <3>5. NoneAfter(Tail(q), e, m)
      BY <1>1, <3>2, NoneAfterTail
    <3>6. \A z \in {e, f, g} : Absent(q, z) => Absent(Tail(q), z)
      BY <1>1, AbsentTail
    <3> QED BY <1>1, <1>6, <1>8, <3>1, <3>2, <3>4, <3>5, <3>6 DEF Upload, m, e, f, g
  <2> QED BY <2>1, <2>2
<1>12. Down(x, r, d, Backlog')
  BY <1>5, <1>6, <1>8, DownClient
<1> QED BY <1>1, <1>3, <1>5, <1>6, <1>10, <1>11, <1>12, ClientFrame DEF q, r, k, c

\* The body of the request is complete.
LEMMA RequestEndFInv ==
  ASSUME FInv, IInv, toClient # <<>>, link.client # 0, toClient' = Tail(toClient),
         UNCHANGED <<srv, link, toServer, held>>, NEW x, x = Head(toClient).id,
         Head(toClient).ev = "request-pipe-end", cli[x].req = "open",
         SetClient(x, [cli[x] EXCEPT !.req = "done"])
  PROVE  FInv'
<1> DEFINE c == cli[x]
           r == srv[x]
           q == toClient
           k == link.client
           a == Msg("request", x)
           m == Msg("request-pipe", x)
           e == Msg("request-pipe-end", x)
           f == Msg("response-pipe", x)
           g == Msg("response-pipe-end", x)
           d == [c EXCEPT !.req = "done"]
<1>1. /\ x \in Ids /\ q \in Seq(Message) /\ q # <<>> /\ r \in Record
      /\ c \in ClientRecord /\ Announced(x, c, q) /\ Upload(x, r, c, q, k)
      /\ r.conn = k /\ k # 0
  BY ReceiveParts
<1>2. Head(q) = e /\ c.req = "open"
  BY ReceiveParts
<1>3. SetClient(x, d) /\ UNCHANGED <<toServer, held>>
  OBVIOUS
<1>4. /\ <<>> \in Seq(Event) /\ Absent(<<>>, "response-pipe") /\ Absent(<<>>, "response-pipe-end")
  BY QuietEvents, EmptyParts
<1>5. /\ toServer' \in Seq(Message) /\ held' \in Seq(Message)
      /\ link.client # 0 => held' = <<>>
      /\ \A y \in Ids \ {x} : Down(y, srv[y], cli[y], Backlog')
      /\ Down(x, r, c, Backlog')
  BY <1>1, <1>3, <1>4, ClientSaysParts
<1>6. /\ d \in ClientRecord /\ d.app = c.app /\ d.req = "done" /\ d.res = c.res
      /\ d.made = c.made /\ d.fed = c.fed /\ c.fed \in Nat
  BY <1>1 DEF ClientRecord, Stream
<1>7. a # e /\ m # e
  BY DEF Msg
<1> HIDE DEF d, c, r, a, m, e, f, g, q, k
<1>8. c.app # "none"
  BY <1>1, <1>2 DEF Announced
<1>9. Announced(x, c, Tail(q))
  BY <1>1, <1>2, <1>7, AnnouncedTail DEF a
<1>10. Announced(x, d, Tail(q))
  BY <1>6, <1>8, <1>9 DEF Announced
<1>11. Upload(x, r, d, Tail(q), k)
  <2>1. CASE r.ws
    BY <1>1, <1>6, <1>8, <2>1 DEF Upload
  <2>2. CASE ~r.ws
    <3>2. /\ c.fed + Count(q, m) = r.up /\ NoneAfter(q, e, m)
          /\ r.upl # "ended" => Absent(q, e)
          /\ Absent(q, f) /\ Absent(q, g) /\ c.app # "closing"
      BY <1>1, <1>2, <2>2 DEF Upload, m, e, f, g
    <3>3. Absent(Tail(q), m) /\ NoneAfter(Tail(q), e, m)
      BY <1>1, <1>2, <3>2, NoneAfterTail
    <3>4. Count(q, m) = Count(Tail(q), m)
      BY <1>1, <1>2, <1>7, CountTail
    <3>5. Count(Tail(q), m) = 0
      <4>1. Tail(q) \in Seq(Message)
        BY <1>1, TailParts
      <4> QED BY <3>3, <4>1, CountType
    <3>6. d.fed = r.up
      BY <1>6, <3>2, <3>4, <3>5
    <3>7. r.upl = "ended"
      BY <1>1, <1>2, <3>2, AbsentTail
    <3>8. \A z \in {e, f, g} : Absent(q, z) => Absent(Tail(q), z)
      BY <1>1, AbsentTail
    <3> QED BY <1>1, <1>6, <1>8, <3>2, <3>3, <3>6, <3>7, <3>8 DEF Upload, m, e, f, g
  <2> QED BY <2>1, <2>2
<1>12. Down(x, r, d, Backlog')
  BY <1>5, <1>6, <1>8, DownClient
<1> QED BY <1>1, <1>3, <1>5, <1>6, <1>10, <1>11, <1>12, ClientFrame DEF q, r, k, c

\* The visitor's side of an upgraded connection is over.
LEMMA ResponseEndFInv ==
  ASSUME FInv, IInv, toClient # <<>>, link.client # 0, toClient' = Tail(toClient),
         UNCHANGED <<srv, link>>, NEW x, x = Head(toClient).id,
         Head(toClient).ev = "response-pipe-end", cli[x].res = "open", cli[x].app # "closing",
         OnResponsePipeEndLocally(x)
  PROVE  FInv'
<1> DEFINE c == cli[x]
           r == srv[x]
           q == toClient
           k == link.client
           a == Msg("request", x)
           m == Msg("request-pipe", x)
           g == Msg("response-pipe-end", x)
           d == [c EXCEPT !.app = "closing"]
<1>1. /\ x \in Ids /\ q \in Seq(Message) /\ q # <<>> /\ r \in Record
      /\ c \in ClientRecord /\ Announced(x, c, q) /\ Upload(x, r, c, q, k)
  BY ReceiveParts
<1>2. Head(q) = g /\ c.res = "open" /\ c.app # "closing"
  BY ReceiveParts
<1>3. SetClient(x, d) /\ UNCHANGED <<toServer, held>>
  BY DEF OnResponsePipeEndLocally
<1>4. /\ <<>> \in Seq(Event) /\ Absent(<<>>, "response-pipe") /\ Absent(<<>>, "response-pipe-end")
  BY QuietEvents, EmptyParts
<1>5. /\ toServer' \in Seq(Message) /\ held' \in Seq(Message)
      /\ link.client # 0 => held' = <<>>
      /\ \A y \in Ids \ {x} : Down(y, srv[y], cli[y], Backlog')
      /\ Down(x, r, c, Backlog')
  BY <1>1, <1>3, <1>4, ClientSaysParts
<1>6. /\ d \in ClientRecord /\ d.app = "closing" /\ d.req = c.req /\ d.res = c.res
      /\ d.made = c.made /\ d.fed = c.fed
  BY <1>1 DEF ClientRecord
<1>7. a # g /\ m # g
  BY DEF Msg
<1> HIDE DEF d, c, r, a, m, g, q, k
<1>8. c.app \in {"replying", "socket"} /\ r.ws
  <2>1. ~Absent(q, g)
    BY <1>1, <1>2, AbsentTail
  <2> QED BY <1>1, <1>2, <2>1 DEF Upload, g
<1>9. Announced(x, c, Tail(q)) /\ Upload(x, r, c, Tail(q), k)
  BY <1>1, <1>2, <1>7, AnnouncedTail, UploadTail DEF a, m
<1>10. Announced(x, d, Tail(q))
  BY <1>6, <1>8, <1>9 DEF Announced
<1>11. Upload(x, r, d, Tail(q), k)
  BY <1>6, <1>8, <1>9, UploadClient
<1>12. Down(x, r, d, Backlog')
  BY <1>5, <1>6, <1>8, DownClient DEF Over
<1> QED BY <1>1, <1>3, <1>5, <1>6, <1>10, <1>11, <1>12, ClientFrame DEF q, r, k, c

LEMMA ClientReceivesFInv ==
  ASSUME FInv, IInv, ClientReceives
  PROVE  FInv'
<1> DEFINE h == Head(toClient)
           x == h.id
           c == cli[x]
           toRequest == h.ev \in {"request-pipe", "request-pipe-end", "request-pipe-error"}
<1>1. /\ toClient # <<>> /\ link.client # 0 /\ toClient' = Tail(toClient) /\ UNCHANGED <<srv, link>>
  BY DEF ClientReceives
<1>2. /\ x \in Ids /\ h.ev \in Event /\ h = Msg(h.ev, x) /\ toClient \in Seq(Message)
      /\ Announced(x, c, toClient) /\ Upload(x, srv[x], c, toClient, link.client)
  BY <1>1, ReceiveParts
<1>3. CASE h.ev = "request"
  <2>1. OnRequest(x)
    BY <1>3 DEF ClientReceives
  <2> QED BY <1>1, <1>3, <2>1, OnRequestFInv
<1>4. CASE h.ev # "request" /\ ((IF toRequest THEN c.req ELSE c.res) # "open" \/ c.app = "closing")
  <2>1. UNCHANGED <<cli, toServer, held>>
    BY <1>4 DEF ClientReceives
  <2> QED BY <1>1, <1>4, <2>1, IgnoredFInv
<1>5. CASE h.ev # "request" /\ ~((IF toRequest THEN c.req ELSE c.res) # "open" \/ c.app = "closing")
  <2>0. /\ h.ev \in {"request-pipe", "response-pipe"} => Fed(x)
        /\ h.ev = "request-pipe-end" =>
             SetClient(x, [c EXCEPT !.req = "done"]) /\ UNCHANGED <<toServer, held>>
        /\ h.ev = "response-pipe-end" => OnResponsePipeEndLocally(x)
        /\ h.ev \notin {"request-pipe", "response-pipe", "request-pipe-end", "response-pipe-end"} =>
             LocalStops(x, c)
    BY <1>5 DEF ClientReceives
  <2>1. CASE h.ev \in {"request-pipe", "response-pipe"}
    BY <1>1, <1>5, <2>0, <2>1, FedFInv
  <2>2. CASE h.ev = "request-pipe-end"
    BY <1>1, <1>5, <2>0, <2>2, RequestEndFInv
  <2>3. CASE h.ev = "response-pipe-end"
    BY <1>1, <1>5, <2>0, <2>3, ResponseEndFInv
  <2>4. CASE h.ev \notin {"request-pipe", "response-pipe", "request-pipe-end", "response-pipe-end"}
    <3>1. c.app # "none"
      BY <1>2, <1>5 DEF Announced, Upload
    <3>2. h # Msg("request", x) /\ h # Msg("request-pipe", x)
      BY <1>5, <2>4 DEF Msg
    <3>3. Announced(x, c, toClient') /\ Upload(x, srv[x], c, toClient', link.client)
      <4> HIDE DEF c, x
      <4> QED BY <1>1, <1>2, <3>2, AnnouncedTail, UploadTail
    <3> QED BY <1>1, <1>2, <2>0, <2>4, <3>1, <3>3, LocalStopsFInv
  <2> QED BY <2>1, <2>2, <2>3, <2>4
<1> QED BY <1>3, <1>4, <1>5

-----------------------------------------------------------------------------
(* Connections come and go.                                                *)
LEMMA SetToSeqParts ==
  ASSUME NEW S, IsFiniteSet(S)
  PROVE  SetToSeq(S) \in Seq(S)
<1> DEFINE n == Cardinality(S)
<1>1. n \in Nat /\ ExistsBijection(1..n, S)
  BY FS_CardinalityType
<1> HIDE DEF n
<1>2. \E f \in [1..n -> S] : IsInjective(f)
  BY <1>1 DEF ExistsBijection, Bijection, Injection
<1>3. SetToSeq(S) \in [1..n -> S]
  <2>1. SetToSeq(S) = CHOOSE f \in [1..n -> S] : IsInjective(f)
    BY DEF SetToSeq, n
  <2> QED BY <1>2, <2>1
<1> QED BY <1>1, <1>3, SeqDef

\* The refusals a client is left with: one message per exchange it was working on.
LEMMA RefusalParts ==
  ASSUME NEW refused, refused \subseteq Ids
  PROVE  LET p == SetToSeq({[ev |-> "request-error", id |-> x] : x \in refused})
         IN  /\ p \in Seq(Message)
             /\ \A x : Absent(p, Msg("response-pipe", x)) /\ Absent(p, Msg("response-pipe-end", x))
<1> DEFINE S == {[ev |-> "request-error", id |-> x] : x \in refused}
           p == SetToSeq(S)
           f == [x \in refused |-> [ev |-> "request-error", id |-> x]]
<1>1. IsFiniteSet(refused)
  BY ExchangeAssumption, FS_Subset
<1>2. f \in Bijection(refused, S)
  <2>1. f \in [refused -> S] /\ \A s \in S : \E x \in refused : f[x] = s
    OBVIOUS
  <2>2. \A x, y \in refused : f[x] = f[y] => x = y
    <3> SUFFICES ASSUME NEW x \in refused, NEW y \in refused, f[x] = f[y] PROVE x = y
      OBVIOUS
    <3>1. f[x].id = x /\ f[y].id = y
      OBVIOUS
    <3> QED BY <3>1
  <2> HIDE DEF f, S
  <2>3. f \in Injection(refused, S)
    BY <2>1, <2>2 DEF Injection, IsInjective
  <2>4. f \in Surjection(refused, S)
    BY <2>1 DEF Surjection
  <2> QED BY <2>3, <2>4 DEF Bijection
<1>3. S \subseteq Message /\ \A s \in S : s.ev = "request-error"
  BY DEF Message, Event
<1> HIDE DEF f, S
<1>4. IsFiniteSet(S)
  BY <1>1, <1>2, FS_Bijection DEF ExistsBijection
<1>5. p \in Seq(S)
  BY <1>4, SetToSeqParts
<1> HIDE DEF p
<1>6. Len(p) \in Nat /\ \A i \in 1..Len(p) : p[i] \in S
  BY <1>5, LenProperties, ElementOfSeq
<1>7. p \in Seq(Message)
  <2>1. p \in [1..Len(p) -> S]
    BY <1>5, LenProperties
  <2>2. p \in [1..Len(p) -> Message]
    BY <1>3, <2>1
  <2> QED BY <1>6, <2>2, SeqDef
<1>8. \A x : Absent(p, Msg("response-pipe", x)) /\ Absent(p, Msg("response-pipe-end", x))
  BY <1>3, <1>6 DEF Absent, Msg
<1> QED BY <1>7, <1>8 DEF p, S

\* The messages under way to a client are lost with its connection.
LEMMA LostOnTheWay ==
  ASSUME NEW x, NEW r, NEW c, NEW q, NEW k
  PROVE  /\ Announced(x, c, q) => Announced(x, c, <<>>)
         /\ Upload(x, r, c, q, k) => Upload(x, r, c, <<>>, 0)
<1>1. Announced(x, c, q) => Announced(x, c, <<>>)
  BY EmptyParts DEF Announced
<1>2. Upload(x, r, c, q, k) => Upload(x, r, c, <<>>, 0)
  BY EmptyParts DEF Upload
<1> QED BY <1>1, <1>2

LEMMA ClientLosesFInv ==
  ASSUME FInv, IInv, ClientLoses
  PROVE  FInv'
<1> DEFINE hit == {x \in Ids : link.armed /\ (cli[x].req = "open" \/ (cli[x].res = "open" /\ cli[x].app # "closing"))}
           refused == {x \in hit : cli[x].app = "working"}
           p == SetToSeq({[ev |-> "request-error", id |-> x] : x \in refused})
<1>1. /\ cli' = [x \in Ids |-> IF x \notin hit THEN cli[x]
                   ELSE [cli[x] EXCEPT !.app = "stopped", !.req = Destroyed(@), !.res = Destroyed(@)]]
      /\ held' = held \o p /\ toClient' = <<>> /\ link.client # 0
      /\ link' = [link EXCEPT !.client = 0, !.armed = FALSE] /\ srv' = srv /\ toServer' = toServer
  BY DEF ClientLoses
<1>2. /\ p \in Seq(Message)
      /\ \A x : Absent(p, Msg("response-pipe", x)) /\ Absent(p, Msg("response-pipe-end", x))
  BY RefusalParts
<1>3. QueuesOK /\ LinksOK /\ (\A x \in Ids : Whole(x)) /\ LinkOK
  BY DEF FInv, IInv
<1>h. \A x \in hit : x \in Ids /\ (cli[x].req = "open" \/ cli[x].res = "open")
  OBVIOUS
<1> HIDE DEF p, hit
<1>4. /\ link'.client = 0 /\ link'.server = link.server /\ link'.count = link.count
      /\ link.server \in Nat /\ link.count \in Nat
  BY <1>1, <1>3 DEF LinkOK
<1>5. /\ held' \in Seq(Message) /\ toServer \in Seq(Message) /\ Backlog = toServer
      /\ Backlog' = Backlog \o p /\ Backlog \in Seq(Message)
  <2>1. held = <<>> /\ toServer \in Seq(Message)
    BY <1>1, <1>3 DEF QueuesOK, LinksOK
  <2>2. toServer \o <<>> = toServer /\ <<>> \o p = p
    BY <1>2, <2>1, ConcatEmptySeq
  <2> QED BY <1>1, <1>2, <2>1, <2>2 DEF Backlog
<1>6. ASSUME NEW x \in Ids
      PROVE  /\ cli'[x] \in ClientRecord
             /\ Down(x, srv[x], cli'[x], Backlog') /\ Announced(x, cli'[x], <<>>)
             /\ Upload(x, srv[x], cli'[x], <<>>, 0)
  <2> DEFINE c == cli[x]
             r == srv[x]
  <2>1. /\ c \in ClientRecord /\ Down(x, r, c, Backlog) /\ Announced(x, c, toClient)
        /\ Upload(x, r, c, toClient, link.client)
    BY <1>3 DEF QueuesOK, Whole
  <2>2. /\ Announced(x, c, <<>>) /\ Upload(x, r, c, <<>>, 0)
    BY <2>1, LostOnTheWay
  <2>3. Down(x, r, c, Backlog')
    BY <1>2, <1>5, <2>1, DownConcat
  <2>4. CASE x \notin hit
    BY <1>1, <2>1, <2>2, <2>3, <2>4
  <2>5. CASE x \in hit
    <3>1. c.app # "none"
      BY <1>h, <2>1, <2>5 DEF Announced, Upload
    <3>2. PICK d \in ClientRecord :
            /\ d = [c EXCEPT !.app = "stopped", !.req = Destroyed(@), !.res = Destroyed(@)]
            /\ d.app = "stopped" /\ (d.req = "none" <=> c.req = "none")
            /\ d.req = c.req \/ d.req = "destroyed"
            /\ d.res # "open" /\ d.made = c.made /\ d.fed = c.fed
      BY <2>1, <3>1, StopsParts
    <3>3. cli'[x] = d
      BY <1>1, <2>5, <3>2
    <3> HIDE DEF c, r
    <3>4. Announced(x, d, <<>>)
      BY <2>2, <3>1, <3>2 DEF Announced
    <3>5. Upload(x, r, d, <<>>, 0)
      BY <2>2, <3>1, <3>2, UploadClient
    <3>6. Down(x, r, d, Backlog')
      BY <2>3, <3>1, <3>2, DownClient DEF Over
    <3> QED BY <3>3, <3>4, <3>5, <3>6 DEF r
  <2> QED BY <2>4, <2>5
<1>7. QueuesOK'
  <2>1. cli' = [x \in Ids |-> cli'[x]]
    BY <1>1
  <2> QED BY <1>1, <1>5, <1>6, <2>1, EmptySeq DEF QueuesOK
<1>8. LinksOK'
  <2>1. 0 <= link.count
    BY <1>4
  <2>2. Len(toClient') = 0
    BY <1>1
  <2>3. 1..Len(toClient') = {}
    BY <2>2
  <2> QED BY <1>1, <1>3, <1>4, <2>1, <2>3 DEF LinksOK
<1>9. \A x \in Ids : Whole(x)'
  BY <1>1, <1>4, <1>6 DEF Whole
<1> QED BY <1>7, <1>8, <1>9 DEF FInv

\* A response that is not open cares only for what is still under way.
LEMMA DownSuffix ==
  ASSUME NEW x, NEW r, NEW c, NEW q \in Seq(Message), NEW p \in Seq(Message), Down(x, r, c, q \o p), r.res # "open"
  PROVE  Down(x, r, c, p)
<1> DEFINE m == Msg("response-pipe", x)
           e == Msg("response-pipe-end", x)
<1> HIDE DEF m, e
<1>1. /\ NoneAfter(q \o p, e, m) => NoneAfter(p, e, m)
      /\ Absent(q \o p, m) => Absent(p, m)
      /\ Absent(q \o p, e) => Absent(p, e)
  BY NoneAfterConcat, AbsentConcat
<1> QED BY <1>1 DEF Down, m, e

\* The loss of a connection fails the responses that are open on it, whatever else.
LEMMA LossKeeps ==
  ASSUME FInv, IInv, NEW x \in Ids
  PROVE  Keeps(srv[x], AfterServerLoss[x]) /\ AfterServerLoss[x].res # "open"
<1> DEFINE r == srv[x]
           req == IF r.req = "open" THEN "destroyed" ELSE r.req
           res == IF r.res = "open" THEN "destroyed" ELSE r.res
           halves == [r EXCEPT !.req = req, !.res = res]
<1>1. r \in Record /\ Keeps(r, r) /\ (r.res = "open" => r.vis # "ended")
  BY KeepsSelf DEF IInv, Sound
<1>2. \/ r.head = "101" /\ r.res = "open" /\ AfterServerLoss[x] = Recorded(Closed(r, "bad"))
      \/ AfterServerLoss[x] = halves
  BY DEF AfterServerLoss
<1>3. (res = r.res \/ (r.res = "open" /\ res = "destroyed")) /\ res # "open"
  OBVIOUS
<1> HIDE DEF req, res, r
<1>4. Keeps(r, Recorded(Closed(r, "bad"))) /\ Closed(r, "bad").res # "open"
  BY <1>1, ClosedParts, KeepsClosed, KeepsRecorded
<1>5. Keeps(r, halves) /\ halves.res # "open"
  BY <1>1, <1>3 DEF Keeps, Record
<1>6. AfterServerLoss[x].res # "open"
  BY LossParts DEF Sound, IInv
<1> QED BY <1>2, <1>4, <1>5, <1>6 DEF r

\* What the server is left with when its connection is gone.
LEMMA AfterLossWhole ==
  ASSUME FInv, IInv, NEW x \in Ids, NEW s, s = AfterServerLoss[x] \/ (s = srv[x] /\ link.server = 0)
  PROVE  /\ Keeps(srv[x], s) /\ Down(x, s, cli[x], held)
         /\ Upload(x, s, cli[x], toClient, link.client)
<1>1. Keeps(srv[x], s) /\ s.res # "open"
  BY LossKeeps, KeepsSelf DEF IInv, Sound
<1>2. /\ Down(x, srv[x], cli[x], Backlog) /\ Upload(x, srv[x], cli[x], toClient, link.client)
      /\ toServer \in Seq(Message) /\ held \in Seq(Message)
  BY DEF FInv, QueuesOK, Whole
<1>3. Down(x, s, cli[x], Backlog) /\ Upload(x, s, cli[x], toClient, link.client)
  BY <1>1, <1>2, KeepsWhole
<1>4. Down(x, s, cli[x], held)
  BY <1>1, <1>2, <1>3, DownSuffix DEF Backlog
<1> QED BY <1>1, <1>3, <1>4

LEMMA ServerLosesFInv ==
  ASSUME FInv, IInv, ServerLoses
  PROVE  FInv'
<1>1. /\ srv' = AfterServerLoss /\ toServer' = <<>> /\ link' = [link EXCEPT !.server = 0]
      /\ cli' = cli /\ toClient' = toClient /\ held' = held
  BY DEF ServerLoses
<1>2. QueuesOK /\ LinksOK /\ LinkOK /\ (\A x \in Ids : Whole(x))
  BY DEF FInv, IInv
<1>3. /\ link'.server = 0 /\ link'.client = link.client /\ link'.count = link.count
      /\ link.count \in Nat /\ link.client \in Nat
  BY <1>1, <1>2 DEF LinkOK
<1>4. Backlog' = held
  <2>1. held \in Seq(Message)
    BY <1>2 DEF QueuesOK
  <2>2. <<>> \o held = held
    BY <2>1, ConcatEmptySeq
  <2> QED BY <1>1, <2>2 DEF Backlog
<1>5. \A x \in Ids : srv'[x].conn = srv[x].conn
  BY <1>1, LossKeeps DEF Keeps
<1>6. QueuesOK'
  BY <1>1, <1>2, EmptySeq DEF QueuesOK
<1>7. LinksOK'
  <2>1. \A i \in 1..Len(toClient) : toClient[i].id \in Ids
    <3>1. \A i \in 1..Len(toClient) : toClient[i] \in Message
      BY <1>2, ElementOfSeq DEF QueuesOK
    <3> QED BY <3>1 DEF Message
  <2> QED BY <1>1, <1>2, <1>3, <1>5, <2>1 DEF LinksOK
<1>8. ASSUME NEW x \in Ids PROVE Whole(x)'
  <2>1. Down(x, srv'[x], cli[x], held) /\ Upload(x, srv'[x], cli[x], toClient, link.client)
    BY <1>1, AfterLossWhole
  <2>2. Announced(x, cli[x], toClient)
    BY <1>2 DEF Whole
  <2> QED BY <1>1, <1>3, <1>4, <2>1, <2>2 DEF Whole
<1> QED BY <1>6, <1>7, <1>8 DEF FInv

LEMMA ReconnectFInv ==
  ASSUME FInv, IInv, Reconnect
  PROVE  FInv'
<1> DEFINE k == link.count + 1
<1>1. /\ srv' = (IF link.server = 0 THEN srv ELSE AfterServerLoss)
      /\ link' = [link EXCEPT !.server = k, !.client = k, !.count = k] /\ link.client = 0
      /\ cli' = cli /\ toClient' = toClient /\ toServer' = held /\ held' = <<>>
  BY DEF Reconnect
<1>2. QueuesOK /\ LinksOK /\ LinkOK /\ (\A x \in Ids : Whole(x) /\ srv[x] \in Record)
  BY DEF FInv, IInv, Sound
<1>3. link.count \in Nat /\ k \in Nat /\ k # 0 /\ toClient = <<>>
  BY <1>1, <1>2 DEF LinkOK, LinksOK
<1>c. \A x \in Ids : srv[x].conn <= k /\ srv[x].conn # k
  BY <1>2, <1>3 DEF LinksOK, Record
<1>k. k <= k
  BY <1>3
<1> HIDE DEF k
<1>4. link'.server = k /\ link'.client = k /\ link'.count = k
  BY <1>1, <1>2 DEF LinkOK
<1>5. Backlog' = held
  <2>1. held \in Seq(Message)
    BY <1>2 DEF QueuesOK
  <2>2. held \o <<>> = held
    BY <2>1, ConcatEmptySeq
  <2> QED BY <1>1, <2>2 DEF Backlog
<1>6. ASSUME NEW x \in Ids
      PROVE  Keeps(srv[x], srv'[x]) /\ Down(x, srv'[x], cli[x], held) /\ Upload(x, srv'[x], cli[x], toClient, 0)
  BY <1>1, AfterLossWhole
<1>7. \A x \in Ids : srv'[x].conn = srv[x].conn
  BY <1>6 DEF Keeps
<1>8. QueuesOK'
  BY <1>1, <1>2, EmptySeq DEF QueuesOK
<1>9. LinksOK'
  BY <1>1, <1>3, <1>4, <1>7, <1>c, <1>k DEF LinksOK
<1>10. ASSUME NEW x \in Ids PROVE Whole(x)'
  <2>1. Upload(x, srv'[x], cli[x], toClient, k)
    BY <1>6, <1>7, <1>c DEF Upload
  <2>2. Announced(x, cli[x], toClient)
    BY <1>2 DEF Whole
  <2> QED BY <1>1, <1>4, <1>5, <1>6, <2>1, <2>2 DEF Whole
<1> QED BY <1>8, <1>9, <1>10 DEF FInv

LEMMA InitFInv == ASSUME Init PROVE FInv
<1> DEFINE r == [ws |-> FALSE, vis |-> "new", upl |-> "open", head |-> "none", req |-> "none",
                 res |-> "none", conn |-> 0, up |-> 0, got |-> 0, recorded |-> 0, bytes |-> 0,
                 sent |-> 0, early |-> FALSE]
           c == [req |-> "none", res |-> "none", made |-> 0, fed |-> 0, app |-> "none"]
<1>1. /\ srv = [x \in Ids |-> r] /\ cli = [x \in Ids |-> c]
      /\ toClient = <<>> /\ toServer = <<>> /\ held = <<>>
      /\ link = [server |-> 1, client |-> 1, count |-> 1, armed |-> TRUE]
  BY DEF Init
<1>2. <<>> \in Seq(Message) /\ Backlog = <<>>
  BY <1>1, EmptySeq, ConcatEmptySeq DEF Backlog
<1>3. c \in ClientRecord /\ c.app = "none" /\ c.req = "none" /\ c.res = "none" /\ c.made = 0 /\ c.fed = 0
  BY DEF ClientRecord, Stream
<1>4. /\ r.vis = "new" /\ r.conn = 0 /\ r.got = 0 /\ r.up = 0 /\ r.head = "none" /\ r.res = "none"
  OBVIOUS
<1> HIDE DEF r, c
<1>5. QueuesOK
  BY <1>1, <1>2, <1>3 DEF QueuesOK
<1>6. LinksOK
  <2>1. link.server = 1 /\ link.client = 1 /\ link.count = 1 /\ Len(toClient) = 0
    BY <1>1
  <2> QED BY <1>1, <1>4, <2>1 DEF LinksOK
<1>7. \A x : Down(x, r, c, <<>>) /\ Announced(x, c, <<>>) /\ Upload(x, r, c, <<>>, 1)
  <2>1. \A x : Down(x, r, c, <<>>)
    BY <1>3, <1>4, EmptyParts DEF Down
  <2>2. \A x : Announced(x, c, <<>>)
    BY <1>3, EmptyParts DEF Announced
  <2>3. \A x : Upload(x, r, c, <<>>, 1)
    BY <1>3, <1>4, EmptyParts DEF Upload
  <2> QED BY <2>1, <2>2, <2>3
<1>8. \A x \in Ids : Whole(x)
  <2>1. link.client = 1
    BY <1>1
  <2> QED BY <1>1, <1>2, <1>7, <2>1 DEF Whole
<1> QED BY <1>5, <1>6, <1>8 DEF FInv

LEMMA StepFInv == ASSUME FInv, IInv, [Next]_vars PROVE FInv'
<1>1. ASSUME NEW x \in Ids,
             NotFound(x) \/ (\E ws \in BOOLEAN : Visit(x, ws)) \/ ServerStep(x) \/ VisitorLeaves(x)
               \/ UpgradeLeaves(x) \/ UpgradeLeavesEarly(x)
      PROVE  FInv'
  BY <1>1, NotFoundFInv, VisitFInv, VisitorSendsFInv, UploadEndsFInv, VisitorLeavesFInv DEF ServerStep
<1>2. ASSUME NEW x \in Ids, App(x) \/ AppFails(x) PROVE FInv'
  BY <1>2, AppRepliesFInv, AppSendsFInv, AppEndsFInv, AppFailsFInv DEF App
<1>3. CASE ServerReceives \/ ClientReceives
  BY <1>3, ServerReceivesFInv, ClientReceivesFInv
<1>4. CASE ServerLoses \/ ClientLoses \/ Reconnect
  BY <1>4, ServerLosesFInv, ClientLosesFInv, ReconnectFInv
<1>5. CASE UNCHANGED vars
  BY <1>5 DEF vars, FInv, QueuesOK, LinksOK, Whole, Backlog
<1> QED BY <1>1, <1>2, <1>3, <1>4, <1>5 DEF Next

\* A body that ends cleanly is complete, for any number of exchanges, chunks and
\* connections, whatever is lost with them: a visitor whose response has ended got
\* all that the application produced (handleTunnelRequest's "response-pipe-end"),
\* and a local request whose body has ended got all that the visitor sent.
THEOREM CleanEndsAreComplete == Spec => []CleanEndIsComplete
<1>1. IInv /\ FInv /\ [Next]_vars => FInv'
  BY StepFInv
<1>2. FInv => CleanEndIsComplete
  <2> SUFFICES ASSUME FInv, NEW x \in Ids
               PROVE  /\ srv[x].vis = "ended" => srv[x].got = cli[x].made /\ cli[x].app \in {"done", "stopped"}
                      /\ x \notin Upgrades /\ cli[x].req = "done" => cli[x].fed = srv[x].up
    BY DEF CleanEndIsComplete
  <2>1. Down(x, srv[x], cli[x], Backlog) /\ Upload(x, srv[x], cli[x], toClient, link.client)
    BY DEF FInv, Whole
  <2>2. srv[x].vis = "ended" => srv[x].got = cli[x].made /\ cli[x].app \in {"done", "stopped"}
    BY <2>1 DEF Down, Over
  <2>3. x \notin Upgrades /\ cli[x].req = "done" => cli[x].fed = srv[x].up
    BY <2>1 DEF Upload, Upgrades
  <2> QED BY <2>2, <2>3
<1>3. Spec => []FInv
  BY <1>1, InitFInv, IInvHolds, PTL DEF Spec
<1> QED BY <1>2, <1>3, PTL
=============================================================================
