---------------------------- MODULE AdminConsole ----------------------------
(***************************************************************************)
(* One tab of the admin console (web), and the server that issues and      *)
(* verifies its token and counts failed logins.  Requests are served and   *)
(* answered in any order.  Other tabs of the browser, which share the      *)
(* stored token, appear as what they do to it.                             *)
(*                                                                         *)
(* The console's four queries behave alike: one stands for them.  The tab  *)
(* fetches it also while it shows the login page: a page load and a render *)
(* start it whatever isAuthenticated says.  The query library runs one     *)
(* fetch of a query at a time; a fetch whose query was cleared or replaced *)
(* is "stale": its data is dropped, what its function does is not.         *)
(***************************************************************************)
EXTENDS Naturals, FiniteSets, Sequences

CONSTANTS
  MaxAttempts, \* LOGIN_MAX_ATTEMPTS
  Window,      \* LOGIN_WINDOW_MS, in ticks
  MaxTokens,   \* bound: successful logins
  MaxTries,    \* bound: failed logins
  MaxRemovals, \* bound: tunnels removed
  MaxStale     \* bound: stale fetches beside a new one

ASSUME AdminConsoleAssumption ==
  {MaxAttempts, Window, MaxTokens, MaxTries, MaxRemovals, MaxStale} \subseteq Nat /\ MaxAttempts > 0

VARIABLES
  auth,     \* isAuthenticated
  shown,    \* the version of the lists the tab shows, NoList without one
  stored,   \* the token in localStorage, or None
  sent,     \* requests on their way, with their answer once they have one
  issued,   \* the tokens issued are 1..issued
  expired,  \* those that have expired
  entry,    \* loginAttempts' entry of the browser's address; count 0 for none
  version,  \* removals done at the server
  failures, \* ages of the failed logins since the last success, up to Window
  tries

tab == <<auth, shown, stored>>
server == <<issued, expired, entry, version, failures, tries>>
vars == <<tab, sent, server>>

None == 0
NoList == MaxRemovals + 1
Valid == (1..issued) \ expired

Request ==
  [kind : {"fetch", "stale", "removal", "login"}, token : 0..MaxTokens, right : BOOLEAN,
   item : 0..MaxRemovals,
   reply : {"none", "ok", "unauthorized", "throttled"}, seen : 0..(MaxRemovals + MaxTokens)]

Of(kind) == {r \in sent : r.kind = kind}

TypeOK ==
  /\ auth \in BOOLEAN /\ shown \in 0..NoList /\ (shown # NoList => shown <= version)
  /\ stored \in 0..issued /\ issued \in 0..MaxTokens /\ expired \subseteq 1..issued
  /\ sent \subseteq Request /\ version \in 0..MaxRemovals
  /\ Cardinality(Of("login")) <= 1 /\ Cardinality(Of("removal")) <= MaxRemovals
  /\ entry.count \in 0..MaxAttempts /\ entry.age \in 0..(Window + 1)
  /\ failures \in Seq(0..Window) /\ tries \in 0..MaxTries

Init ==
  /\ auth = FALSE /\ shown = NoList /\ stored = None /\ sent = {}
  /\ issued = 0 /\ expired = {} /\ version = 0
  /\ entry = [count |-> 0, age |-> 0] /\ failures = <<>> /\ tries = 0

-----------------------------------------------------------------------------
(* The browser.                                                            *)

\* getStoredToken() as a request is made.
Carried == stored

\* apiRequest.
New(kind, right) ==
  [kind |-> kind, token |-> Carried, right |-> right, item |-> 0, reply |-> "none", seen |-> 0]

\* The page is loaded, its requests aborted: signed in if a token is stored.
Load ==
  /\ auth' = (stored # None) /\ shown' = NoList /\ sent' = {}
  /\ UNCHANGED <<stored, server>>

\* useQuery: a fetch starts by itself, in a signed-in tab on the refresh interval.
Fetch ==
  /\ Of("fetch") = {} /\ Cardinality(Of("stale")) <= MaxStale
  /\ sent' = sent \cup {New("fetch", FALSE)}
  /\ UNCHANGED <<tab, server>>

\* Mutated form: the form can be sent again while it waits.
SubmitAgain(right) ==
  /\ ~auth
  /\ IF right THEN issued < MaxTokens ELSE tries < MaxTries
  /\ sent' = sent \cup {New("login", right)}
  /\ UNCHANGED <<tab, server>>

\* LoginView, which keeps back a blank name or password and waits for the answer.
Submit(right) ==
  /\ ~auth /\ Of("login") = {}
  /\ IF right THEN issued < MaxTokens ELSE tries < MaxTries
  /\ sent' = sent \cup {New("login", right)}
  /\ UNCHANGED <<tab, server>>

\* Tunnel or client i of the shown lists is disconnected; its button waits for the
\* answer, those of the others do not.
Disconnect(i) ==
  /\ auth /\ shown # NoList /\ version < MaxRemovals
  /\ \A r \in Of("removal") : r.item # i
  /\ sent' = sent \cup {[New("removal", FALSE) EXCEPT !.item = i]}
  /\ UNCHANGED <<tab, server>>

\* A stale fetch that was answered well is nothing to anybody.
Needed(r) == r.kind = "stale" => r.reply # "ok"

\* queryClient.clear(): the fetch under way becomes stale.
Cleared(S) ==
  {r \in {IF q.kind = "fetch" THEN [q EXCEPT !.kind = "stale"] ELSE q : q \in S} : Needed(r)}

\* clearStoredAuth, and the event that leads to the login page.
SignOut(S) ==
  stored' = None /\ auth' = FALSE /\ shown' = NoList /\ sent' = Cleared(S)

Logout == auth /\ SignOut(sent) /\ UNCHANGED server

\* Mutated form: the fetch under way is left to finish.
RefetchedToo(S) == S \cup {New("fetch", FALSE)}

\* invalidateQueries after a removal: a fetch under way is replaced by a new one,
\* unless the query has no data yet.
Refetched(S) ==
  IF shown = NoList /\ \E r \in S : r.kind = "fetch" THEN S
  ELSE Cleared(S) \cup {New("fetch", FALSE)}

\* handleManualRefresh, whose buttons wait for a fetch under way.
Refresh ==
  /\ auth /\ Of("fetch") = {} /\ Cardinality(Of("stale")) <= MaxStale
  /\ sent' = Refetched(sent)
  /\ UNCHANGED <<tab, server>>

\* The answer to r reaches the tab.
Receive(r) ==
  LET rest == sent \ {r} IN
  /\ r.reply # "none"
  /\ \/ r.reply = "unauthorized" /\ SignOut(rest)
     \/ r.reply = "throttled" /\ sent' = rest /\ UNCHANGED tab
     \/ /\ r.reply = "ok" /\ r.kind = "login"
        /\ stored' = r.seen /\ auth' = TRUE /\ sent' = rest /\ UNCHANGED shown
     \/ /\ r.reply = "ok" /\ r.kind = "removal"
        /\ sent' = Refetched(rest) /\ UNCHANGED tab
     \/ /\ r.reply = "ok" /\ r.kind = "fetch"
        /\ shown' = r.seen /\ sent' = rest /\ UNCHANGED <<auth, stored>>
  /\ UNCHANGED server

\* A request or its answer is lost: an error that changes nothing.
Lose(r) == sent' = sent \ {r} /\ UNCHANGED <<tab, server>>

\* Another tab logged in, or signed out.
OtherLogsIn ==
  /\ issued < MaxTokens /\ issued' = issued + 1 /\ stored' = issued + 1
  /\ entry' = [count |-> 0, age |-> 0] /\ failures' = <<>>
  /\ UNCHANGED <<auth, shown, sent, expired, version, tries>>

OtherSignsOut ==
  /\ stored # None /\ stored' = None
  /\ UNCHANGED <<auth, shown, sent, server>>

-----------------------------------------------------------------------------
(* The server.                                                             *)

\* Mutated form: an off-by-one at the end of the window.
LapsedEarly == entry.count > 0 /\ entry.age >= Window

\* The first attempt after the window finds the entry out of date.
Lapsed == entry.count > 0 /\ entry.age > Window

Throttled == ~Lapsed /\ entry.count >= MaxAttempts

\* fail(): the attempt is counted, in a new entry if there is none.
Counted ==
  IF Lapsed \/ entry.count = 0 THEN [count |-> 1, age |-> 0]
  ELSE [entry EXCEPT !.count = @ + 1]

\* Of what the request said, the token is told apart still if it was refused.
Answer(r, reply, seen) ==
  LET token == IF reply = "unauthorized" THEN r.token ELSE None
      a == [r EXCEPT !.reply = reply, !.seen = seen, !.token = token, !.right = FALSE]
  IN  sent' = (sent \ {r}) \cup {q \in {a} : Needed(q)}

\* POST /auth/login.
Login(r) ==
  /\ r.kind = "login" /\ r.reply = "none"
  /\ \/ /\ Throttled
        /\ Answer(r, "throttled", 0)
        /\ UNCHANGED <<entry, issued, failures, tries>>
     \/ /\ ~Throttled /\ ~r.right /\ tries < MaxTries
        /\ entry' = Counted /\ Answer(r, "unauthorized", 0)
        /\ failures' = Append(failures, 0) /\ tries' = tries + 1
        /\ UNCHANGED issued
     \/ /\ ~Throttled /\ r.right /\ issued < MaxTokens
        /\ entry' = [count |-> 0, age |-> 0] /\ issued' = issued + 1
        /\ Answer(r, "ok", issued + 1) /\ failures' = <<>> /\ UNCHANGED tries
  /\ UNCHANGED <<tab, expired, version>>

\* Mutated form: a login anywhere ends the sessions from before it.
AuthorizedLatest(r) == r.token \in Valid /\ r.token = issued

\* adminAuthMiddleware.
Authorized(r) == r.token \in Valid

\* What is listed, and a removal.
Serve(r) ==
  /\ r.kind # "login" /\ r.reply = "none"
  /\ IF ~Authorized(r) THEN Answer(r, "unauthorized", 0) /\ UNCHANGED version
     ELSE /\ version' = IF r.kind = "removal" /\ version < MaxRemovals THEN version + 1 ELSE version
          /\ Answer(r, "ok", version')
  /\ UNCHANGED <<tab, issued, expired, entry, failures, tries>>

Expire(k) ==
  /\ k \in Valid
  /\ expired' = expired \cup {k}
  /\ UNCHANGED <<tab, sent, issued, entry, version, failures, tries>>

\* Time passes; of the failures, oldest first, those older than the window are
\* not told apart any more and dropped.
Tick ==
  /\ entry' = [entry EXCEPT !.age = IF entry.count > 0 /\ @ <= Window THEN @ + 1 ELSE @]
  /\ \E d \in 0..Len(failures) :
       /\ \A i \in 1..Len(failures) : i <= d <=> failures[i] >= Window
       /\ failures' = [i \in 1..(Len(failures) - d) |-> failures[i + d] + 1]
  /\ UNCHANGED <<tab, sent, issued, expired, version, tries>>

Next ==
  \/ Load \/ Fetch \/ Refresh \/ Logout \/ OtherLogsIn \/ OtherSignsOut \/ Tick
  \/ \E i \in 1..MaxRemovals : Disconnect(i)
  \/ \E right \in BOOLEAN : Submit(right)
  \/ \E r \in sent : Receive(r) \/ Lose(r) \/ Login(r) \/ Serve(r)
  \/ \E k \in Valid : Expire(k)

\* A signed-in tab refreshes (the default interval is on); a request ends; and again
\* and again a refresh is served and answered, though others may be lost (SF).
Spec ==
  /\ Init /\ [][Next]_vars
  /\ WF_vars(Tick) /\ WF_vars(auth /\ Fetch) /\ WF_vars(\E r \in Of("stale") : Receive(r) \/ Lose(r))
  /\ SF_vars(\E r \in Of("fetch") : Serve(r)) /\ SF_vars(\E r \in Of("fetch") : Receive(r))

-----------------------------------------------------------------------------
\* App.tsx:55-58: the tab does not stay on its pages with a token that is no good.
SignedInHasToken == auth /\ stored \notin Valid ~> ~auth \/ stored \in Valid

\* The tab is signed in, with a good token.
Session == auth /\ stored \in Valid

\* api.ts:145-149, LoginView.tsx:18-39, server.js:791-806: a session ends when its token
\* expires, when the user signs out or another tab drops the token (as it does when a login
\* fails there), or with the late refusal of a request for data that carried another token
\* or none; never with that of a login made in this tab or of its own token.
SessionKept ==
  [][Session =>
       \/ Session' \/ Logout \/ OtherSignsOut
       \/ \E k \in Valid : Expire(k)
       \/ \E r \in sent : /\ r.kind # "login" /\ r.reply = "unauthorized" /\ r.token # stored
                         /\ Receive(r)]_vars

\* api.ts:148 "Session expired or unauthorized. Please log in again.": an answer signs
\* nobody out whose session is good.
NoGoodSessionEnds == [][Session /\ (\E r \in sent : Receive(r)) => Session']_vars

\* queries.ts:64-72: the lists never go back to before a removal they have shown, in
\* whatever order the answers arrive.
ListsNeverOlder == [][NoList \notin {shown, shown'} => shown' >= shown]_vars

\* A removal that was confirmed to the tab reaches its lists.
RemovalShown ==
  \A v \in 1..MaxRemovals :
    (\E r \in Of("removal") : r.reply = "ok" /\ r.seen = v)
      ~> (shown # NoList /\ shown >= v) \/ ~auth

\* server.js:755-756: within one window's length, also around the end of a window,
\* less than two windows' worth of attempts is examined.
AttemptsLimited == Len(failures) < 2 * MaxAttempts

\* However often the locked-out user tries, the lock ends with its window.
LockoutEnds == Throttled ~> ~Throttled

\* App.tsx:28 "TanStack Queries enabled only when authenticated".
FetchesSignedIn == \A r \in Of("fetch") : r.reply = "none" => r.token # None
=============================================================================
