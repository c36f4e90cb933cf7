------------------------------ MODULE HttpPage ------------------------------
(***************************************************************************)
(* The configuration page (sideeye/http_handler.go) over the connection it *)
(* shares with sideeye.Init and sideeye.Stop: each caller of SideEyeConn   *)
(* serves HTTP requests, one after the other, and net/http runs the        *)
(* callers at the same time.  The configurations, h.config and             *)
(* ActiveConfig, decide only the text of the page and are left out.        *)
(***************************************************************************)
EXTENDS SideEyeConn

VARIABLES
  kind,    \* what the request that a caller serves asks for
  at       \* where ServeHTTP stands in it

pageVars == <<kind, at>>
pageAndConnVars == <<vars, pageVars>>

Kinds == {"get", "disconnect", "connect"}
InProgress(k) == at[k] # "none"

PageInit ==
  /\ Init
  /\ kind = [k \in Callers |-> "get"]
  /\ at = [k \in Callers |-> "none"]

-----------------------------------------------------------------------------
\* A GET renders the page, and so does a form without a token or a program name; a
\* malformed POST is only logged.  The others stop the connection.
Arrive(k, what) ==
  /\ at[k] = "none"
  /\ kind' = [kind EXCEPT ![k] = what]
  /\ at' = [at EXCEPT ![k] = IF what = "get" THEN "render" ELSE "stop"]
  /\ UNCHANGED vars

\* A step of ServeHTTP: what it does to the connection, and where it goes on when the call
\* that it made has returned.
Serves(k, from, to, step) ==
  /\ at[k] = from /\ at' = [at EXCEPT ![k] = to]
  /\ pc[k] = "idle" /\ step
  /\ UNCHANGED kind

StopConn(k) ==
  Serves(k, "stop", IF kind[k] = "connect" THEN "init" ELSE "render", Call(k, "close"))

\* Init(), which may fail.
InitConn(k) == Serves(k, "init", "poll", Call(k, "connect"))

\* Status() is read under mu.
ReadsStatus == mu = Free /\ UNCHANGED vars

\* Mutant: the page is rendered only once the listener no longer connects.
PolledForEver(k) ==
  (cur # NoSession => lis[cur] # "connecting") /\ Serves(k, "poll", "render", ReadsStatus)

\* Every ten milliseconds for a second, while the status is Connecting.
Polled(k) == Serves(k, "poll", "render", ReadsStatus)

\* handleGet and the answer: four reads of the status choose the config to show, the
\* colour, the text and the button, and nothing depends on whether they agree.
Render(k) ==
  /\ at[k] = "render" /\ pc[k] = "idle" /\ ReadsStatus
  /\ at' = [at EXCEPT ![k] = "none"]
  /\ kind' = [kind EXCEPT ![k] = "get"]

-----------------------------------------------------------------------------
\* What the goroutine of a request does, and the goroutine of a session.
Request(k) ==
  \/ StopConn(k) \/ InitConn(k) \/ Polled(k) \/ Render(k)
  \/ (CloseSteps(k) \/ ConnectSteps(k) \/ CloseInner(k)) /\ UNCHANGED pageVars

Server(s) == (Serve(s) \/ CloseInner(s)) /\ UNCHANGED pageVars
Leaves(s) == (Leave(s) \/ Finish(s)) /\ UNCHANGED pageVars
StopGoesOn == StopClosedListener /\ UNCHANGED pageVars

PageNext ==
  \/ \E k \in Callers : (\E what \in Kinds : Arrive(k, what)) \/ Request(k)
  \/ \E s \in Sessions :
       \/ Server(s) \/ Leaves(s)
       \/ (Offer(s) \/ Hand(s) \/ Drop(s)) /\ UNCHANGED pageVars
  \/ StopGoesOn

\* The fairness of the connection, stated by goroutine: one that can go on does, and mu is
\* granted to whoever waits for it.  No request has to arrive.
PageSpec ==
  /\ PageInit /\ [][PageNext]_pageAndConnVars
  /\ \A k \in Callers : SF_pageAndConnVars(Request(k))
  /\ \A s \in Sessions : SF_pageAndConnVars(Server(s)) /\ WF_pageAndConnVars(Leaves(s))
  /\ WF_pageAndConnVars(StopGoesOn)

-----------------------------------------------------------------------------
\* Every request is answered, but for one that panics, one that waits for a listener
\* stuck in an offer, and one whose Close() found the wait group of a session that
\* another request made in the meantime, and waits until that one is stopped.
Overtaken(k) == pc[k] = "wait" /\ stop[mine[k]] = "no"

RequestsAnswered ==
  \A k \in Callers :
    InProgress(k) ~> ~InProgress(k) \/ pc[k] = "panic" \/ Stuck \/ Overtaken(k)
=============================================================================
