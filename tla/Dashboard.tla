------------------------------- MODULE Dashboard -------------------------------
(***************************************************************************)
(* The dashboard page (gong-core/public/app.js) over the GraphQL API, the  *)
(* stream of metrics and the messenger's events: one browser tab, whose    *)
(* users log in and out one after the other.                               *)
(*                                                                         *)
(* A flow is an async handler that waits for a gql() of its own: answers   *)
(* come in any order, and what a handler does after an answer it does to   *)
(* the page as that is by then.  Of the data the views load only the       *)
(* metrics are kept.  A deactivated user's requests fail with "Invalid     *)
(* token", which is an error like any other to the page; only a missing or *)
(* expired token is "Unauthorized" and makes it forget the token.          *)
(***************************************************************************)
EXTENDS Metrics, Messenger

CONSTANTS
  Users,      \* administrators
  Views,      \* views; "metrics" is one
  FormViews,  \* views with a form
  MaxFlows,   \* bound: handlers that wait at once
  MaxInputs   \* bound: clicks, polls, webhook calls and other events, together

ASSUME ViewsAssumption ==
  "metrics" \in Views /\ Views # {"metrics"} /\ FormViews \subseteq Views

VARIABLES
  path,      \* "/login", "/register" or "/dashboard"
  token,     \* the token in localStorage, as the user it was signed for
  me,        \* state.me
  view,      \* state.currentView
  title,     \* the view whose title is shown
  drawn,     \* the view that is drawn, None: a fresh page
  shown,     \* state.data.latestMetrics
  flows,     \* the flows, in the order they began
  expired,   \* users whose token has expired; they do not log in again
  inputs,    \* how many inputs there were
  behind,    \* history: an update passed the page by since it was current
  misled,    \* history: the last answer to `me` was another session's or an error
  strayed    \* history: a form's handler drew its view over another

tab       == <<path, token, me, view, title, drawn, shown>>
histories == <<behind, misled, strayed>>
vars      == <<metrics, streaming, events, tab, flows, expired, inputs, histories>>

-----------------------------------------------------------------------------
\* A flow waits for the answer to step at; it was sent with user's token and
\* has not been read yet; own: it draws its own view, not the current one.
Flow(at, user, v, own) ==
  [at |-> at, user |-> user, view |-> v, own |-> own, read |-> FALSE,
   denied |-> FALSE, m |-> None, old |-> FALSE]

Input == inputs < MaxInputs /\ inputs' = inputs + 1

Begin(f) == Len(flows) < MaxFlows /\ flows' = Append(flows, f)

\* Flow n goes on with f, or ends where f is <<>>.
GoOn(n, f) == flows' = SubSeq(flows, 1, n - 1) \o f \o SubSeq(flows, n + 1, Len(flows))

\* stopMetricsSse: what is on its way is not delivered.
StopMetricsSse ==
  /\ streaming' = FALSE
  /\ stream' = <<>>
  /\ behind' = (behind \/ stream # <<>>)

\* render(): what a path shows; the dashboard needs a token.
Shows(p) == IF p = "/dashboard" /\ token' = None THEN "/login" ELSE p

\* The page is drawn anew; the dashboard opens the stream, unless it is open
\* already, and asks who is signed in.
Render(p) ==
  /\ path' = Shows(p)
  /\ IF Shows(p) = "/dashboard" THEN streaming' = TRUE /\ UNCHANGED <<stream, behind>>
                                ELSE StopMetricsSse
  /\ title' = None
  /\ drawn' = None

BootFlow(p) == IF Shows(p) = "/dashboard" THEN <<Flow("me", token', None, FALSE)>> ELSE <<>>

DashboardInit ==
  /\ MetricsInit
  /\ MessengerInit
  /\ path = "/login" /\ token = None /\ me = None
  /\ view = CHOOSE v \in Views : v # "metrics"
  /\ title = None /\ drawn = None /\ shown = None
  /\ flows = <<>> /\ expired = {} /\ inputs = 0
  /\ behind = TRUE /\ misled = FALSE /\ strayed = FALSE

-----------------------------------------------------------------------------
(* What the user does. *)

\* The forms of the login and the register page end in the same way.
SubmitLogin(u) ==
  /\ path = "/login" /\ u \notin expired
  /\ Begin(Flow("login", u, None, FALSE))
  /\ UNCHANGED <<metrics, streaming, tab, histories>>

SubmitRegister(u) ==
  /\ path = "/register" /\ u \notin expired
  /\ Begin(Flow("login", u, None, FALSE))
  /\ UNCHANGED <<metrics, streaming, tab, histories>>

\* A link of the two forms, or the browser's back and forward buttons.
GoTo(p) ==
  /\ p # path
  /\ UNCHANGED <<token, me, view, shown>>
  /\ Render(p)
  /\ Len(flows) + Len(BootFlow(p)) <= MaxFlows
  /\ flows' = flows \o BootFlow(p)
  /\ UNCHANGED <<scopes, polls, cache, errors, health, windows, misled, strayed>>

ClickView(v) ==
  /\ path = "/dashboard"
  /\ view' = v
  /\ Begin(Flow("load", token, v, FALSE))
  /\ UNCHANGED <<metrics, streaming, path, token, me, title, drawn, shown, histories>>

ClickRefresh == ClickView(view)

ClickLogout ==
  /\ path = "/dashboard"
  /\ token' = None
  /\ Render("/login")
  /\ UNCHANGED <<scopes, polls, cache, errors, health, windows, me, view, shown,
                 flows, misled, strayed>>

\* The form of view v, or one of its buttons; it awaits its mutation, loads v
\* and draws v.
SubmitForm(v) ==
  /\ path = "/dashboard" /\ drawn = v
  /\ Begin(Flow("submit", token, v, TRUE))
  /\ UNCHANGED <<metrics, streaming, tab, histories>>

User ==
  \/ \E u \in Users : SubmitLogin(u) \/ SubmitRegister(u)
  \/ \E p \in {"/login", "/register", "/dashboard"} : GoTo(p)
  \/ \E v \in Views : ClickView(v)
  \/ ClickRefresh
  \/ ClickLogout
  \/ \E v \in FormViews : SubmitForm(v)

-----------------------------------------------------------------------------
(* Answers. *)

\* The server reads the request: the token, and the cached metrics.
Serve(n) ==
  /\ ~flows[n].read
  /\ flows' = [flows EXCEPT
       ![n].read = TRUE,
       ![n].denied = flows[n].at # "login" /\ flows[n].user \in expired \cup {None},
       ![n].m = IF flows[n].view = "metrics" THEN cache[Global] ELSE None]
  /\ UNCHANGED <<metrics, streaming, tab, histories>>

\* navigate('/dashboard') with the new token.
LoggedIn(n) ==
  /\ flows[n].at = "login" /\ flows[n].read
  /\ token' = flows[n].user
  /\ Render("/dashboard")
  /\ GoOn(n, BootFlow("/dashboard"))
  /\ UNCHANGED <<scopes, polls, cache, errors, health, windows, me, view, shown,
                 misled, strayed>>

LoadCurrent == <<Flow("load", token, view, FALSE)>>

\* bootDashboard: whoever the answer names, the current view is next.
MeAnswered(n) ==
  /\ flows[n].at = "me" /\ flows[n].read /\ ~flows[n].denied
  /\ me' = flows[n].user
  /\ misled' = (flows[n].user # token)
  /\ GoOn(n, LoadCurrent)
  /\ UNCHANGED <<metrics, streaming, path, token, view, title, drawn, shown, behind, strayed>>

\* Variant: a handler draws the view it loaded.
DrawLoaded(f) ==
  /\ drawn' = IF path = "/dashboard" THEN f.view ELSE drawn
  /\ title' = IF path = "/dashboard" THEN f.view ELSE title
  /\ strayed' = (strayed /\ f.own)

\* What is drawn at the end: a form its own view, under whatever title; the
\* others the current one.  Off the dashboard there is nothing to draw on.
Draw(f) ==
  IF path # "/dashboard" THEN UNCHANGED <<title, drawn, strayed>>
  ELSE /\ drawn' = IF f.own THEN f.view ELSE view
       /\ title' = IF f.own THEN title ELSE view
       /\ strayed' = (f.own /\ (f.view # view \/ title # view))

\* loadViewData and what is drawn after it.
Loaded(n) ==
  /\ flows[n].at = "load" /\ flows[n].read /\ ~flows[n].denied
  /\ IF flows[n].view = "metrics"
     THEN shown' = flows[n].m /\ behind' = flows[n].old
     ELSE UNCHANGED <<shown, behind>>
  /\ Draw(flows[n])
  /\ GoOn(n, <<>>)
  /\ UNCHANGED <<metrics, streaming, path, token, me, view, misled>>

\* The mutation is done: the view is loaded with the token of now.
Submitted(n) ==
  /\ flows[n].at = "submit" /\ flows[n].read /\ ~flows[n].denied
  /\ GoOn(n, <<Flow("load", token, flows[n].view, TRUE)>>)
  /\ UNCHANGED <<metrics, streaming, tab, histories>>

\* gql: "Unauthorized" clears the token and closes the stream, whosever they
\* are by then; then the handler goes on as after any error.
Denied(n) ==
  /\ flows[n].denied
  /\ token' = None
  /\ CASE flows[n].at = "me" -> Render("/login") /\ UNCHANGED strayed
       [] flows[n].at = "load" -> StopMetricsSse /\ Draw(flows[n]) /\ UNCHANGED path
       [] OTHER -> StopMetricsSse /\ UNCHANGED <<path, title, drawn, strayed>>
  /\ GoOn(n, <<>>)
  /\ UNCHANGED <<scopes, polls, cache, errors, health, windows, me, view, shown, misled>>

\* Any other error: the boot goes on without the user, a view is drawn from
\* what there is, a form or a login stops.
Failed(n) ==
  /\ CASE flows[n].at = "me" -> GoOn(n, LoadCurrent) /\ misled' = TRUE
                                 /\ UNCHANGED <<title, drawn, strayed>>
       [] flows[n].at = "load" -> GoOn(n, <<>>) /\ Draw(flows[n]) /\ UNCHANGED misled
       [] OTHER -> GoOn(n, <<>>) /\ UNCHANGED <<misled, title, drawn, strayed>>
  /\ UNCHANGED <<metrics, streaming, path, token, me, view, shown, behind>>

-----------------------------------------------------------------------------
(* The stream. *)

\* pushSseEvent: an update is shown whatever its scope.
PushSseEvent ==
  /\ stream # <<>>
  /\ stream' = Tail(stream)
  /\ IF Head(stream).type = "metrics.updated"
     THEN shown' = Head(stream).m /\ behind' = (Head(stream).scope # Global)
     ELSE UNCHANGED <<shown, behind>>
  /\ drawn' = IF view = "metrics" THEN "metrics" ELSE drawn
  /\ strayed' = (strayed /\ (view # "metrics" \/ title # "metrics"))
  /\ UNCHANGED <<scopes, polls, cache, errors, health, windows, streaming,
                 path, token, me, view, title, flows, misled>>

\* The connection breaks and the EventSource opens another one.
BreakStream ==
  /\ stream # <<>>
  /\ stream' = <<>>
  /\ behind' = TRUE
  /\ UNCHANGED <<scopes, polls, cache, errors, health, windows, streaming, tab, flows,
                 misled, strayed>>

\* A poll's answer passes by a page that does not listen, and the answers of
\* the API that were read before it.
PollAnswers(p) ==
  /\ polls[p] # <<>>
  /\ \E m \in Readings :
       /\ Answer(p, m)
       /\ behind' = (behind \/ (Updates(p, m) /\ ~streaming))
       /\ flows' = [n \in 1..Len(flows) |->
            [flows[n] EXCEPT !.old = @ \/ (flows[n].read /\ Updates(p, m))]]
  /\ UNCHANGED <<tab, misled, strayed>>

Answers ==
  \/ \E n \in 1..Len(flows) :
       Serve(n) \/ LoggedIn(n) \/ MeAnswered(n) \/ Loaded(n) \/ Submitted(n)
         \/ Denied(n) \/ Failed(n)
  \/ PushSseEvent
  \/ BreakStream
  \/ \E p \in Polls : PollAnswers(p)

Outside ==
  \/ (SetScopes \/ \E p \in Polls : StartPoll(p)) /\ UNCHANGED expired
  \/ /\ \E u \in Users \ expired : expired' = expired \cup {u}
     /\ UNCHANGED <<metrics, streaming>>

Next ==
  \/ Input /\ User /\ UNCHANGED <<events, expired>>
  \/ Input /\ Outside /\ UNCHANGED <<events, tab, flows, histories>>
  \/ Input /\ HandleIncomingWebhook
           /\ UNCHANGED <<metrics, streaming, tab, flows, expired, histories>>
  \/ Answers /\ UNCHANGED <<events, expired, inputs>>

Spec == DashboardInit /\ [][Next]_vars

-----------------------------------------------------------------------------
(* Correctness. *)

\* Every value is of its kind, and there is always a scope to poll.
TypeOK ==
  /\ scopes # <<>> /\ \A n \in 1..Len(scopes) : scopes[n] \in AllScopes
  /\ \A p \in Polls : \A n \in 1..Len(polls[p]) : polls[p][n] \in AllScopes
  /\ \A s \in AllScopes : cache[s] \in Readings \cup {None}
  /\ \A v \in ServiceIds : errors[v] \in 0..Threshold /\ health[v] \in BOOLEAN \cup {None}
  /\ path \in {"/login", "/register", "/dashboard"}
  /\ {token, me} \subseteq Users \cup {None}
  /\ {title, drawn} \subseteq Views \cup {None} /\ view \in Views
  /\ shown \in Readings \cup {None}
  /\ \A n \in 1..Len(flows) : flows[n].user \in Users \cup {None}

Waits(at) == \E n \in 1..Len(flows) : flows[n].at = at

\* The stream is open only for a dashboard with a token (renderLogin, logout
\* and gql close it).
StreamNeedsSession == streaming => path = "/dashboard" /\ token # None

\* The dashboard works under the name of the user who is signed in, once it
\* has been told: unless the last answer belonged to an earlier session.
ActsAsSignedIn ==
  path = "/dashboard" /\ token # None /\ ~Waits("me") => me = token \/ misled

\* A page at rest shows the view that was chosen last, under its title:
\* unless a form's handler outlived its view and drew it over another.
ShowsChosenView ==
  path = "/dashboard" /\ flows = <<>> => (drawn = view /\ title = view) \/ strayed

PageIsCurrent == StreamNeedsSession /\ ActsAsSignedIn /\ ShowsChosenView

\* Once the stream is drained the page shows what is cached for the whole
\* gateway: unless an update was lost or went by unheard, an older answer
\* of the API came after a newer event, or another scope's was shown.
ShowsLatestMetrics ==
  stream = <<>> => shown = cache[Global] \/ behind

=============================================================================
