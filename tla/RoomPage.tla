------------------------------- MODULE RoomPage -------------------------------
(***************************************************************************)
(* The incident room page (incident-room/src/App.tsx) in front of the REST *)
(* API and of IncidentRoomGateway: one page, its socket, and whatever the  *)
(* other admins do.                                                        *)
(*                                                                         *)
(* The socket delivers in order in each direction and loses what is under  *)
(* way when it breaks; REST answers come in any order.  An incident's log  *)
(* rows are numbered as they are stored.  The order of the list, statuses, *)
(* notices, presence lists and the text fields are left out, so Ack and     *)
(* Resolve are offered whatever the status (the page's may be stale).      *)
(*                                                                         *)
(* The two ends of a socket learn of a break at different times: the       *)
(* server may have dropped it (its ping timed out, or it started again)    *)
(* while the page still shows itself as connected and joined.              *)
(***************************************************************************)
EXTENDS Naturals, Sequences, FiniteSets, Bags

CONSTANTS
  Ids,          \* incidents
  None,         \* no incident
  MaxRows,      \* bound: log rows of all incidents
  MaxConnects,  \* bound: connections of the page
  MaxUnderWay   \* bound: requests, messages and handlers under way together

ASSUME NoneAssumption == None \notin Ids
ASSUME BoundsAssumption ==
  IsFiniteSet(Ids) /\ MaxRows \in Nat \ {0} /\ MaxConnects \in Nat

VARIABLES
  list,       \* incidents, as a set
  selected,   \* selectedId
  shown,      \* snapshot: [id, rows]
  joined,     \* isJoined
  connected,  \* whether the page holds its socket for connected
  connects,   \* how often it was (hasConnectedRef: more than 0)
  dropped,    \* the server has dropped it, and the page has not noticed
  rest,       \* REST requests under way, in the order they were made
  up,         \* socket messages to the server, sent or buffered
  down,       \* socket messages to the page
  rows,       \* database: rows[i] counts the row of i itself (with the log row
              \* of its creation, if that was stored) and its later log rows;
              \* 0: no such incident
  rooms,      \* the rooms of incidents the socket is in
  feed,       \* whether it is in the feed room
  jobs,       \* what handlers of the gateway have still to send, as a bag
  cast,       \* history: cast[i]: the rows whose incidentMessage was sent
  crossed,    \* history: the admin left while an answer to a join was due
  overtaken,  \* history: the last snapshot of these lacked a row sent before
  missed      \* history: incidents whose announcement never reached the page:
              \* lost, sent to a feed it was not in, failed, or never made

page    == <<list, selected, shown, joined>>
socket  == <<connected, connects, dropped>>
server  == <<rows, rooms, feed>>
history == <<cast, crossed, overtaken, missed>>
vars    == <<list, selected, shown, joined, connected, connects, dropped, rest,
             up, down, rows, rooms, feed, jobs, cast, crossed, overtaken, missed>>

-----------------------------------------------------------------------------
Without(s, n) == SubSeq(s, 1, n - 1) \o SubSeq(s, n + 1, Len(s))

\* The first n log rows of i.
Rows(i, n) == {i} \X (1..n)

Blank == [id |-> None, rows |-> {}]

\* A REST request; once it is read, the answer is on its way.
Request(kind, i) == [kind |-> kind, id |-> i, read |-> FALSE, ids |-> {}, n |-> 0]

\* A socket message, or one in preparation (n = 0: its snapshot is not read).
Message(kind, i, n) == [kind |-> kind, id |-> i, n |-> n]

UnderWay == Len(rest) + Len(up) + Len(down) + BagCardinality(jobs)

\* n more may be under way.
Space(n) == UnderWay + n <= MaxUnderWay

Stored == {i \in Ids : rows[i] > 0}

\* The bound on log rows is not reached.
MoreRows == Cardinality(UNION {Rows(i, rows[i]) : i \in Ids}) < MaxRows

\* selectedIncident.
ShownId == IF shown.id # None THEN shown.id
           ELSE IF selected \in list THEN selected ELSE None

\* The room is drawn for an incident; its buttons follow isJoined.
JoinOffered  == ShownId # None /\ ~joined
LeaveOffered == ShownId # None /\ joined
SendOffered  == ShownId # None /\ joined

\* upsertIncident.
Upsert(S, i) == S \cup {i}

\* The first load of the list is under way.
Init ==
  /\ list = {}
  /\ selected = None
  /\ shown = Blank
  /\ joined = FALSE
  /\ connected = FALSE
  /\ connects = 0
  /\ dropped = FALSE
  /\ rest = <<Request("list", None)>>
  /\ up = <<>>
  /\ down = <<>>
  /\ \E S \in SUBSET Ids : rows = [i \in Ids |-> IF i \in S THEN 1 ELSE 0]
  /\ rooms = {}
  /\ feed = FALSE
  /\ jobs = EmptyBag
  /\ cast = [i \in Ids |-> {}]
  /\ crossed = FALSE
  /\ overtaken = {}
  /\ missed = Stored

-----------------------------------------------------------------------------
(* The connection. *)

\* What was emitted offline is sent first, then the subscription.  The list
\* is loaded again on every connection but the first.
Connect ==
  /\ ~connected
  /\ connects < MaxConnects
  /\ Space(IF connects > 0 THEN 2 ELSE 1)
  /\ connected' = TRUE
  /\ connects' = connects + 1
  /\ up' = Append(up, Message("subscribe", None, 0))
  /\ rest' = IF connects > 0 THEN Append(rest, Request("list", None)) ELSE rest
  /\ UNCHANGED <<page, dropped, down, server, jobs, history>>

\* The handlers of joins have nobody left to answer.
Unanswered == [m \in {x \in BagToSet(jobs) : x.kind # "joined"} |-> jobs[m]]

\* The announcements that a break of the connection loses.
Announced ==
  {down[n].id : n \in {k \in 1..Len(down) : down[k].kind = "created"}}

\* handleDisconnect: the server drops the socket, its rooms go with it, and
\* nothing more is sent to it; what was sent may still arrive.
ServerDisconnect ==
  /\ connected
  /\ ~dropped
  /\ dropped' = TRUE
  /\ rooms' = {}
  /\ feed' = FALSE
  /\ jobs' = Unanswered
  /\ UNCHANGED <<page, connected, connects, rest, up, down, rows, history>>

\* The incidents that handlers are about to announce.
ToAnnounce == {j.id : j \in {m \in BagToSet(jobs) : m.kind = "created"}}

\* The server starts again: its sockets and its handlers are gone.
Restart ==
  /\ dropped' = connected
  /\ rooms' = {}
  /\ feed' = FALSE
  /\ jobs' = EmptyBag
  /\ missed' = missed \cup (ToAnnounce \ list)
  /\ UNCHANGED <<page, connected, connects, rest, up, down, rows, cast, crossed,
                 overtaken>>

\* Variant: the page goes on showing itself as joined.
DisconnectUnnoticed ==
  /\ connected
  /\ connected' = FALSE
  /\ dropped' = FALSE
  /\ up' = <<>>
  /\ down' = <<>>
  /\ rooms' = {}
  /\ feed' = FALSE
  /\ jobs' = Unanswered
  /\ crossed' = FALSE
  /\ missed' = missed \cup (Announced \ list)
  /\ UNCHANGED <<page, connects, rest, rows, cast, overtaken>>

\* The page notices, after the server or before it, and drops its membership;
\* what was under way on the socket is lost.  A server that has not noticed
\* has nobody left to send to: of what it does for the old socket only the
\* rows it stores matter, and those are OtherStores.
Disconnect ==
  /\ connected
  /\ connected' = FALSE
  /\ dropped' = FALSE
  /\ joined' = FALSE
  /\ up' = <<>>
  /\ down' = <<>>
  /\ rooms' = {}
  /\ feed' = FALSE
  /\ jobs' = Unanswered
  /\ crossed' = FALSE
  /\ missed' = missed \cup (Announced \ list)
  /\ UNCHANGED <<list, selected, shown, connects, rest, rows, cast, overtaken>>

-----------------------------------------------------------------------------
(* What the admin does. *)

Ask(request) ==
  /\ Space(1)
  /\ rest' = Append(rest, request)

Emit(kind, i) ==
  /\ Space(1)
  /\ up' = Append(up, Message(kind, i, 0))

\* A click on a row of the list: loadIncident up to its request.
OpenIncident(i) ==
  /\ i \in list
  /\ Ask(Request("open", i))
  /\ selected' = i
  /\ UNCHANGED <<list, shown, joined, socket, up, down, server, jobs,
                 history>>

\* createIncident up to its request.
AskCreate ==
  /\ Ask(Request("create", None))
  /\ UNCHANGED <<page, socket, up, down, server, jobs, history>>

JoinIncident ==
  /\ JoinOffered
  /\ Emit("join", ShownId)
  /\ UNCHANGED <<page, socket, rest, down, server, jobs, history>>

JoinUnderWay ==
  \/ \E n \in 1..Len(up) : up[n].kind = "join"
  \/ \E n \in 1..Len(down) : down[n].kind = "joined"
  \/ \E job \in BagToSet(jobs) : job.kind = "joined"

LeaveIncident ==
  /\ LeaveOffered
  /\ Emit("leave", ShownId)
  /\ joined' = FALSE
  /\ crossed' = (crossed \/ JoinUnderWay)
  /\ UNCHANGED <<list, selected, shown, socket, rest, down, server, jobs, cast,
                 overtaken, missed>>

SendMessage ==
  /\ SendOffered
  /\ Emit("message", ShownId)
  /\ UNCHANGED <<page, socket, rest, down, server, jobs, history>>

\* Ack and Resolve.
EmitAction ==
  /\ ShownId # None
  /\ Emit("update", ShownId)
  /\ UNCHANGED <<page, socket, rest, down, server, jobs, history>>

-----------------------------------------------------------------------------
(* REST answers. *)

Prepare(kind, i, n) == jobs' = jobs (+) SetToBag({Message(kind, i, n)})

Finish(job) == jobs' = jobs (-) SetToBag({job})

Answer(q, kind) == rest[q].kind = kind /\ ~rest[q].read

\* GET /incidents.
ServeList(q) ==
  /\ Answer(q, "list")
  /\ rest' = [rest EXCEPT ![q].read = TRUE, ![q].ids = Stored]
  /\ UNCHANGED <<page, socket, up, down, server, jobs, history>>

\* GET /incidents/:id.
ServeOpen(q) ==
  /\ Answer(q, "open")
  /\ rest' = [rest EXCEPT ![q].read = TRUE, ![q].n = rows[rest[q].id]]
  /\ UNCHANGED <<page, socket, up, down, server, jobs, history>>

\* createIncident of the service stores the incident, then its first log row,
\* then announces it in process ...
CreateIncident(i) ==
  /\ i \notin Stored
  /\ rows' = [rows EXCEPT ![i] = 1]
  /\ Prepare("created", i, 0)
  /\ UNCHANGED missed

\* ... or it fails in between: the incident stays, and nobody is told.
CreateIncidentHalf(i) ==
  /\ i \notin Stored
  /\ rows' = [rows EXCEPT ![i] = 1]
  /\ missed' = missed \cup {i}
  /\ UNCHANGED jobs

\* POST /incidents.
ServeCreate(q) ==
  /\ Answer(q, "create")
  /\ Space(1)
  /\ \E i \in Ids :
       \/ /\ CreateIncident(i)
          /\ rest' = [rest EXCEPT ![q].read = TRUE, ![q].id = i, ![q].n = 1]
       \/ /\ CreateIncidentHalf(i)
          /\ rest' = Without(rest, q)
  /\ UNCHANGED <<page, socket, up, down, rooms, feed, cast, crossed, overtaken>>

\* The request fails, or its answer is not ok: only an error is shown.
Refuse(q) ==
  /\ rest' = Without(rest, q)
  /\ UNCHANGED <<page, socket, up, down, server, jobs, history>>

\* What setIncidents drops although it had been announced.
Dropped(ids) == (missed \ ids) \cup (list \ ids)

\* loadIncidents: the answer replaces the list; with none selected its first
\* incident is loaded.
ApplyList(q) ==
  /\ rest[q].kind = "list" /\ rest[q].read
  /\ list' = rest[q].ids
  /\ missed' = Dropped(rest[q].ids)
  /\ IF selected = None /\ rest[q].ids # {}
       THEN \E i \in rest[q].ids :
              /\ selected' = i
              /\ rest' = Append(Without(rest, q), Request("open", i))
       ELSE /\ rest' = Without(rest, q)
            /\ UNCHANGED selected
  /\ UNCHANGED <<shown, joined, socket, up, down, server, jobs, cast,
                 crossed, overtaken>>

\* A whole snapshot is shown, outside of any room.
Show(i, n) ==
  /\ shown' = [id |-> i, rows |-> Rows(i, n)]
  /\ joined' = FALSE

\* loadIncident: whichever incident is selected by now.
ApplyOpen(q) ==
  /\ rest[q].kind = "open" /\ rest[q].read
  /\ rest' = Without(rest, q)
  /\ Show(rest[q].id, rest[q].n)
  /\ UNCHANGED <<list, selected, socket, up, down, server, jobs, history>>

\* createIncident.
ApplyCreate(q) ==
  /\ rest[q].kind = "create" /\ rest[q].read
  /\ rest' = Without(rest, q)
  /\ list' = Upsert(list, rest[q].id)
  /\ selected' = rest[q].id
  /\ missed' = missed \ {rest[q].id}
  /\ Show(rest[q].id, rest[q].n)
  /\ UNCHANGED <<socket, up, down, server, jobs, cast, crossed, overtaken>>

-----------------------------------------------------------------------------
(* The gateway, for this page's socket (see IncidentRoom.tla). *)

Take(kind) ==
  /\ connected /\ ~dropped
  /\ up # <<>>
  /\ Head(up).kind = kind
  /\ up' = Tail(up)

SubscribeIncidentFeed ==
  /\ Take("subscribe")
  /\ feed' = TRUE
  /\ UNCHANGED <<page, socket, rest, down, rows, rooms, jobs, history>>

\* Variant: the room is entered after the snapshot was sent.
HandleJoinLater ==
  /\ Take("join")
  /\ Prepare("joined", Head(up).id, 0)
  /\ UNCHANGED <<page, socket, rest, down, server, history>>

HandleJoin ==
  /\ Take("join")
  /\ Prepare("joined", Head(up).id, 0)
  /\ rooms' = rooms \cup {Head(up).id}
  /\ UNCHANGED <<page, socket, rest, down, rows, feed, history>>

HandleLeave ==
  /\ Take("leave")
  /\ rooms' = rooms \ {Head(up).id}
  /\ UNCHANGED <<page, socket, rest, down, rows, feed, jobs, history>>

\* Variant: the room is told before the row is stored.
StoreLate(kind, i) ==
  /\ i \in Stored
  /\ MoreRows
  /\ Prepare(kind, i, IF kind = "message" THEN rows[i] + 1 ELSE 0)
  /\ UNCHANGED rows

\* A log row of i is stored; kind says what the room will be told.
Store(kind, i) ==
  /\ i \in Stored
  /\ MoreRows
  /\ rows' = [rows EXCEPT ![i] = @ + 1]
  /\ Prepare(kind, i, IF kind = "message" THEN rows[i] + 1 ELSE 0)

\* sendMessage, ackIncident and resolveIncident store a row, or fail.
HandleMessage ==
  /\ Take("message")
  /\ Store("message", Head(up).id) \/ UNCHANGED <<rows, jobs>>
  /\ UNCHANGED <<page, socket, rest, down, rooms, feed, history>>

HandleUpdate ==
  /\ Take("update")
  /\ Store("updated", Head(up).id) \/ UNCHANGED <<rows, jobs>>
  /\ UNCHANGED <<page, socket, rest, down, rooms, feed, history>>

\* Other admins, REST clients and alerts: incidents are created, rows stored.
OtherCreates(i) ==
  /\ Space(1)
  /\ CreateIncident(i) \/ CreateIncidentHalf(i)
  /\ UNCHANGED <<page, socket, rest, up, down, rooms, feed, cast, crossed,
                 overtaken>>

OtherStores(i) ==
  /\ Space(1)
  /\ Store("message", i) \/ Store("updated", i)
  /\ UNCHANGED <<page, socket, rest, up, down, rooms, feed, history>>

\* getIncidentSnapshot of a join or an update.
ReadSnapshot(j) ==
  /\ j.kind \in {"joined", "updated"}
  /\ j.n = 0
  /\ jobs' = (jobs (-) SetToBag({j})) (+) SetToBag({[j EXCEPT !.n = rows[j.id]]})
  /\ UNCHANGED <<page, socket, rest, up, down, server, history>>

\* A handler fails: incidentError, or a line in the log and no announcement.
FailJob(j) ==
  /\ j.kind # "message"
  /\ j.n = 0
  /\ Finish(j)
  /\ missed' = IF j.kind = "created" THEN missed \cup ({j.id} \ list)
                                           ELSE missed
  /\ UNCHANGED <<page, socket, rest, up, down, server, cast, crossed, overtaken>>

SendDown(j) == down' = Append(down, j)

\* handleIncidentCreated, to the feed.
Announce(j) ==
  /\ j.kind = "created"
  /\ Finish(j)
  /\ IF feed THEN SendDown(j) /\ UNCHANGED missed
             ELSE /\ missed' = missed \cup ({j.id} \ list)
                  /\ UNCHANGED down
  /\ UNCHANGED <<page, socket, rest, up, server, cast, crossed, overtaken>>

\* A message, to the room.
BroadcastMessage(j) ==
  LET i == j.id IN
  /\ j.kind = "message"
  /\ Finish(j)
  /\ cast' = [cast EXCEPT ![i] = @ \cup {j.n}]
  /\ IF i \in rooms THEN SendDown(j) ELSE UNCHANGED down
  /\ UNCHANGED <<page, socket, rest, up, server, crossed, overtaken, missed>>

\* A snapshot: of a join to the socket, of an update to the room.
SendSnapshot(j) ==
  LET i == j.id IN
  /\ j.kind \in {"joined", "updated"}
  /\ j.n > 0
  /\ Finish(j)
  /\ IF j.kind = "joined" \/ i \in rooms
       THEN /\ SendDown(j)
            /\ overtaken' = IF cast[i] \subseteq 1..j.n
                              THEN overtaken \ {i} ELSE overtaken \cup {i}
       ELSE UNCHANGED <<down, overtaken>>
  /\ UNCHANGED <<page, socket, rest, up, server, cast, crossed, missed>>

-----------------------------------------------------------------------------
(* What the socket tells the page. *)

Hear(kind) ==
  /\ down # <<>>
  /\ Head(down).kind = kind
  /\ down' = Tail(down)

\* Variant: only incidents that are on the list are taken.
HearCreatedKnown ==
  /\ Hear("created")
  /\ UNCHANGED <<page, socket, rest, up, server, jobs, history>>

\* incidentCreated.
HearCreated ==
  /\ Hear("created")
  /\ list' = Upsert(list, Head(down).id)
  /\ missed' = missed \ {Head(down).id}
  /\ UNCHANGED <<selected, shown, joined, socket, rest, up, server,
                 jobs, cast, crossed, overtaken>>

\* incidentJoined: whichever incident is selected by now.
HearJoined ==
  /\ Hear("joined")
  /\ shown' = [id |-> Head(down).id, rows |-> Rows(Head(down).id, Head(down).n)]
  /\ joined' = TRUE
  /\ UNCHANGED <<list, selected, socket, rest, up, server, jobs, history>>

\* incidentMessage: appended to whatever snapshot is shown.
HearMessage ==
  /\ Hear("message")
  /\ shown' = IF shown.id = None THEN shown
              ELSE [shown EXCEPT !.rows = @ \cup {<<Head(down).id, Head(down).n>>}]
  /\ UNCHANGED <<list, selected, joined, socket, rest, up, server,
                 jobs, history>>

\* incidentUpdated: the snapshot is shown whatever was, and the list has it.
HearUpdated ==
  /\ Hear("updated")
  /\ shown' = [id |-> Head(down).id, rows |-> Rows(Head(down).id, Head(down).n)]
  /\ list' = Upsert(list, Head(down).id)
  /\ missed' = missed \ {Head(down).id}
  /\ UNCHANGED <<selected, joined, socket, rest, up, server, jobs,
                 cast, crossed, overtaken>>

Next ==
  \/ Connect \/ ServerDisconnect \/ Restart \/ Disconnect
  \/ \E i \in Ids : \/ OpenIncident(i) \/ OtherCreates(i)
                    \/ OtherStores(i)
  \/ AskCreate \/ JoinIncident \/ LeaveIncident \/ SendMessage \/ EmitAction
  \/ \E q \in 1..Len(rest) : \/ ServeList(q) \/ ServeOpen(q) \/ ServeCreate(q)
                             \/ Refuse(q) \/ ApplyList(q) \/ ApplyOpen(q)
                             \/ ApplyCreate(q)
  \/ SubscribeIncidentFeed \/ HandleJoin \/ HandleLeave
  \/ HandleMessage \/ HandleUpdate
  \/ \E j \in BagToSet(jobs) : \/ ReadSnapshot(j) \/ FailJob(j) \/ Announce(j)
                             \/ BroadcastMessage(j) \/ SendSnapshot(j)
  \/ HearCreated \/ HearJoined \/ HearMessage \/ HearUpdated

Spec == Init /\ [][Next]_vars

-----------------------------------------------------------------------------
(* Properties. *)

\* Every variable holds a value of its kind, and only stored incidents and
\* rows are ever on the page.
TypeOK ==
  /\ list \subseteq Stored
  /\ selected \in Stored \cup {None}
  /\ shown.id \in Stored \cup {None}
  /\ \A row \in shown.rows : row[1] \in Ids /\ row[2] \in 1..rows[row[1]]
  /\ joined \in BOOLEAN /\ connected \in BOOLEAN /\ feed \in BOOLEAN
  /\ connects \in 0..MaxConnects
  /\ dropped \in BOOLEAN /\ (dropped => connected /\ ~feed /\ rooms = {})
  /\ rows \in [Ids -> 0..MaxRows]
  /\ rooms \subseteq Stored
  /\ \A i \in Ids : cast[i] \subseteq 1..rows[i]

(* A page that says "joined" (isJoined) holds a socket that is in the room *)
(* of the incident it shows, but for two cases: the admin left while an    *)
(* answer to a join was still due (two clicks on Join, then Leave), or the *)
(* server has dropped the socket and the page has yet to notice, in which  *)
(* window it shows "joined" and is in no room (handleDisconnect comes      *)
(* before the page's own handler).                                         *)
JoinedIsMember ==
  joined => connected /\ (crossed \/ dropped \/ ShownId \in rooms)

Quiet == connected /\ up = <<>> /\ down = <<>> /\ jobs = EmptyBag

(* When nothing is under way, a joined page shows every message that was   *)
(* broadcast in the room of its incident, with three exceptions: the admin *)
(* left while an answer to a join was due; the last snapshot the page was  *)
(* sent had been read before a message that was broadcast earlier; or the  *)
(* server has dropped the socket, and the page, which does not know yet,   *)
(* misses what is broadcast from then on.                                  *)
JoinedShowsBroadcasts ==
  Quiet /\ joined /\ ~crossed /\ ~dropped /\ ShownId \notin overtaken =>
    {ShownId} \X cast[ShownId] \subseteq shown.rows

(* When nothing is under way, the list has every incident, apart from      *)
(* those whose announcement never reached the page: sent while its socket  *)
(* was not in the feed room or lost with the connection, given up because  *)
(* the handler could not read the incident or the server started again, or *)
(* never made because createIncident failed after its first write; and     *)
(* apart from those that an older answer to GET /incidents has taken off.  *)
ListedUnlessMissed ==
  Quiet /\ rest = <<>> => Stored \subseteq list \cup missed

=============================================================================
