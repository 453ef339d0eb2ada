# Gong Gateway: a verification project

Gong Gateway (`src/gong-core`, a NestJS server; `src/incident-room`, a React
page) administers an API gateway (Kong), watches it through Prometheus, raises
incidents, lets admins work on them in a live room, and notifies the outside
by webhooks. This directory holds TLA+ modules of the parts in which order,
overlap and failure matter, TLC configurations that check them on small
instances, and proofs that TLAPS checks for every value of the constants.

Paths below are relative to `src/gong-core/src/` unless they start with `src/`.

## 1. Inventory

| component | state | operations | hard behaviour |
|---|---|---|---|
| Incidents (`incidents/incidents.service.ts`) | tables `incidents`, `incident_logs` | create, acknowledge, resolve, sendMessage, snapshot, list | several database round trips per request, no lock and no transaction; partial failure |
| Incident room gateway (`incidents/incident-room.gateway.ts`) | socket rooms, presence map | feed, join, leave, message, ack, resolve, disconnect | awaits between joining and answering, broadcasts out of order |
| Incident room client (`src/incident-room/src/App.tsx`) | selected incident, snapshot, presence | load, create, join, leave, socket handlers | stale answers, old rooms, reconnects |
| Monitoring (`monitoring/monitoring.service.ts`) | table `monitoring_rules`, cached report | scheduled and manual checks, rule CRUD | overlapping checks, objects saved long after they were read, cooldown |
| Metrics (`metrics/*.service.ts`) | cache, error counters, health map | polls, queries | overlapping polls, swallowed errors, ten-window threshold |
| Webhooks (`webhooks/`) | two in-memory maps | configuration, emit, test, delivery with retries | timeouts after acceptance, duplicates, configuration changes during retries, restart |
| Gateway (`gateway/gateway.service.ts`) | none; Kong's | services, routes, consumers, ACLs | sequences of remote calls without rollback |
| Auth and users (`auth/`, `users/`) | table `users`, tokens outside | register, login, deactivate | status read before an await, mutual deactivation |
| Messenger (`messenger/`) | in-memory list | webhook intake, lists | redelivery, equal times |
| Dashboard (`src/gong-core/public/app.js`) | token, user, view, data of the views | log in and out, views, forms, event stream | answers of an earlier session or view, a stream next to requests |
| GraphQL facade, formatters, infrastructure | none | delegate, format | none of their own |

How they interact. A monitoring check queries Prometheus through
`MetricsService.queryPrometheusScalar` and emits
`monitoring.threshold.exceeded`; `IncidentsService.handleThresholdExceeded`
creates an incident for it and emits `incident.created`; the webhooks listener,
the room gateway's feed and the SSE stream react to that event. Both events go
through the in-process EventEmitter2: nothing waits for their listeners and
nothing persists them. REST, GraphQL and the room gateway call the same
services; only the room gateway broadcasts to the room.

What makes each component correct:

- Incidents: the timeline reports what happened and only that; an answered
  caller sees its own action; overlap and failure cost as little as possible of
  what was committed.
- Monitoring: a breach that lasts keeps alerting, an alert is due when it is
  raised, no rule is silenced without an alert, deletions stand.
- Webhooks: at least one copy or a true report of failure, one record for each
  delivery, every call is answered.
- Room: who is told of a room is in it and the other way round; the page shows
  the incident it says it shows.
- Metrics: the health state follows the windows that were measured.
- Gateway: a failed sequence leaves Kong in a state the next call can repair.
- Accounts: a deactivated account acts no more; an active admin remains.
- Messenger: the summary of senders agrees with the list of messages.
- Dashboard: the page works for the user it names and shows the view chosen last.

The file `PROJECT.json` lists the hazards line by line.

## 2. Modules

| module | what it is |
|---|---|
| `Incidents` | the incidents service, one action per database round trip |
| `IncidentLifecycle` | the abstract incident: an operation and its timeline entry are one step |
| `MCIncidents` | instances for TLC |
| `IncidentsProofs` | ten theorems about `Incidents`: its invariants, and that it implements `IncidentLifecycle` |
| `Monitoring` | checks, cooldown, rule requests, time |
| `MCMonitoring` | instances for TLC |
| `MonitoringProofs` | five theorems about `Monitoring` |
| `WebhookDelivery` | webhook configuration and delivery with retries |
| `WebhookContract` | the abstract delivery: at least one copy, or reported, and never pending for ever |
| `MCWebhookDelivery` | instances for TLC |
| `WebhookDeliveryProofs` | six theorems about `WebhookDelivery`: its invariants, and that it implements `WebhookContract` |
| `IncidentRoom` | socket rooms, presence and broadcasts of the room gateway |
| `MCIncidentRoom` | an instance for TLC |
| `IncidentRoomProofs` | four theorems about `IncidentRoom` |
| `RoomPage` | one incident room page: its REST requests, its socket, and the gateway's handlers for it |
| `MCRoomPage` | an instance for TLC |
| `RoomPageProofs` | four theorems about `RoomPage` |
| `AlertPipeline` | extends `WebhookDelivery`: from a stored incident through the listener and the formatters to the receivers |
| `MCAlertPipeline` | an instance for TLC |
| `AlertPipelineProofs` | four theorems about `AlertPipeline`: that it implements `WebhookDelivery`, and its texts |
| `Accounts` | registration, login, the guard, deactivation |
| `KongAdmin` | extends `Accounts`: the gateway's operations as sequences of calls to Kong |
| `MCKongAdmin` | an instance for TLC |
| `KongAdminProofs` | four theorems about `KongAdmin` and `Accounts` |
| `Metrics` | polls of Prometheus, cache, health, the events of a subscriber |
| `Messenger` | inbound messages and the summary of senders |
| `Dashboard` | extends `Metrics` and `Messenger`: one dashboard tab |
| `MCDashboard` | an instance for TLC |
| `DashboardProofs` | five theorems about `Dashboard`, `Metrics` and `Messenger` |

In every module an operator whose comment starts with "Variant:" is a
plausible mistake in the operator after it. No behaviour uses the variants;
they show which mistake each property would notice.

### 2.1 Incidents

A request is a process; `pc` names its next round trip. `CreateIncident`,
`Acknowledge`, `Resolve`, `SendMessage` and `View` start it, each up to the
first `await` of the operation after `getIncidentOrThrow`; `LoadForSave`,
`WriteRow`, `AppendLog`, `EmitCreated`, `ReadIncident` and `ReadLogs` continue
it. `handleThresholdExceeded` is `CreateIncident` too.

The important detail is TypeORM's `save(entity)`: it SELECTs the row under the
entity's id, compares, and UPDATEs the columns that differ. `LoadForSave` and
`WriteRow` are those two round trips and `Merge` is the comparison by column.
Between an admin's read and the SELECT of the save, and again between SELECT
and UPDATE, other requests run.

`Fail` is a rejected call or a lost answer at any point, `Crash` ends all
requests at once; both keep what was committed. A snapshot is two reads (the
incident, its logs). `getIncidentLogs` looks up the incident once more; since
nothing deletes incidents, that lookup always succeeds and is not a step.

Of the row, `status` and `resolvedAt` are kept: they are all that operations
change, besides `updatedAt`, which nothing reads. A log entry is the action and
the request that wrote it.

`SerialSpec` is the same service with callers that take turns on an incident.

`IncidentLifecycle` promises what the code does, and the code has no transition
guard. `Open`, `Acknowledge` and `Resolve` are the transitions that
`src/ARCHITECTUR.md` draws (lines 354-360), which end at RESOLVED;
`AcknowledgeAgain` and `ResolveAgain` are those it does not draw. That the
service implements `IncidentLifecycle` therefore says nothing in favour of the
drawing, which is not true of the service.

### 2.2 Monitoring

An agent is a check or an admin's request. `StartCheck` reads the active rules
(`runScheduledCheck` line 131); each rule then has a promise of its own:
`EvaluateQuiet`, `SkipCooldown` or `Fire` when its query is answered, and the
steps of `rulesRepo.save` after `Fire`. `Fire` is the synchronous stretch of
`handleTriggeredRule` from the cooldown test to the `save`: it emits the event
and stamps the object the check holds. `FinishCheck` caches the report after
`Promise.allSettled`. `UpdateRule` and `DeleteRule` read the rule and go on with
a save or a remove. `InsertRow` is what TypeORM's `save` does when no row has the
object's id.

`reading` is the world outside: the metric is within or beyond the threshold, or
Prometheus has nothing to say. `Triggered` says what the evaluators make of it;
"nothing" becomes 0, which triggers only UPSTREAM_HEALTH rules.

Dates are ages: `last` is the time since `lastTriggeredAt`, and `Tick` makes all
copies of it older together. An age of `Old` stands for every age beyond all
cooldowns, and for null. Two dates with the same age compare as equal in
`Merge`; they differ by less than a tick, or are both beyond every cooldown.

History variables: `quiet` (age of the last event), `born`, `alerted`, and
`disturbed`, the rules that two agents held at once or whose save failed or was
cut off. `disturbed` divides what the code guarantees from what it does not: the
theorems hold for rules outside it, the violation runs show what happens inside.

### 2.3 WebhookDelivery

Everything is synchronous up to the first POST, so `Emit` and `TestWebhook` take
the clones (`listWebhooks`, `findWebhook`) and start all deliveries in one step.
A delivery is a loop: a POST is `Accepted`, `Refused`, or `Unheard` (the receiver
takes the event, and the answer is lost or later than the 3 s timeout); after the
last two `AttemptFailed` waits for the next attempt or records FAILED. `Answer`
is `Promise.all`. `Crash` loses both maps and all calls.

`UpdateWebhook` lets every field change or stay, as the optional fields of the
dto do. Payloads, headers, signatures and the masking of addresses are left out.

### 2.4 IncidentRoom

A request is a handler of the gateway. `Join` is `joinIncident` up to its first
database call: rooms are in memory, so entering the room and the presence list is
one step (`await client.join` only yields to microtasks). `ReadSnapshot` is
`getIncidentSnapshot`, whose two reads are taken as one: the rows of the timeline,
read last, are what the properties are about. `AnswerJoin` sends `incidentJoined` and
`presenceUpdated`. `SendMessage` and `Update` begin with the commit of the row by
the service, by when the sender may have gone; `Broadcast` follows.
`StoreElsewhere` is the same operation through GraphQL, which tells no room.
`Leave` and `Disconnect` are single steps, and come between the steps of any
request. `Fail` is a snapshot that cannot be read: the socket of a failed join
stays in the room and on its list.

What a socket was sent is recorded in `told` (the presence of each incident) and
`heard` (log rows). `answered` are the sockets that were told they joined for
their present stay; a join during which its socket left is `stale`. The answer of
a stale join reaches a socket that is not in the room: no property here objects,
for it is the page that has to know (`RoomPage`).

### 2.5 RoomPage

`IncidentRoom` has any number of sockets and counts what each was sent;
`RoomPage` has one socket and keeps the order. `rest` are REST requests, which
the server answers (`ServeList`, `ServeOpen`, `ServeCreate`) and whose answers
the page takes in any order (`ApplyList`, `ApplyOpen`, `ApplyCreate`); `up` and
`down` are the socket's two channels; `jobs` are handlers that have still to
read a snapshot or to send. Clicks are `OpenIncident`, `AskCreate`,
`JoinIncident`, `LeaveIncident`, `SendMessage` and `EmitAction`, guarded as the
buttons are; `Hear...` are the socket's handlers. `OtherCreates` and
`OtherStores` are everybody else.

The two ends of a socket learn of a break at different times.
`ServerDisconnect` is `handleDisconnect` (`incident-room.gateway.ts:50`): the
rooms and the feed are gone and nothing more is sent, while the page still says
joined (`dropped`). `Disconnect` is the page's own `disconnect` handler, after
the server's or before it; it gives up the room and empties both channels. When
the page is first, the server would go on sending to nobody: of what it does for
the old socket only the rows matter, which `OtherStores` stores too. `Restart`
stops the server, and with it every handler under way. `Connect` is socket.io's
reconnection.

`createIncident` stores the row, then its log entry, then emits the event.
`CreateIncident` is all of it, `CreateIncidentHalf` stops after the first write:
the incident is stored and nobody is told. The log row that is missing then is
not modelled; a page shows the incident with one row either way.

The history variables name the ways in which the page may be behind: `crossed`,
`overtaken` and `missed`.

### 2.6 AlertPipeline

A call of `WebhookDelivery` is one incident's announcement: `SaveIncident` and
`AppendLog` are the two writes of `createIncident`, `Announce` is everything
from `emit('incident.created')` to the first POSTs, which is synchronous. A
payload is its fields, a text is the set of the fields it shows, and the three
formatters choose fields as theirs in the code do.

### 2.7 Accounts and KongAdmin

A call is a request under way with a `plan`, the awaited reads and writes it has
still to do; `Ask` starts one with the plan of its operation, and each step takes
the first entry off. Between any two steps other calls run; any step may fail,
and a failed step may have had its effect (`Done`). The guard
(`JwtStrategy.validate`) is the first entry of every request but the register
and login. `KongAdmin` gives each operation of `GatewayService` its plan. Kong is
external and modelled by what the code relies on: unique names and usernames, one
acl plugin on a route, deletions that take along what hangs on the object.

An object is addressed by its id or by the name it has when Kong reads the
request. `PatchService`, `PatchRoute` and `PatchConsumer` may change the name, so
that a name may pass from one object to another between the two calls of a
request. `createConsumer` asks for the key by the username: it may go to whoever
has the name by then. URLs, hosts, paths, header values, custom ids and tags are
left out.

An account is addressed by its id, which has several spellings: `deleteAdmin` and
`deactivateAdmin` compare strings, and the column of type uuid that is asked next
knows no case. A request may therefore name its own author "respelled", and
`LoadAdmin` lets it through.

### 2.8 Metrics, Messenger and Dashboard

A poll is the list of scopes that `pollAll` has still to query. `Answer` is one
reading: it updates the cache, the error windows of the service and the stream
of one subscriber. A reading is a number and whether a 5xx or 429 key is among
its series; an outage of Prometheus is the reading without either. `SetScopes` is
an operation of the service that nothing in the repository calls at this commit:
only the global scope is polled, and what the model says of other scopes is what
would happen once they are set.

The dashboard's async handlers are `flows`: one waits for the answer to its
`gql()` call, and what it does afterwards it does to the page as that is by
then. `Serve` is the moment at which the server reads; `Loaded`, `Submitted`,
`MeAnswered`, `LoggedIn`, `Denied` and `Failed` are the answers. A user's token
may expire at any time. `PushSseEvent` and `BreakStream` are the event stream.

`Messenger` shares nothing with the page but the views that show it; its calls
are one action, and the list and the summary are functions of what is stored. The
time of a call (`receivedAt`) is assumed not to be earlier than that of the call
before: the server's clock does not step back.

## 3. Runs

| run | instance | shows |
|---|---|---|
| `incidents_overlap` | 2 incidents, 3 requests, 2 dates, failures | the safety invariants under every overlap and failure, and whose work a row shows (58,731 states) |
| `incidents_serial` | 2 incidents, 4 requests, 2 dates, turns | `IncidentLifecycle` is implemented, the timeline explains the row (187,776 states) |
| `incidents_date` | 1 incident, 5 requests | violation: RESOLVED without a date |
| `monitoring` | 1 UPSTREAM_HEALTH rule, 2 checks, 1 admin, failures | the safety properties, and liveness: a lasting breach keeps alerting (291,603 states) |
| `monitoring_cooldown` | 2 checks, nothing fails | violation: two alerts within a cooldown |
| `monitoring_deleted` | 1 check, 1 admin, nothing fails | violation: a deleted rule comes back |
| `webhooks` | 2 calls, 2 webhooks, 1 retry | records are complete and true, duplicates are explained (356,751 states) |
| `pipeline` | 1 incident, 2 webhooks, 0 or 2 retries, crashes | a stored incident is announced unless the process stops, `WebhookContract` is implemented, with liveness, and texts give the reason (57,589 states) |
| `room` | 2 incidents, 2 sockets, 3 requests, failures | presence is membership and is told, no broadcast row is missed (173,468 states) |
| `page` | 2 incidents, 3 log rows, 2 connections, 2 things under way | a joined page is in the room of the incident it shows, shows what was broadcast there, and lists every incident, but for the named exceptions (1,208,480 states) |
| `admin` | 2 calls at once, 3 requests; 2 accounts, or 1 account with 1 service and 2 names, 2 routes and 1 name, 2 consumers and 2 names | nobody acts after a deactivation, the last administrator goes only late or by his own respelled id; names are unique, nothing refers to what is gone, grants meet their plugin, consumers have keys, but for the named exceptions (524,974 states) |
| `dashboard` | 2 users, 2 views, 2 flows, 2 polls, 4 inputs | the page is current, shows the latest metrics, health is earned, the summary matches the events (141,343 states) |

Bounds. Requests, calls and agents run once each or are reused, and every bound
is a set in the configuration; `Old` is the only numeric bound.

- Three requests on one incident give every pair of overlapping writers a third
  one to disturb or to observe; the second incident catches writes that go
  astray. Five requests are the fewest that reach `incidents_date`'s state: a
  create, two resolves and two acknowledgements.
- Two checks and one admin are every kind of pair that can hold a rule; rules do
  not interact (their promises share nothing but the cached report). One health
  rule has all triggers that other rules have and one more. `Old = 2` with
  cooldown 1 keeps "within", "just over" and "never" apart.
- Two calls with two webhooks let deliveries of one call, and calls to one
  webhook, overlap. One retry is one wait during which the configuration can
  change; `pipeline` has zero and two.
- Two sockets are one that acts and one that watches. Three requests are two joins
  with a message or an update between any of their steps; the second incident is
  what a disconnect has to reach besides the first.
- Two things under way on the page (`MaxUnderWay`) are every pair of a REST
  answer, a message in either direction and a handler of the gateway; each starts
  others as it ends. Two connections are one reconnect; three rows are a creation
  and two messages, enough for a snapshot that lacks the one before the last.
- Three requests of administrators, two at a time (`MaxRequests`): two mutual
  deactivations and one that comes after; or a grant, a change of the route it
  goes through, and another grant; or a creation, a renaming in between its
  calls, and another creation under the old name. The constraint `AccountsOrKong`
  explores the accounts with an empty Kong that is only listed, and Kong with a
  single administrator: the guard is the same before every operation, and Kong
  does not know who asks. The theorems are not so restricted.
- Four inputs on the dashboard (`MaxInputs`): a login, a logout and another login
  around a waiting answer and one more; two flows are two answers that change
  places. A threshold of two windows stands for ten: the first, the last, and one
  too many. The constraint `MessengerAlone` explores calls to the messenger on
  their own and not in every order with the page, with which they share nothing.

Deadlock is not checked where requests run once each or the bounds on rows,
requests and inputs end the run: `Incidents`, `IncidentRoom`, `RoomPage`,
`KongAdmin`, `Dashboard`.

Symmetry is used only for safety properties.

### What the violation runs show

- `incidents_date`. An acknowledgement that read an incident while it was open
  (null date) saves after it was resolved: it writes back null. Together with a
  second resolve whose save compares with a row that is already RESOLVED, and so
  leaves out the status, the columns of different requests mix: status RESOLVED,
  `resolvedAt` null. `ARCHITECTUR.md` says of RESOLVED that "resolvedAt is set".
  `ResolutionLostOnlyToAck` and `DateLostOnlyToStaleAck`, proved for all
  instances, say what is left: nothing but an acknowledgement can do this.
- `monitoring_cooldown`. The cooldown test is made on the object read at the
  start of the check. `POST /monitoring/check` during a scheduled check, or a
  check that takes longer than the interval, raises the same alert twice.
- `monitoring_deleted`. A check that fires a rule saves the object it holds; if
  the rule was deleted since, TypeORM inserts it again, active and under its old
  id, after the admin was answered 204.

### Exceptions and disagreements

Properties of the passing runs name the cases in which the code does not keep
them, and in some points the code and the repository's documents disagree; each
is a thing to know about the code:

- The page. Two clicks on Join and one on Leave leave a page that says "joined"
  and is not in the room (`crossed`). A page whose socket the server has dropped,
  or whose server has started again, says "joined" until it notices, is in no
  room, and misses what is broadcast there (`dropped`). A snapshot read before a
  message and sent after it takes the message off the page (`overtaken`:
  `joinIncident` and `ackIncident` read, then send); statuses, which the page does
  not keep here, can be set back in the same way. Not on the list until the next
  load (`missed`) are incidents created while the page was not in the feed, those
  that an older answer to `GET /incidents` took off the list, those whose
  announcement was lost with the connection or a restart, or given up because
  `handleIncidentCreated` could not read the incident, and those that were never
  announced, because `createIncident` failed after its first write
  (`incidents.service.ts:51-71`).
- Accounts. Two administrators who deactivate each other at the same time leave
  nobody active, and so does the last one who deactivates himself by another
  spelling of his id (`SomeoneStaysActive` allows exactly these).
  `auth.controller.ts:68` and `gong-graphql.resolver.ts:151` compare the id of the
  request with that of the author as strings, then look it up in a column of type
  uuid: one's own id in upper case passes. `auth/README.md` line 60 says: "A
  logged-in admin cannot deactivate their own account."
- Kong. A consumer that is renamed between the two calls of its `createConsumer`
  stays without a key, and whoever has its old name gets it (`halfDone` holds
  these too). `updateConsumer` called with the old username renames and then
  fails to read. `deleteRoute` leaves the groups of the route's consumers, and a later
  route of the same name honours them (`moved`). A grant by a route's id and one
  by its name are two groups: revoking by the other one does nothing, and the
  second acl plugin is refused. `createConsumer` that stops after its first call
  leaves a consumer without a key (`halfDone`), `createService` a service without
  a route. `listConsumers` fails as a whole when a consumer is deleted meanwhile.
- Dashboard. The answer to `me`, or an Unauthorized one, of an earlier session
  works on the page of the next user (`misled`). A form's handler draws its view
  over the one chosen since (`strayed`). A metrics event of any scope is shown
  as the gateway's, and an older answer of the API replaces a newer event
  (`behind`). A deactivated user's error, "Invalid token", does not end the
  session on the page. `createIncident` takes the author from `state.me`.
- Metrics. `hasErrorStatus` looks at the keys of the breakdown, not at their
  counts. An outage of Prometheus reads as a window without errors and as zero
  traffic, for `HealthIsEarned` too. An older answer of an overlapping poll
  replaces a newer cache entry, and windows count in the order of their answers.
  Only the global scope is polled, and its health is never reported.
- Monitoring. A slower check replaces the report of a newer one; that a rule it
  shows as triggered had an event (`ReportedMeansAlerted`) says nothing of when.
  `AlertIsDueUnlessDisturbed` and `DeletionStandsUnlessDisturbed` say nothing of
  rules that two agents held at once: those are the violation runs.
- Incidents. `src/ARCHITECTUR.md` lines 354-360 draw three transitions, none out of
  RESOLVED, and then "RESOLVED --> [*]". `acknowledge` and `resolve` set the status
  whatever it was (`incidents.service.ts:120-157`): a resolved incident becomes
  ACKNOWLEDGED, and keeps its date, or is resolved again with a new one, without
  any overlap or failure. The abstract incident follows the code here.
  `TimelineExplainsRow` and `ImplementsLifecycle` hold for callers who
  take turns, with no failing call; a failure between the save and the log entry,
  or the order of overlapping entries, is outside of them. `LogIsEarned` and
  `RowIsAccountedFor` hold always.
- Messages. Of a sender's messages in one webhook call the summary keeps the
  first. A payload says OPEN whatever has become of the incident, and the
  Discord and Slack texts do not have the incident's id.
- `docs/webhook_service.md` line 509 says that every attempt creates a
  `WebhookDelivery`; the code (and `webhooks/README.md`) creates one per delivery
  (`RecordsAreTrue`, `AnswerAccountsForAll`).

## 4. Fairness

`Incidents`, `IncidentRoom`, `RoomPage`, `KongAdmin` and `Dashboard` have safety
properties only and no fairness.

`Monitoring`: weak fairness of starting checks (the interval keeps firing and
the route exists), of every step of a check (queries have an HTTP timeout, the
database answers or rejects, settled promises resolve) and of time. Nothing is
assumed of admins and of the world. `BreachKeepsAlerting` assumes
that the breach lasts and that the process does not crash for ever. Saves may
fail every time; then the alert repeats more often, never less.

`WebhookDelivery`: weak fairness of a POST's end (`timeout: 3000`), of the
backoff timer and of the resolution of `Promise.all`. `AlertPipeline` adds weak
fairness of the log entry's write or its failure (the database answers or
rejects), and of the event that follows it in the same function.

## 5. Proofs

TLAPS proves the theorems below for all values of the constants that satisfy
the assumptions of the modules, and so for any number of overlapping requests,
calls, deliveries, checks and flows. What is assumed of the constants:

- a marker is not one of the values it marks the lack of: `NoDate` is no date,
  `None` no account, address, incident or health state, `Blank` no reason;
- numbers are natural: cooldowns and ages, retries, amounts, thresholds and
  bounds (a threshold is at least 1);
- `RoomPage`: there are finitely many incidents, and room for a log row at least;
- `Dashboard`: there is a view besides that of the metrics, which the page shows
  first (`state.currentView` starts as `overview`);
- `Messenger`: a message without a sender has none of the senders' ids, and the
  limit is at least 1;
- `AlertPipeline`: `INCIDENT_CREATED` is one of the event types.

`IncidentsProofs`

| theorem | states |
|---|---|
| `TypeCorrect` | `TypeOK` |
| `TimelineNeverLies` | `LogIsEarned` |
| `AnswersShowOwnAction` | `AnswerShowsOwnAction` |
| `CreatedEventsAreReadable` | `CreatedEventIsReadable` |
| `OnlyAckUndoesResolution` | `ResolutionLostOnlyToAck` |
| `OnlyStaleAckErasesDate` | `DateLostOnlyToStaleAck` |
| `ResolutionsStand` | `ResolutionStands`, the two before together |
| `RowsAreAccountedFor` | `RowIsAccountedFor` |
| `ServiceImplementsLifecycle` | `ImplementsLifecycle`, of `SerialSpec` without failures |
| `TimelineExplains` | `TimelineExplainsRow`, of `SerialSpec` without failures |

The invariants are not inductive. `IInv` adds what a request knows at each
point: before its log step it has no entry in any timeline (`NoEntryYet`, so an
entry is written once); where it stands and what it has saved agree (`StageOK`);
past its log step its own entry is in the timeline, and in the logs it answers
with (`OwnEntry`; timelines only grow); and, for the resolution, that once
anyone knows an incident as resolved (a resolution committed, or a pending save
loaded a RESOLVED row, and so may leave the status out) the row says RESOLVED
until an acknowledgement has saved, and the same of the date and stale
acknowledgements (`ResolvedStays`, `DateStays`).

`RowIsAccountedFor` is what remains of `TimelineExplainsRow` when callers
overlap, fail or crash: the timeline need not end with the status of the row,
but the row shows nothing that was not some writer's to write, and no writer is
missing from the timeline but one that failed or has yet to log. `Merge` takes
a column from the row or from the entity, and the entity's date may be one that
an acknowledgement has read; so the invariant adds that such a date is that of
a committed resolution as well (`HeldDatesAreOwned`). What a committed request
wrote stays as it was (`WritesStay`), a step adds to a row only what its own
request brings (`StepWrites`), and a writer leaves its log step with its entry
or fails there (`StepLogs`).

The two theorems listed last are about callers that take turns on an incident, with
`MayFail = FALSE`: the conditions without which the code does not keep them (an
incident's overlapping requests may be logged in another order than saved, and
a crash between the save and the log row loses the entry). `TakeTurns` is
inductive on top of `IInv`: one request runs on an incident at a time, and what
it holds of the row is still true, so `Merge` returns the entity. `SerialSteps`
then goes through the actions: a step `Rests`, as an abstract incident sees it,
or one incident `Moves` and records it. The write of the row moves it, since the
mapping counts the pending log row as written; the log row itself rests, but
for that of a message, which moves. `MovesMap` and `RestsMaps` turn these into
steps of `IncidentLifecycle`. `TimelineExplainsRow` is inductive over them.

`MonitoringProofs`

| theorem | states |
|---|---|
| `TypeCorrect` | `TypeOK` |
| `NoCooldownWithoutEvent` | `NoPhantomCooldown` |
| `ReportsAreAlerted` | `ReportedMeansAlerted` |
| `AlertsAreDue` | `AlertIsDueUnlessDisturbed` |
| `DeletionsStand` | `DeletionStandsUnlessDisturbed` |

`IInv` says of every object that an agent holds and of every row loaded for a
save that its date is no later than the last event (`StampsOK`: the merge of
three such rows is one again), that a date within some cooldown, a triggered
promise or a triggered report has an event behind it (`AlertedOK`), that what
agents hold was created once (`BornOK`), and for an undisturbed rule that its
holder is the only one and its object equals the row but for the stamp or the
edit it is about to save (`UndisturbedOK`), which is why its cooldown test and
its save are right.

`IncidentRoomProofs`

| theorem | states |
|---|---|
| `TypeCorrect` | `TypeOK` |
| `PresenceMatchesRooms` | `PresenceIsMembership` |
| `PresenceReachesRooms` | `PresenceIsTold` |
| `JoinsMissNothing` | `NothingIsMissed` |

`IInv` adds that a socket whose join runs, or was answered, is in the room unless
it has left since (`JoiningIsIn`, `AnsweredIsIn`), that a row is stored before it is
broadcast (`CastIsStored`), and what follows from these two and from the order in
`joinIncident`, first the room, then the snapshot: a row that was broadcast before
the answer is in the snapshot or was heard (`JoiningMissesNothing`).

`WebhookDeliveryProofs`

| theorem | states |
|---|---|
| `TypeCorrect` | `TypeOK` |
| `AnswersAccountForAll` | `AnswerAccountsForAll` |
| `RecordsTellTheTruth` | `RecordsAreTrue` |
| `DuplicatesAreExplained` | `DuplicatesOnlyWhenUnheard` |
| `DeliveriesAreInsulated` | `DeliveryIsInsulated` |
| `KeepsContractSafely` | `WebhookContract`'s `Safety`, under the mapping of `KeepsContract` |

`IInv` adds where a delivery may be: it is under way or recorded exactly when its
webhook was matched and the process has not stopped since (`StageFitsCall`), it
has one record from then on (`RecordedOnce`), and the counters agree with its
stage (`AttemptsAddUp`: until it is recorded, every copy the receiver took went
unheard, and while it waits an attempt is left). A record that says SUCCESS is
true because only the attempt that was heard made it; a second copy is explained
because the first was not heard. For the contract, each action is a step of it
or leaves outcomes and copies alone; the liveness of `KeepsContract` stays with
TLC.

`AlertPipelineProofs`

| theorem | states |
|---|---|
| `PipelineIsDelivery` | the `Safety` of `WebhookDelivery` |
| `TextsGiveReason` | `TextGivesReason` |
| `AnnouncementsAreInsulated` | `DeliveryIsInsulated` |
| `PipelineKeepsContractSafely` | `WebhookContract`'s `Safety` |

Every step of the pipeline is a step of the deliveries or leaves them alone
(`PipelineStep`), so their theorems hold in it. The texts need that a call is
under way for an announced incident only (`Announced`), and a lemma about the
three formatters (`FormatsGiveReason`).

`RoomPageProofs`

| theorem | states |
|---|---|
| `PageShowsOnlyStored` | `TypeOK` |
| `JoinedMeansMember` | `JoinedIsMember` |
| `JoinedSeesBroadcasts` | `JoinedShowsBroadcasts` |
| `ListHasAll` | `ListedUnlessMissed` |

The properties speak of the page at rest or of its room; what keeps them is what
is on its way. `IInv` says that messages, requests and handlers under way refer
to what is stored (`Kinds`); that nothing comes to a page that is offline
(`OfflineIsOut`); that, unless a leave crossed the answer to a join, no leave
stands behind a join or beside an answer that is due, and the snapshots that the
page will show as a member (`Coming`) are of rooms it is in (`MembersAreIn`);
that what was broadcast in such a room is in the last snapshot on its way, or
comes after it as a message, unless that snapshot was overtaken
(`CastsAreCovered`); and that a stored incident is on the list, missed, or its
announcement is on its way (`AllAreKnown`). The middle two are also silent while
the server has dropped the socket (`dropped`): the page's own `Disconnect` and
the empty rooms it leaves make them true again. At rest nothing is on its way,
and the properties are what remains.

`KongAdminProofs`

| theorem | states |
|---|---|
| `OnlyTheActiveAct` | `ActsOnlyWhileActive` |
| `LastGoesOnlyLate` | `SomeoneStaysActive` |
| `TablesAreConsistent` | `TypeOK` |
| `StoredInOrder` | `KongIsInOrder` |

`IInv` adds the shape of the plans (`SavesAreChecked`): an account is saved only
after the step that looked it up and found it to be another than the author, or
the author's own in other letters (`Another`), and only for an author who is
signed in. Every step of a call either ends it or goes
on with the rest of a plan of that shape (`EndedKeeps`, `MoveKeeps`,
`AdvanceKeeps`, `AskKeeps`); only the guard lets a call pass, and a deactivation
marks the calls it overtakes. The last administrator's deactivation is then by
an author who is not active, and so late, or by himself. Kong's steps are cases of the same
lemmas: whatever Kong does, the accounts stay guarded.

For Kong's tables `KInv` adds to `IInv` that they refer only to each other's
entries and that a name is given once (`KongOK`; `NameTaken`, `NameChanged` and
`NamesGone` are what creating, renaming and deleting do to a table of names), that the members of a group have a plugin that lets them in,
or are a named exception (`MembersProtected`), the uniqueness of addresses
(`UsersOK`), and again the shape of the plans, now of all operations: which step
follows which, and what each needs of its arguments (`PlansFit`), and what the
step that is due may rely on (`DueIsReady`: a consumer is admitted only to a
group that a plugin lets in, or did so until its route went or changed).

`DashboardProofs`

| theorem | states |
|---|---|
| `TypeCorrect` | `TypeOK` |
| `HealthFollowsWindows` | `HealthIsEarned` |
| `PageStaysCurrent` | `PageIsCurrent` |
| `MetricsStayLatest` | `ShowsLatestMetrics` |
| `SummariesMatchEvents` | `SummaryMatchesEvents` |

`MetricsInv` ties the error counter of a service to the windows it counts
(`HealthOK`: the last `errors[v]` windows had errors and the one before them had
not). `PageInv` is about the tab: a stream is open in a session only.
`ReachInv` is about what is on its way to it, as in `RoomPage`: the page knows
its user or a flow asks for it (`KnowsItsUser`), it shows the view chosen last or
a flow will draw it (`ChosenIsComing`), and the number it shows is the cached one
or the last update in the stream is (`ReadsAreLatest`, `LatestIsComing`), each
unless `misled`, `strayed` or `behind` says why not.

`SummaryMatchesEvents` compares two loops over the messages, the list that
`findAll` reverses and the map that `findRecipients` fills, each a recursive
function of the number of turns (`Newest`, `Summaries`). The library's induction
theorems take an operator as a parameter and cannot be used; that every set of
natural numbers but the empty one has a least element can (`LeastNumber`, from
the library's `WFMin`), and from it follows induction for a set of numbers
(`InductionOnSet`), that a loop has a result (`LoopExists`) and one of its type
(`LoopTyped`). With these, `LoopsMatch` goes turn by turn: `Matches` says that an
entry is the earliest message of the sender's latest time, `OneMore` that one
message more keeps it so. It needs messages in the order of their times, which
is the inductive invariant (`EventsOK`): a call has the time of the last message
or a later one.

Only model-checked:

- liveness, which is out of the prover's reach: `BreachKeepsAlerting`,
  `CallIsAnswered`, `StoredIsAnnounced`, and that of `KeepsContract`;
- the three properties that the code does not keep.

## 6. Not modelled, and the plan

Written, in this order: Incidents, Monitoring, WebhookDelivery, chosen because an
alert passes through all three and because they have the concurrency, then
IncidentRoom, RoomPage, Accounts, KongAdmin, AlertPipeline, Metrics, Messenger
and Dashboard, and then the proofs, in the order of section 5. Every invariant
and action property of the passing runs is proved; what the plan has left is
the liveness, for provers that can do it.

Not modelled:

- the GraphQL types (`graphql/gong-graphql.types.ts`) and the mappings of answers
  to them: declarations. The resolver's operations are the requests of the modules
  that model the services behind them;
- the generated Kong client (`gateway/kong-client/`), but for the outcome of a
  request: types, serializers and URL building;
- HTML, styles and wording of the two pages, forms' fields;
  fields of entities that nothing decides on; masking of addresses and
  signatures of webhooks; log lines;
- `UsersService.reactivateUser` and the rest of `GenericService`, which nothing
  calls; `common/notification.service.ts`, which only logs;
- the verification handshake of the messenger webhook, and a call of Messenger's
  platform that is delivered again: it is stored again under new ids, as any two
  calls are;
- the infrastructure files (`src/docker-compose.yml`, `src/kong.yaml`,
  `src/prometheus.yml`, `src/rules.yml`): configuration of third-party services.
