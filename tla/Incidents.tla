------------------------------ MODULE Incidents ------------------------------
(***************************************************************************)
(* IncidentsService (gong-core/src/incidents/incidents.service.ts): the    *)
(* incident rows, their timeline of log rows and the requests that read    *)
(* and write both.  REST, GraphQL, the socket gateway and the monitoring   *)
(* event listener all end in these operations.                             *)
(*                                                                         *)
(* The service holds no lock and opens no transaction of its own, so a     *)
(* request is a process with one atomic step per database round trip.      *)
(* TypeORM's save(entity) is two of them: it SELECTs the stored row,       *)
(* compares it with the entity and UPDATEs the columns that differ.        *)
(***************************************************************************)
EXTENDS Naturals, Sequences

CONSTANTS
  Ids,        \* incident ids (randomUUID)
  Requests,   \* requests; each runs one operation
  Dates,      \* the values new Date() may take; only their equality matters
  NoDate,     \* SQL NULL in resolved_at
  Menu,       \* the operations callers ask for
  MayFail     \* whether database calls may fail and the process may crash

ASSUME DatesAssumption == NoDate \notin Dates
ASSUME MayFailAssumption == MayFail \in BOOLEAN

VARIABLES
  rows,     \* table incidents: rows[i] is NoRow until i is inserted
  logs,     \* table incident_logs, in the order of (created_at, id)
  events,   \* incidents whose 'incident.created' event has been emitted
  op,       \* op[r]: the operation request r runs
  target,   \* target[r]: the incident it is about
  pc,       \* pc[r]: the round trip request r does next
  entity,   \* entity[r]: the IncidentEntity object r holds and mutates
  loaded,   \* loaded[r]: the row save() compares entity[r] with
  snap,     \* snap[r]: the IncidentSnapshot r builds for its caller
  saved     \* history: requests whose write of the incident row committed

data  == <<rows, logs, events>>
local == <<op, target, entity, loaded, snap>>
vars  == <<rows, logs, events, op, target, pc, entity, loaded, snap, saved>>

-----------------------------------------------------------------------------
(* The values. *)

Statuses == {"OPEN", "ACKNOWLEDGED", "RESOLVED"}

Row == [status : Statuses \cup {"NONE"}, resolvedAt : Dates \cup {NoDate}]

NoRow == [status |-> "NONE", resolvedAt |-> NoDate]

Ops == {"create", "ack", "resolve", "message", "view"}

\* the operations that write the incident row
Writers == {"create", "ack", "resolve"}

LogActions == {"CREATED", "ACKNOWLEDGED", "RESOLVED", "MESSAGE"}

\* Variant: a log action that is no member of the enum.
ActionOutsideEnum(o) == IF o = "ack" THEN "ACK" ELSE "MESSAGE"

Action(o) == CASE o = "create"  -> "CREATED"
               [] o = "ack"     -> "ACKNOWLEDGED"
               [] o = "resolve" -> "RESOLVED"
               [] OTHER         -> "MESSAGE"

Entry == [req : Requests, action : LogActions]

EntryOf(r) == [req |-> r, action |-> Action(op[r])]

EmptySnap == [incident |-> NoRow, logs |-> <<>>]

Steps == {"idle", "load", "write", "log", "emit",
          "readIncident", "readLogs", "done", "failed"}

Pending == Steps \ {"idle", "done", "failed"}

Exists(i) == rows[i].status # "NONE"

-----------------------------------------------------------------------------
Init ==
  /\ rows   = [i \in Ids |-> NoRow]
  /\ logs   = [i \in Ids |-> <<>>]
  /\ events = {}
  /\ op     = [r \in Requests |-> "view"]
  /\ target \in [Requests -> Ids]
  /\ pc     = [r \in Requests |-> "idle"]
  /\ entity = [r \in Requests |-> NoRow]
  /\ loaded = [r \in Requests |-> NoRow]
  /\ snap   = [r \in Requests |-> EmptySnap]
  /\ saved  = {}

Begin(r, o, next) ==
  /\ pc[r] = "idle"
  /\ o \in Menu
  /\ op' = [op EXCEPT ![r] = o]
  /\ pc' = [pc EXCEPT ![r] = next]

Goto(r, from, to) ==
  /\ pc[r] = from
  /\ pc' = [pc EXCEPT ![r] = to]

\* Variant: the event is emitted as soon as the row is stored.
CreateIncidentEmitsEarly(r) ==
  LET i == target[r] IN
  /\ ~Exists(i)
  /\ Begin(r, "create", "log")
  /\ rows' = [rows EXCEPT ![i] = [status |-> "OPEN", resolvedAt |-> NoDate]]
  /\ saved' = saved \cup {r}
  /\ events' = events \cup {i}
  /\ UNCHANGED <<logs, target, entity, loaded, snap>>

\* createIncident: the INSERT of an OPEN row under a fresh id.  A failed
\* INSERT leaves nothing behind and is not a step.
CreateIncident(r) ==
  LET i == target[r] IN
  /\ ~Exists(i)
  /\ Begin(r, "create", "log")
  /\ rows' = [rows EXCEPT ![i] = [status |-> "OPEN", resolvedAt |-> NoDate]]
  /\ saved' = saved \cup {r}
  /\ UNCHANGED <<logs, events, target, entity, loaded, snap>>

\* getIncidentOrThrow at the head of an operation: NotFoundException, or the
\* row becomes an entity in memory.
FindOrThrow(r, o, next, found) ==
  /\ Begin(r, o, IF Exists(target[r]) THEN next ELSE "failed")
  /\ entity' = IF Exists(target[r]) THEN [entity EXCEPT ![r] = found] ELSE entity
  /\ UNCHANGED <<rows, logs, events, target, loaded, snap, saved>>

\* Variant: the acknowledgement is logged before the row is saved.
AcknowledgeLogsFirst(r) ==
  FindOrThrow(r, "ack", "log",
              [rows[target[r]] EXCEPT !.status = "ACKNOWLEDGED"])

\* Variant: an acknowledgement clears the date of the resolution.
AcknowledgeReopens(r) ==
  FindOrThrow(r, "ack", "load", [status |-> "ACKNOWLEDGED", resolvedAt |-> NoDate])

\* Variant: an acknowledgement sets the date, as a resolution does.
AcknowledgeDated(r) ==
  \E t \in Dates :
    FindOrThrow(r, "ack", "load", [status |-> "ACKNOWLEDGED", resolvedAt |-> t])

\* acknowledge: read, set the status (resolvedAt keeps what was read).
Acknowledge(r) ==
  FindOrThrow(r, "ack", "load",
              [rows[target[r]] EXCEPT !.status = "ACKNOWLEDGED"])

\* Variant: resolve forgets the date.
ResolveUndated(r) ==
  FindOrThrow(r, "resolve", "load", [rows[target[r]] EXCEPT !.status = "RESOLVED"])

\* resolve: read, set the status and the date.
Resolve(r) ==
  \E t \in Dates :
    FindOrThrow(r, "resolve", "load", [status |-> "RESOLVED", resolvedAt |-> t])

\* Variant: a message saves the incident it read, to touch updatedAt.
SendMessageTouchesRow(r) == FindOrThrow(r, "message", "load", rows[target[r]])

\* sendMessage: an existence check, then the log row.
SendMessage(r) == FindOrThrow(r, "message", "log", rows[target[r]])

\* getIncidentSnapshot on its own (GET /incidents/:id, the created feed).
View(r) ==
  /\ Begin(r, "view", "readIncident")
  /\ UNCHANGED <<data, target, entity, loaded, snap, saved>>

\* save(entity), first half: SELECT the row as it is now.
LoadForSave(r) ==
  /\ Goto(r, "load", "write")
  /\ loaded' = [loaded EXCEPT ![r] = rows[target[r]]]
  /\ UNCHANGED <<data, op, target, entity, snap, saved>>

\* The columns in which the entity differs from the loaded row are written,
\* the others keep whatever the row holds by now.
Merge(new, old, row) ==
  [status     |-> IF new.status = old.status
                    THEN row.status ELSE new.status,
   resolvedAt |-> IF new.resolvedAt = old.resolvedAt
                    THEN row.resolvedAt ELSE new.resolvedAt]

\* Variant: the caller is answered without a log row.
WriteRowUnlogged(r) ==
  /\ Goto(r, "write", "readIncident")
  /\ rows' = [rows EXCEPT ![target[r]] = Merge(entity[r], loaded[r], @)]
  /\ saved' = saved \cup {r}
  /\ UNCHANGED <<logs, events, local>>

\* save(entity), second half: UPDATE the changed columns.
WriteRow(r) ==
  /\ Goto(r, "write", "log")
  /\ rows' = [rows EXCEPT ![target[r]] = Merge(entity[r], loaded[r], @)]
  /\ saved' = saved \cup {r}
  /\ UNCHANGED <<logs, events, local>>

\* appendLog: the INSERT of the log row.
AppendLog(r) ==
  /\ Goto(r, "log", CASE op[r] = "create"  -> "emit"
                      [] op[r] = "message" -> "done"
                      [] OTHER             -> "readIncident")
  /\ logs' = [logs EXCEPT ![target[r]] = Append(@, EntryOf(r))]
  /\ UNCHANGED <<rows, events, local, saved>>

\* createIncident after its log row: emit('incident.created').
EmitCreated(r) ==
  /\ Goto(r, "emit", "readIncident")
  /\ events' = events \cup {target[r]}
  /\ UNCHANGED <<rows, logs, local, saved>>

\* getIncidentSnapshot: the incident row first ...
ReadIncident(r) ==
  LET i == target[r] IN
  /\ Goto(r, "readIncident", IF Exists(i) THEN "readLogs" ELSE "failed")
  /\ snap' = [snap EXCEPT ![r].incident = rows[i]]
  /\ UNCHANGED <<data, op, target, entity, loaded, saved>>

\* ... then its log rows, and the answer goes to the caller.
ReadLogs(r) ==
  /\ Goto(r, "readLogs", "done")
  /\ snap' = [snap EXCEPT ![r].logs = logs[target[r]]]
  /\ UNCHANGED <<data, op, target, entity, loaded, saved>>

\* A database call rejects, or its answer is lost after the commit: the
\* request throws and nothing it did is undone.
Fail(r) ==
  /\ MayFail
  /\ pc[r] \in Pending
  /\ pc' = [pc EXCEPT ![r] = "failed"]
  /\ UNCHANGED <<data, local, saved>>

\* The process stops: every request in progress is gone, the tables stay.
Crash ==
  /\ MayFail
  /\ \E r \in Requests : pc[r] \in Pending
  /\ pc' = [r \in Requests |-> IF pc[r] \in Pending THEN "failed" ELSE pc[r]]
  /\ UNCHANGED <<data, local, saved>>

Start(r) == \/ CreateIncident(r)
            \/ Acknowledge(r)
            \/ Resolve(r)
            \/ SendMessage(r)
            \/ View(r)

Continue(r) == \/ LoadForSave(r)
               \/ WriteRow(r)
               \/ AppendLog(r)
               \/ EmitCreated(r)
               \/ ReadIncident(r)
               \/ ReadLogs(r)

Next == \/ \E r \in Requests : Start(r) \/ Continue(r) \/ Fail(r)
        \/ Crash

Spec == Init /\ [][Next]_vars

-----------------------------------------------------------------------------
(* The same service when the callers take turns on an incident: no request *)
(* is started on an incident while another one is still running on it.     *)

Turn(r) == \A q \in Requests : pc[q] \in Pending => target[q] # target[r]

SerialNext == \/ \E r \in Requests : \/ Turn(r) /\ Start(r)
                                     \/ Continue(r)
                                     \/ Fail(r)
              \/ Crash

SerialSpec == Init /\ [][SerialNext]_vars

-----------------------------------------------------------------------------
(* Properties. *)

InLog(r, i) == \E n \in 1..Len(logs[i]) : logs[i][n] = EntryOf(r)

\* Every variable holds a value of its kind.
TypeOK ==
  /\ rows \in [Ids -> Row]
  /\ logs \in [Ids -> Seq(Entry)]
  /\ events \subseteq Ids
  /\ op \in [Requests -> Ops]
  /\ target \in [Requests -> Ids]
  /\ pc \in [Requests -> Steps]
  /\ entity \in [Requests -> Row]
  /\ loaded \in [Requests -> Row]
  /\ snap \in [Requests -> [incident : Row, logs : Seq(Entry)]]
  /\ saved \subseteq Requests

(* The timeline never lies: an entry stands only in the timeline of the    *)
(* incident its request was about, at most once, and only after the row    *)
(* change it reports has committed, whatever fails in between.             *)
LogIsEarned ==
  \A i \in Ids : \A n \in 1..Len(logs[i]) :
    LET r == logs[i][n].req IN
    /\ target[r] = i
    /\ logs[i][n] = EntryOf(r)
    /\ op[r] \in Writers => r \in saved
    /\ \A m \in 1..Len(logs[i]) : logs[i][m].req = r => m = n

(* A caller that gets an answer to a create, ack or resolve finds its own  *)
(* action in the snapshot it is given, beside the incident it was about.   *)
AnswerShowsOwnAction ==
  \A r \in Requests : pc[r] = "done" /\ op[r] \in Writers =>
    /\ snap[r].incident # NoRow
    /\ \E n \in 1..Len(snap[r].logs) : snap[r].logs[n] = EntryOf(r)

(* Whoever reacts to 'incident.created' (feed, webhooks, SSE) can read the *)
(* incident and its CREATED entry.                                         *)
CreatedEventIsReadable ==
  \A i \in events :
    /\ Exists(i)
    /\ \E n \in 1..Len(logs[i]) : logs[i][n].action = "CREATED"

(* However requests overlap, fail or are cut off by a crash, a committed   *)
(* resolution leaves the status RESOLVED unless an acknowledgement wrote   *)
(* the row too: resolves, creates and messages never undo each other.      *)
ResolutionLostOnlyToAck ==
  \A r \in saved :
    op[r] = "resolve" /\ rows[target[r]].status # "RESOLVED" =>
      \E a \in saved : op[a] = "ack" /\ target[a] = target[r]

(* The date of a committed resolution is erased only by an acknowledgement *)
(* that had read the incident before it was resolved; one that read it     *)
(* later writes the date back or leaves it alone.                          *)
DateLostOnlyToStaleAck ==
  \A r \in saved :
    op[r] = "resolve" /\ rows[target[r]].resolvedAt = NoDate =>
      \E a \in saved : /\ op[a] = "ack"
                       /\ target[a] = target[r]
                       /\ entity[a].resolvedAt = NoDate

\* A resolution is undone by acknowledgements only: its date by stale ones.
ResolutionStands == ResolutionLostOnlyToAck /\ DateLostOnlyToStaleAck

-----------------------------------------------------------------------------
(* The abstract incident.  A write counts as recorded from the moment the  *)
(* row changes: its log row follows before the next caller's turn.         *)

Recording(i) == {r \in Requests : /\ target[r] = i
                                  /\ pc[r] = "log"
                                  /\ op[r] \in Writers}

TimelineOf(i) ==
  [n \in 1..Len(logs[i]) |-> logs[i][n].action] \o
  (IF Recording(i) = {} THEN <<>>
   ELSE <<Action(op[CHOOSE r \in Recording(i) : TRUE])>>)

Lifecycle == INSTANCE IncidentLifecycle WITH
  status     <- [i \in Ids |-> rows[i].status],
  resolvedAt <- [i \in Ids |-> rows[i].resolvedAt],
  timeline   <- [i \in Ids |-> TimelineOf(i)]

(* When callers take turns and nothing fails, the service is the abstract  *)
(* incident: every step changes row and timeline together or not at all.   *)
(* The abstract incident makes the code's promise, not that of             *)
(* ARCHITECTUR.md, whose drawing ends at RESOLVED (see IncidentLifecycle). *)
ImplementsLifecycle == Lifecycle!Spec

(* ... and so the timeline explains the row at every moment.               *)
TimelineExplainsRow == Lifecycle!TimelineExplainsRow

(* However requests overlap, fail or are cut off by a crash, an incident   *)
(* shows nothing but the work of requests that wrote it, its date that of  *)
(* a resolution; and each of them is in the timeline, unless it has yet to *)
(* log its write or failed before it did.                                  *)
RowIsAccountedFor ==
  /\ \A r \in saved : InLog(r, target[r]) \/ pc[r] \in {"log", "failed"}
  /\ \A i \in Ids :
       /\ Exists(i) =>
            \E r \in saved : /\ target[r] = i
                             /\ rows[i].status = Lifecycle!StatusOf[Action(op[r])]
       /\ rows[i].resolvedAt # NoDate =>
            \E r \in saved : /\ target[r] = i /\ op[r] = "resolve"
                             /\ rows[i].resolvedAt = entity[r].resolvedAt

(* ARCHITECTUR.md, section 9, on the state RESOLVED: "Incident is closed   *)
(* and resolvedAt is set."                                                 *)
ResolvedHasDate ==
  \A i \in Ids : rows[i].status = "RESOLVED" => rows[i].resolvedAt # NoDate

=============================================================================
