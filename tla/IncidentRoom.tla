----------------------------- MODULE IncidentRoom -----------------------------
(***************************************************************************)
(* IncidentRoomGateway (gong-core/src/incidents/incident-room.gateway.ts): *)
(* the Socket.IO rooms of incidents, the map of who is present, and what   *)
(* the sockets are told.                                                   *)
(*                                                                         *)
(* A handler runs up to its first database call in one step: the awaits of *)
(* client.join and client.leave only yield to other microtasks, for rooms  *)
(* are kept in memory.  Requests of the sockets are taken as they reach    *)
(* the server; what a socket has been told counts from when it was sent.   *)
(* The feed of new incidents is not modelled.                              *)
(***************************************************************************)
EXTENDS FiniteSets

CONSTANTS
  Ids,       \* incidents
  Sockets,   \* connections; one that reconnects is another socket
  Requests,  \* requests; each is used once
  MayFail    \* whether database calls may fail

ASSUME MayFailAssumption == MayFail \in BOOLEAN

VARIABLES
  online,    \* connected sockets
  room,      \* room[i]: the sockets in the Socket.IO room of incident i
  presence,  \* presenceByIncident: presence[i] is the set of socket ids
  logs,      \* logs[i]: the requests whose log row is stored
  op,        \* op[r]: what request r is
  who,       \* who[r]: the socket that sent it
  about,     \* about[r]: the incident it is about
  pc,        \* pc[r]: what its handler does next
  snap,      \* snap[r]: the log rows of the snapshot it holds
  told,      \* told[s][i]: the presence of i that s was last sent
  heard,     \* heard[s][i]: the log rows of i that s was sent so far
  answered,  \* history: answered[i] have got incidentJoined for this stay
  stale,     \* history: joins whose socket has left since they entered
  cast       \* history: requests whose broadcast was sent

request == <<op, who, about>>
client  == <<told, heard, answered>>
vars    == <<online, room, presence, logs, op, who, about, pc, snap,
             told, heard, answered, stale, cast>>

-----------------------------------------------------------------------------
Ops == {"join", "message", "update"}

Steps == {"idle", "read", "answer", "cast", "done", "failed"}

Init ==
  /\ online   = Sockets
  /\ room     = [i \in Ids |-> {}]
  /\ presence = [i \in Ids |-> {}]
  /\ logs     = [i \in Ids |-> {}]
  /\ op       = [r \in Requests |-> "join"]
  /\ who      \in [Requests -> Sockets]
  /\ about    \in [Requests -> Ids]
  /\ pc       = [r \in Requests |-> "idle"]
  /\ snap     = [r \in Requests |-> {}]
  /\ told     = [s \in Sockets |-> [i \in Ids |-> {}]]
  /\ heard    = [s \in Sockets |-> [i \in Ids |-> {}]]
  /\ answered = [i \in Ids |-> {}]
  /\ stale    = {}
  /\ cast     = {}

\* The handler of r starts as operation o and does next afterwards.
Begin(r, o, next) ==
  /\ pc[r] = "idle"
  /\ op' = [op EXCEPT ![r] = o]
  /\ pc' = [pc EXCEPT ![r] = next]
  /\ UNCHANGED <<who, about>>

Goto(r, from, to) ==
  /\ pc[r] = from
  /\ pc' = [pc EXCEPT ![r] = to]
  /\ UNCHANGED request

\* emitPresence for the incidents in I, when the rooms are R and P is who is
\* present: every socket in such a room is sent the list.
Tell(I, R, P) ==
  [s \in Sockets |-> [i \in Ids |->
     IF i \in I /\ s \in R[i] THEN P[i] ELSE told[s][i]]]

\* The sockets in S are sent the log rows in L of incident i.
Hear(S, i, L) ==
  [s \in Sockets |-> IF s \in S THEN [heard[s] EXCEPT ![i] = @ \cup L]
                                ELSE heard[s]]

-----------------------------------------------------------------------------
(* joinIncident. *)

\* Enter the room and the presence list.  What the socket was told of this
\* room before it entered does not count.
Join(r) ==
  LET i == about[r]
      s == who[r] IN
  /\ s \in online
  /\ Begin(r, "join", "read")
  /\ room' = [room EXCEPT ![i] = @ \cup {s}]
  /\ presence' = [presence EXCEPT ![i] = @ \cup {s}]
  /\ told' = IF s \in room[i] THEN told ELSE [told EXCEPT ![s][i] = {}]
  /\ UNCHANGED <<online, logs, snap, heard, answered, stale, cast>>

\* Variant: every snapshot is answered as a join.
ReadSnapshotToAnswer(r) ==
  /\ Goto(r, "read", "answer")
  /\ snap' = [snap EXCEPT ![r] = logs[about[r]]]
  /\ UNCHANGED <<online, room, presence, logs, client, stale, cast>>

\* Variant: a snapshot that another request still holds is used again.
ReadSnapshotShared(r) ==
  /\ Goto(r, "read", IF op[r] = "join" THEN "answer" ELSE "cast")
  /\ \E q \in Requests :
       /\ about[q] = about[r]
       /\ q = r \/ pc[q] = "answer"
       /\ snap' = [snap EXCEPT ![r] = IF q = r THEN logs[about[r]] ELSE snap[q]]
  /\ UNCHANGED <<online, room, presence, logs, client, stale, cast>>

\* getIncidentSnapshot, for joins and updates.
ReadSnapshot(r) ==
  /\ Goto(r, "read", IF op[r] = "join" THEN "answer" ELSE "cast")
  /\ snap' = [snap EXCEPT ![r] = logs[about[r]]]
  /\ UNCHANGED <<online, room, presence, logs, client, stale, cast>>

\* Variant: the others are not sent the new presence.
AnswerJoinQuietly(r) ==
  LET i == about[r]
      s == who[r] IN
  /\ Goto(r, "answer", "done")
  /\ heard' = IF s \in online THEN Hear({s}, i, snap[r]) ELSE heard
  /\ told' = Tell({i}, [room EXCEPT ![i] = {s} \cap online], presence)
  /\ answered' = IF r \in stale THEN answered
                                ELSE [answered EXCEPT ![i] = @ \cup {s}]
  /\ snap' = [snap EXCEPT ![r] = {}]
  /\ UNCHANGED <<online, room, presence, logs, stale, cast>>

\* incidentJoined to the socket, presenceUpdated to the room.  Both carry the
\* presence; the socket need not be in the room any more.
AnswerJoin(r) ==
  LET i == about[r]
      s == who[r] IN
  /\ Goto(r, "answer", "done")
  /\ heard' = IF s \in online THEN Hear({s}, i, snap[r]) ELSE heard
  /\ told' = Tell({i}, [room EXCEPT ![i] = @ \cup ({s} \cap online)], presence)
  /\ answered' = IF r \in stale THEN answered
                                ELSE [answered EXCEPT ![i] = @ \cup {s}]
  /\ snap' = [snap EXCEPT ![r] = {}]
  /\ UNCHANGED <<online, room, presence, logs, stale, cast>>

-----------------------------------------------------------------------------
(* Leaving. *)

\* The joins of s that are about an incident in I and still run.
Pending(s, I) ==
  {r \in Requests : /\ who[r] = s
                    /\ about[r] \in I
                    /\ op[r] = "join"
                    /\ pc[r] \in {"read", "answer"}}

\* Variant: only the presence list is left.
LeaveKeepsRoom(s, i) ==
  /\ s \in online
  /\ presence' = [presence EXCEPT ![i] = @ \ {s}]
  /\ told'     = Tell({i}, room, presence')
  /\ answered' = [answered EXCEPT ![i] = @ \ {s}]
  /\ stale'    = stale \cup Pending(s, {i})
  /\ UNCHANGED <<online, room, logs, request, pc, snap, heard, cast>>

\* leaveIncident.
Leave(s, i) ==
  /\ s \in online
  /\ room'     = [room EXCEPT ![i] = @ \ {s}]
  /\ presence' = [presence EXCEPT ![i] = @ \ {s}]
  /\ told'     = Tell({i}, room', presence')
  /\ answered' = [answered EXCEPT ![i] = @ \ {s}]
  /\ stale'    = stale \cup Pending(s, {i})
  /\ UNCHANGED <<online, logs, request, pc, snap, heard, cast>>

\* Variant: the others are not sent the new presence.
DisconnectQuietly(s) ==
  /\ s \in online
  /\ online'   = online \ {s}
  /\ room'     = [i \in Ids |-> room[i] \ {s}]
  /\ presence' = [i \in Ids |-> presence[i] \ {s}]
  /\ answered' = [i \in Ids |-> answered[i] \ {s}]
  /\ stale'    = stale \cup Pending(s, Ids)
  /\ UNCHANGED <<logs, request, pc, snap, told, heard, cast>>

\* Socket.IO takes the socket out of its rooms, then handleDisconnect takes
\* it off every list and sends the lists.
Disconnect(s) ==
  /\ s \in online
  /\ online'   = online \ {s}
  /\ room'     = [i \in Ids |-> room[i] \ {s}]
  /\ presence' = [i \in Ids |-> presence[i] \ {s}]
  /\ told'     = Tell({i \in Ids : presence[i] # {}}, room', presence')
  /\ answered' = [i \in Ids |-> answered[i] \ {s}]
  /\ stale'    = stale \cup Pending(s, Ids)
  /\ UNCHANGED <<logs, request, pc, snap, heard, cast>>

-----------------------------------------------------------------------------
(* sendMessage, ackIncident, resolveIncident: the service stores a log row *)
(* (IncidentsService, see Incidents.tla), then the room is told.  By then  *)
(* the sender may have gone.                                               *)

Store(r, o, next) ==
  /\ Begin(r, o, next)
  /\ logs' = [logs EXCEPT ![about[r]] = @ \cup {r}]
  /\ UNCHANGED <<online, room, presence, snap, client, stale, cast>>

SendMessage(r) == Store(r, "message", "cast")

\* ackIncident and resolveIncident answer with a whole snapshot.
Update(r) == Store(r, "update", "read")

\* REST and GraphQL requests store log rows too, and tell no room.
StoreElsewhere(r) == Store(r, "message", "done")

\* incidentMessage or incidentUpdated to the room.
Broadcast(r) ==
  LET i == about[r] IN
  /\ Goto(r, "cast", "done")
  /\ heard' = Hear(room[i], i, IF op[r] = "message" THEN {r} ELSE snap[r])
  /\ cast' = cast \cup {r}
  /\ snap' = [snap EXCEPT ![r] = {}]
  /\ UNCHANGED <<online, room, presence, logs, told, answered, stale>>

\* The snapshot cannot be read: incidentError to the socket, and that is all.
\* A request that fails before it has stored its row changes nothing here.
Fail(r) ==
  /\ MayFail
  /\ Goto(r, "read", "failed")
  /\ UNCHANGED <<online, room, presence, logs, snap, client, stale, cast>>

Next ==
  \/ \E r \in Requests : \/ Join(r)
                         \/ ReadSnapshot(r)
                         \/ AnswerJoin(r)
                         \/ SendMessage(r)
                         \/ Update(r)
                         \/ StoreElsewhere(r)
                         \/ Broadcast(r)
                         \/ Fail(r)
  \/ \E s \in Sockets, i \in Ids : Leave(s, i)
  \/ \E s \in Sockets : Disconnect(s)

Spec == Init /\ [][Next]_vars

-----------------------------------------------------------------------------
(* Properties. *)

\* Every variable holds a value of its kind, and a handler ends in the way of
\* its operation: joins answer, messages and updates tell the room.
TypeOK ==
  /\ online \subseteq Sockets
  /\ room \in [Ids -> SUBSET Sockets]
  /\ presence \in [Ids -> SUBSET Sockets]
  /\ logs \in [Ids -> SUBSET Requests]
  /\ op \in [Requests -> Ops]
  /\ who \in [Requests -> Sockets]
  /\ about \in [Requests -> Ids]
  /\ pc \in [Requests -> Steps]
  /\ snap \in [Requests -> SUBSET Requests]
  /\ told \in [Sockets -> [Ids -> SUBSET Sockets]]
  /\ heard \in [Sockets -> [Ids -> SUBSET Requests]]
  /\ answered \in [Ids -> SUBSET Sockets]
  /\ stale \subseteq Requests
  /\ cast \subseteq Requests
  /\ \A r \in Requests : /\ pc[r] = "read" => op[r] \in {"join", "update"}
                         /\ pc[r] = "answer" => op[r] = "join"
                         /\ pc[r] = "cast" => op[r] \in {"message", "update"}

(* The presence list of an incident is who gets its broadcasts, and no     *)
(* socket that has gone stays on it, whatever joins, leaves and            *)
(* disconnects overlap.                                                    *)
PresenceIsMembership ==
  \A i \in Ids : presence[i] = room[i] /\ room[i] \subseteq online

(* Nobody in a room is shown a socket that has left it, and two sockets    *)
(* that both were told they joined are shown each other.                   *)
PresenceIsTold ==
  \A i \in Ids : \A s \in room[i] :
    /\ told[s][i] \subseteq presence[i]
    /\ s \in answered[i] => answered[i] \subseteq told[s][i]

(* A socket that was told it joined has been sent every log row that was   *)
(* broadcast, before it entered, while its snapshot was read, or since.    *)
NothingIsMissed ==
  \A i \in Ids : \A s \in answered[i], r \in cast :
    about[r] = i => r \in heard[s][i]

=============================================================================
