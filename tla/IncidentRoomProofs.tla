-------------------------- MODULE IncidentRoomProofs --------------------------
(***************************************************************************)
(* Theorems about IncidentRoom, for all sets of incidents, sockets and     *)
(* requests, with or without failures.                                     *)
(***************************************************************************)
EXTENDS IncidentRoom, TLAPS

-----------------------------------------------------------------------------
(* The inductive invariant. *)

\* Who was told it joined is in the room.
AnsweredIsIn == \A i \in Ids : answered[i] \subseteq room[i]

\* So is a socket whose join still runs, unless it has left since.
JoiningIsIn ==
  \A r \in Requests :
    op[r] = "join" /\ pc[r] \in {"read", "answer"} /\ r \notin stale
      => who[r] \in room[about[r]]

\* What is about to be broadcast, or was, is stored.
CastIsStored ==
  \A r \in Requests :
    /\ r \in cast => r \in logs[about[r]]
    /\ pc[r] = "cast" => r \in logs[about[r]]
    /\ pc[r] = "read" /\ op[r] = "update" => r \in logs[about[r]]
    /\ pc[r] = "cast" /\ op[r] = "update" => r \in snap[r]

\* A join about to be answered has in its snapshot, or its socket has heard,
\* every row that was broadcast.
JoiningMissesNothing ==
  \A r \in Requests, q \in cast :
    pc[r] = "answer" /\ r \notin stale /\ about[q] = about[r]
      => q \in snap[r] \/ q \in heard[who[r]][about[r]]

IInv ==
  /\ TypeOK
  /\ PresenceIsMembership
  /\ PresenceIsTold
  /\ AnsweredIsIn
  /\ JoiningIsIn
  /\ CastIsStored
  /\ JoiningMissesNothing
  /\ NothingIsMissed

-----------------------------------------------------------------------------
(* One lemma for the initial states and one for each action. *)

LEMMA InitInv == Init => IInv
  BY DEF Init, IInv, TypeOK, PresenceIsMembership, PresenceIsTold, AnsweredIsIn,
         JoiningIsIn, CastIsStored, JoiningMissesNothing, NothingIsMissed,
         Ops, Steps

\* Joining puts one socket in one room and on its list, and it is not shown
\* anybody yet.
LEMMA JoinInv ==
  ASSUME IInv, NEW r \in Requests, Join(r)
  PROVE  IInv'
<1> DEFINE i == about[r]
           s == who[r]
<1> USE DEF IInv
<1>1. i \in Ids /\ s \in Sockets /\ s \in online
  BY DEF Join, Begin, TypeOK
<1>2. /\ about' = about /\ who' = who /\ online' = online /\ logs' = logs
      /\ snap' = snap /\ heard' = heard /\ answered' = answered
      /\ stale' = stale /\ cast' = cast
  BY DEF Join, Begin
<1>3. /\ op' = [op EXCEPT ![r] = "join"]
      /\ pc[r] = "idle" /\ pc' = [pc EXCEPT ![r] = "read"]
  BY DEF Join, Begin
<1>4. /\ room' = [room EXCEPT ![i] = @ \cup {s}]
      /\ presence' = [presence EXCEPT ![i] = @ \cup {s}]
      /\ told' = IF s \in room[i] THEN told ELSE [told EXCEPT ![s][i] = {}]
  BY DEF Join
<1>5. TypeOK'
  <2>1. told' \in [Sockets -> [Ids -> SUBSET Sockets]]
    BY <1>1, <1>4 DEF TypeOK
  <2> QED BY <1>1, <1>2, <1>3, <1>4, <2>1 DEF TypeOK, Ops, Steps
<1>6. PresenceIsMembership'
  BY <1>1, <1>2, <1>4 DEF TypeOK, PresenceIsMembership
<1>7. PresenceIsTold'
  <2> SUFFICES ASSUME NEW j \in Ids, NEW t \in room'[j]
               PROVE  /\ told'[t][j] \subseteq presence'[j]
                      /\ t \in answered[j] => answered[j] \subseteq told'[t][j]
    BY <1>2 DEF PresenceIsTold
  <2>1. CASE t \in room[j]
    <3>1. told'[t][j] = told[t][j]
      BY <1>1, <1>4, <2>1 DEF TypeOK, PresenceIsMembership
    <3>2. presence[j] \subseteq presence'[j]
      BY <1>1, <1>4 DEF TypeOK
    <3> QED BY <2>1, <3>1, <3>2 DEF PresenceIsTold
  <2>2. CASE t \notin room[j]
    <3>1. t = s /\ j = i
      BY <1>1, <1>4, <2>2 DEF TypeOK
    <3>2. told'[t][j] = {}
      BY <1>1, <1>4, <2>2, <3>1 DEF TypeOK
    <3>3. t \notin answered[j]
      BY <2>2 DEF AnsweredIsIn
    <3> QED BY <3>2, <3>3
  <2> QED BY <2>1, <2>2
<1>8. AnsweredIsIn'
  BY <1>1, <1>2, <1>4 DEF TypeOK, AnsweredIsIn
<1>9. JoiningIsIn'
  <2> SUFFICES ASSUME NEW q \in Requests, op'[q] = "join",
                      pc'[q] \in {"read", "answer"}, q \notin stale
               PROVE  who[q] \in room'[about[q]]
    BY <1>2 DEF JoiningIsIn
  <2>1. CASE q = r
    BY <1>1, <1>4, <2>1 DEF TypeOK
  <2>2. CASE q # r
    <3>1. who[q] \in room[about[q]]
      BY <1>3, <2>2 DEF TypeOK, JoiningIsIn
    <3> QED BY <1>1, <1>4, <3>1 DEF TypeOK
  <2> QED BY <2>1, <2>2
<1>10. CastIsStored'
  BY <1>2, <1>3 DEF TypeOK, CastIsStored
<1>11. JoiningMissesNothing'
  BY <1>2, <1>3 DEF TypeOK, JoiningMissesNothing
<1>12. NothingIsMissed'
  BY <1>2 DEF NothingIsMissed
<1> QED BY <1>5, <1>6, <1>7, <1>8, <1>9, <1>10, <1>11, <1>12

\* A snapshot holds all that was broadcast so far, for that is stored.
LEMMA ReadSnapshotInv ==
  ASSUME IInv, NEW r \in Requests, ReadSnapshot(r)
  PROVE  IInv'
<1> USE DEF IInv
<1>1. /\ pc[r] = "read"
      /\ pc' = [pc EXCEPT ![r] = IF op[r] = "join" THEN "answer" ELSE "cast"]
      /\ snap' = [snap EXCEPT ![r] = logs[about[r]]]
  BY DEF ReadSnapshot, Goto
<1>2. /\ op' = op /\ who' = who /\ about' = about /\ online' = online
      /\ room' = room /\ presence' = presence /\ logs' = logs /\ told' = told
      /\ heard' = heard /\ answered' = answered /\ stale' = stale
      /\ cast' = cast
  BY DEF ReadSnapshot, Goto, request, client
<1>3. TypeOK'
  BY <1>1, <1>2 DEF TypeOK, Ops, Steps
<1>4. PresenceIsMembership' /\ PresenceIsTold' /\ AnsweredIsIn'
  BY <1>2 DEF PresenceIsMembership, PresenceIsTold, AnsweredIsIn
<1>5. JoiningIsIn'
  BY <1>1, <1>2 DEF TypeOK, JoiningIsIn
<1>6. CastIsStored'
  BY <1>1, <1>2 DEF TypeOK, CastIsStored
<1>7. JoiningMissesNothing'
  BY <1>1, <1>2 DEF TypeOK, JoiningMissesNothing, CastIsStored
<1>8. NothingIsMissed'
  BY <1>2 DEF NothingIsMissed
<1> QED BY <1>3, <1>4, <1>5, <1>6, <1>7, <1>8

\* What Tell says to each socket.
LEMMA TellIs ==
  ASSUME TypeOK, NEW I, NEW R, NEW P \in [Ids -> SUBSET Sockets]
  PROVE  /\ Tell(I, R, P) \in [Sockets -> [Ids -> SUBSET Sockets]]
         /\ \A s \in Sockets, j \in Ids :
              Tell(I, R, P)[s][j] =
                IF j \in I /\ s \in R[j] THEN P[j] ELSE told[s][j]
  BY DEF TypeOK, Tell

\* The socket of a join that is not stale is in the room when it is answered.
LEMMA AnswerJoinInv ==
  ASSUME IInv, NEW r \in Requests, AnswerJoin(r)
  PROVE  IInv'
<1> DEFINE i == about[r]
           s == who[r]
           S == IF s \in online THEN {s} ELSE {}
<1> USE DEF IInv
<1>1. i \in Ids /\ s \in Sockets /\ snap[r] \in SUBSET Requests
  BY DEF TypeOK
<1>2. /\ op' = op /\ who' = who /\ about' = about /\ online' = online
      /\ room' = room /\ presence' = presence /\ logs' = logs
      /\ stale' = stale /\ cast' = cast
      /\ pc[r] = "answer" /\ pc' = [pc EXCEPT ![r] = "done"]
      /\ snap' = [snap EXCEPT ![r] = {}]
  BY DEF AnswerJoin, Goto, request
<1>3. /\ told' = Tell({i}, [room EXCEPT ![i] = @ \cup ({s} \cap online)],
                     presence)
      /\ answered' = IF r \in stale THEN answered
                                    ELSE [answered EXCEPT ![i] = @ \cup {s}]
      /\ heard' = IF s \in online THEN Hear({s}, i, snap[r]) ELSE heard
  BY DEF AnswerJoin
<1>4. /\ heard' \in [Sockets -> [Ids -> SUBSET Requests]]
      /\ \A t \in Sockets, j \in Ids :
           heard'[t][j] = IF t \in S /\ j = i THEN heard[t][j] \cup snap[r]
                                              ELSE heard[t][j]
  <2>1. CASE s \in online
    <3>1. S = {s} /\ heard \in [Sockets -> [Ids -> SUBSET Requests]]
      BY <2>1 DEF TypeOK
    <3>2. heard' = [t \in Sockets |->
                      IF t = s THEN [heard[t] EXCEPT ![i] = @ \cup snap[r]]
                               ELSE heard[t]]
      BY <1>3, <2>1 DEF Hear
    <3> HIDE DEF S, i, s
    <3>3. ASSUME NEW t \in Sockets
          PROVE  /\ heard'[t] \in [Ids -> SUBSET Requests]
                 /\ \A j \in Ids : heard'[t][j] = IF t \in S /\ j = i
                                                  THEN heard[t][j] \cup snap[r]
                                                  ELSE heard[t][j]
      BY <1>1, <3>1, <3>2
    <3> QED BY <3>2, <3>3
  <2>2. CASE s \notin online
    BY <1>1, <1>3, <2>2 DEF TypeOK
  <2> QED BY <2>1, <2>2
<1>5. /\ told' \in [Sockets -> [Ids -> SUBSET Sockets]]
      /\ \A j \in Ids : \A t \in room[j] :
           told'[t][j] = IF j = i THEN presence[j] ELSE told[t][j]
  <2> DEFINE I == {i}
             R == [room EXCEPT ![i] = @ \cup ({s} \cap online)]
  <2>1. told' = Tell(I, R, presence)
    BY <1>3
  <2>2. \A j \in Ids : \A t \in room[j] : t \in Sockets /\ t \in R[j]
    BY <1>1 DEF TypeOK
  <2>3. \A j \in Ids : j \in I <=> j = i
    OBVIOUS
  <2>4. presence \in [Ids -> SUBSET Sockets]
    BY DEF TypeOK
  <2> HIDE DEF I, R
  <2> QED BY <2>1, <2>2, <2>3, <2>4, TellIs
<1>6. r \notin stale => s \in room[i] /\ s \in online
  <2>1. op[r] = "join"
    BY <1>2 DEF TypeOK
  <2> QED BY <1>1, <1>2, <2>1 DEF JoiningIsIn, PresenceIsMembership
<1>7. /\ answered' \in [Ids -> SUBSET Sockets]
      /\ \A j \in Ids : answered'[j] = IF j = i /\ r \notin stale
                                       THEN answered[j] \cup {s}
                                       ELSE answered[j]
  BY <1>1, <1>3 DEF TypeOK
<1>8. TypeOK'
  BY <1>2, <1>4, <1>5, <1>7 DEF TypeOK, Ops, Steps
<1>9. PresenceIsMembership'
  BY <1>2 DEF PresenceIsMembership
<1>10. AnsweredIsIn'
  BY <1>2, <1>6, <1>7 DEF AnsweredIsIn
<1>11. PresenceIsTold'
  <2> SUFFICES ASSUME NEW j \in Ids, NEW t \in room[j]
               PROVE  /\ told'[t][j] \subseteq presence[j]
                      /\ t \in answered'[j]
                           => answered'[j] \subseteq told'[t][j]
    BY <1>2 DEF PresenceIsTold
  <2>1. t \in Sockets
    BY DEF TypeOK
  <2>2. CASE j = i
    <3>1. told'[t][j] = presence[j]
      BY <1>5, <2>1, <2>2
    <3>2. answered'[j] \subseteq presence[j]
      BY <1>2, <1>10 DEF AnsweredIsIn, PresenceIsMembership
    <3> QED BY <3>1, <3>2
  <2>3. CASE j # i
    BY <1>5, <1>7, <2>1, <2>3 DEF PresenceIsTold
  <2> QED BY <2>2, <2>3
<1>12. JoiningIsIn'
  BY <1>2 DEF TypeOK, JoiningIsIn
<1>13. CastIsStored'
  BY <1>2 DEF TypeOK, CastIsStored
<1>14. JoiningMissesNothing'
  <2> SUFFICES ASSUME NEW p \in Requests, NEW q \in cast, pc'[p] = "answer",
                      p \notin stale, about[q] = about[p]
               PROVE  q \in snap'[p] \/ q \in heard'[who[p]][about[p]]
    BY <1>2 DEF JoiningMissesNothing
  <2>1. p # r /\ pc[p] = "answer" /\ snap'[p] = snap[p]
    BY <1>2 DEF TypeOK
  <2>2. q \in snap[p] \/ q \in heard[who[p]][about[p]]
    BY <2>1 DEF JoiningMissesNothing
  <2>3. who[p] \in Sockets /\ about[p] \in Ids
    BY DEF TypeOK
  <2>4. heard[who[p]][about[p]] \subseteq heard'[who[p]][about[p]]
    BY <1>4, <2>3
  <2> QED BY <2>1, <2>2, <2>4
<1>15. NothingIsMissed'
  <2> SUFFICES ASSUME NEW j \in Ids, NEW t \in answered'[j], NEW q \in cast,
                      about[q] = j
               PROVE  q \in heard'[t][j]
    BY <1>2 DEF NothingIsMissed
  <2>1. t \in Sockets /\ q \in Requests
    BY <1>7 DEF TypeOK
  <2>2. CASE t \in answered[j]
    BY <1>4, <2>1, <2>2 DEF NothingIsMissed
  <2>3. CASE t \notin answered[j]
    <3>1. j = i /\ t = s /\ r \notin stale
      BY <1>7, <2>3
    <3>2. q \in snap[r] \/ q \in heard[s][i]
      BY <1>2, <3>1, <2>1 DEF JoiningMissesNothing
    <3> QED BY <1>4, <1>6, <2>1, <3>1, <3>2
  <2> QED BY <2>2, <2>3
<1> QED BY <1>8, <1>9, <1>10, <1>11, <1>12, <1>13, <1>14, <1>15

-----------------------------------------------------------------------------
(* Leaving. *)

\* A socket that leaves is off the list that the others are told, and its
\* joins are stale.
LEMMA LeaveInv ==
  ASSUME IInv, NEW s \in Sockets, NEW i \in Ids, Leave(s, i)
  PROVE  IInv'
<1> USE DEF IInv
<1>1. /\ op' = op /\ who' = who /\ about' = about /\ online' = online
      /\ logs' = logs /\ pc' = pc /\ snap' = snap /\ heard' = heard
      /\ cast' = cast
  BY DEF Leave, request
<1>2. /\ room' = [room EXCEPT ![i] = @ \ {s}]
      /\ presence' = [presence EXCEPT ![i] = @ \ {s}]
      /\ answered' = [answered EXCEPT ![i] = @ \ {s}]
      /\ stale' = stale \cup Pending(s, {i})
      /\ told' = Tell({i}, room', presence')
  BY DEF Leave
<1>3. presence' \in [Ids -> SUBSET Sockets]
  BY <1>2 DEF TypeOK
<1>4. /\ told' \in [Sockets -> [Ids -> SUBSET Sockets]]
      /\ \A t \in Sockets, j \in Ids :
           told'[t][j] = IF j = i /\ t \in room'[j] THEN presence'[j]
                                                    ELSE told[t][j]
  <2> DEFINE I == {i}
  <2>1. told' = Tell(I, room', presence')
    BY <1>2
  <2>2. \A j \in Ids : j \in I <=> j = i
    OBVIOUS
  <2> HIDE DEF I
  <2> QED BY <1>3, <2>1, <2>2, TellIs
<1>5. TypeOK'
  BY <1>1, <1>2, <1>3, <1>4 DEF TypeOK, Pending
<1>6. PresenceIsMembership'
  BY <1>1, <1>2 DEF TypeOK, PresenceIsMembership
<1>7. AnsweredIsIn'
  BY <1>2 DEF TypeOK, AnsweredIsIn
<1>8. PresenceIsTold'
  <2> SUFFICES ASSUME NEW j \in Ids, NEW t \in room'[j]
               PROVE  /\ told'[t][j] \subseteq presence'[j]
                      /\ t \in answered'[j]
                           => answered'[j] \subseteq told'[t][j]
    BY DEF PresenceIsTold
  <2>1. t \in Sockets
    BY <1>5 DEF TypeOK
  <2>2. CASE j = i
    BY <1>4, <1>6, <1>7, <2>1, <2>2 DEF PresenceIsMembership, AnsweredIsIn
  <2>3. CASE j # i
    BY <1>2, <1>4, <2>1, <2>3 DEF TypeOK, PresenceIsTold
  <2> QED BY <2>2, <2>3
<1>9. JoiningIsIn'
  <2> SUFFICES ASSUME NEW r \in Requests, op[r] = "join",
                      pc[r] \in {"read", "answer"}, r \notin stale'
               PROVE  who[r] \in room'[about[r]]
    BY <1>1 DEF JoiningIsIn
  <2>1. ~(who[r] = s /\ about[r] = i) /\ who[r] \in room[about[r]]
    BY <1>2 DEF Pending, JoiningIsIn
  <2> QED BY <1>2, <2>1 DEF TypeOK
<1>10. CastIsStored'
  BY <1>1 DEF CastIsStored
<1>11. JoiningMissesNothing'
  BY <1>1, <1>2 DEF JoiningMissesNothing
<1>12. NothingIsMissed'
  BY <1>1, <1>2 DEF TypeOK, NothingIsMissed
<1> QED BY <1>5, <1>6, <1>7, <1>8, <1>9, <1>10, <1>11, <1>12

\* The same in every room; a room that is told was not empty before.
LEMMA DisconnectInv ==
  ASSUME IInv, NEW s \in Sockets, Disconnect(s)
  PROVE  IInv'
<1> USE DEF IInv
<1>1. /\ op' = op /\ who' = who /\ about' = about /\ logs' = logs /\ pc' = pc
      /\ snap' = snap /\ heard' = heard /\ cast' = cast
  BY DEF Disconnect, request
<1>2. /\ online' = online \ {s}
      /\ room' = [i \in Ids |-> room[i] \ {s}]
      /\ presence' = [i \in Ids |-> presence[i] \ {s}]
      /\ answered' = [i \in Ids |-> answered[i] \ {s}]
      /\ stale' = stale \cup Pending(s, Ids)
      /\ told' = Tell({i \in Ids : presence[i] # {}}, room', presence')
  BY DEF Disconnect
<1>3. presence' \in [Ids -> SUBSET Sockets]
  BY <1>2 DEF TypeOK
<1>4. /\ told' \in [Sockets -> [Ids -> SUBSET Sockets]]
      /\ \A t \in Sockets, j \in Ids :
           told'[t][j] = IF presence[j] # {} /\ t \in room'[j]
                         THEN presence'[j] ELSE told[t][j]
  <2> DEFINE I == {i \in Ids : presence[i] # {}}
  <2>2. told' = Tell(I, room', presence')
    BY <1>2
  <2>3. \A j \in Ids : j \in I <=> presence[j] # {}
    OBVIOUS
  <2> HIDE DEF I
  <2> QED BY <1>3, <2>2, <2>3, TellIs
<1>5. TypeOK'
  BY <1>1, <1>2, <1>3, <1>4 DEF TypeOK, Pending
<1>6. PresenceIsMembership'
  BY <1>2 DEF TypeOK, PresenceIsMembership
<1>7. AnsweredIsIn'
  BY <1>2 DEF TypeOK, AnsweredIsIn
<1>8. PresenceIsTold'
  <2> SUFFICES ASSUME NEW j \in Ids, NEW t \in room'[j]
               PROVE  /\ told'[t][j] \subseteq presence'[j]
                      /\ t \in answered'[j]
                           => answered'[j] \subseteq told'[t][j]
    BY DEF PresenceIsTold
  <2>1. t \in Sockets /\ presence[j] # {}
    BY <1>2, <1>5 DEF TypeOK, PresenceIsMembership
  <2>2. told'[t][j] = presence'[j]
    BY <1>4, <2>1
  <2> QED BY <1>6, <1>7, <2>2 DEF PresenceIsMembership, AnsweredIsIn
<1>9. JoiningIsIn'
  <2> SUFFICES ASSUME NEW r \in Requests, op[r] = "join",
                      pc[r] \in {"read", "answer"}, r \notin stale'
               PROVE  who[r] \in room'[about[r]]
    BY <1>1 DEF JoiningIsIn
  <2>1. about[r] \in Ids
    BY DEF TypeOK
  <2>2. who[r] # s /\ who[r] \in room[about[r]]
    BY <1>2, <2>1 DEF Pending, JoiningIsIn
  <2> QED BY <1>2, <2>1, <2>2
<1>10. CastIsStored'
  BY <1>1 DEF CastIsStored
<1>11. JoiningMissesNothing'
  BY <1>1, <1>2 DEF JoiningMissesNothing
<1>12. NothingIsMissed'
  BY <1>1, <1>2 DEF TypeOK, NothingIsMissed
<1> QED BY <1>5, <1>6, <1>7, <1>8, <1>9, <1>10, <1>11, <1>12

-----------------------------------------------------------------------------
(* Messages and updates. *)

\* A new row is stored before it can be broadcast.
LEMMA StoreInv ==
  ASSUME IInv, NEW r \in Requests,
         SendMessage(r) \/ Update(r) \/ StoreElsewhere(r)
  PROVE  IInv'
<1> USE DEF IInv
<1>1. /\ who' = who /\ about' = about /\ online' = online /\ room' = room
      /\ presence' = presence /\ snap' = snap /\ told' = told
      /\ heard' = heard /\ answered' = answered /\ stale' = stale
      /\ cast' = cast
  BY DEF SendMessage, Update, StoreElsewhere, Store, Begin, client
<1>2. PICK o \in {"message", "update"}, next \in {"cast", "read", "done"} :
        /\ pc[r] = "idle"
        /\ op' = [op EXCEPT ![r] = o]
        /\ pc' = [pc EXCEPT ![r] = next]
        /\ next = "cast" => o = "message"
        /\ next = "read" => o = "update"
  BY DEF SendMessage, Update, StoreElsewhere, Store, Begin
<1>3. logs' = [logs EXCEPT ![about[r]] = @ \cup {r}]
  BY DEF SendMessage, Update, StoreElsewhere, Store
<1>4. TypeOK'
  BY <1>1, <1>2, <1>3 DEF TypeOK, Ops, Steps
<1>5. /\ \A j \in Ids : logs[j] \subseteq logs'[j]
      /\ r \in logs'[about[r]]
  BY <1>3 DEF TypeOK
<1>6. PresenceIsMembership' /\ PresenceIsTold' /\ AnsweredIsIn'
  BY <1>1 DEF PresenceIsMembership, PresenceIsTold, AnsweredIsIn
<1>7. JoiningIsIn'
  BY <1>1, <1>2 DEF TypeOK, JoiningIsIn
<1>8. CastIsStored'
  <2> SUFFICES ASSUME NEW q \in Requests
               PROVE  /\ q \in cast => q \in logs'[about[q]]
                      /\ pc'[q] = "cast" => q \in logs'[about[q]]
                      /\ pc'[q] = "read" /\ op'[q] = "update"
                           => q \in logs'[about[q]]
                      /\ pc'[q] = "cast" /\ op'[q] = "update" => q \in snap[q]
    BY <1>1 DEF CastIsStored
  <2>1. CASE q = r
    BY <1>2, <1>5, <2>1 DEF TypeOK
  <2>2. CASE q # r
    BY <1>2, <1>5, <2>2 DEF TypeOK, CastIsStored
  <2> QED BY <2>1, <2>2
<1>9. JoiningMissesNothing'
  BY <1>1, <1>2 DEF TypeOK, JoiningMissesNothing
<1>10. NothingIsMissed'
  BY <1>1 DEF NothingIsMissed
<1> QED BY <1>4, <1>6, <1>7, <1>8, <1>9, <1>10

\* Who was told it joined, or will be, is in the room and hears the row.
LEMMA BroadcastInv ==
  ASSUME IInv, NEW r \in Requests, Broadcast(r)
  PROVE  IInv'
<1> DEFINE i == about[r]
           L == IF op[r] = "message" THEN {r} ELSE snap[r]
<1> USE DEF IInv
<1>1. /\ op' = op /\ who' = who /\ about' = about /\ online' = online
      /\ room' = room /\ presence' = presence /\ logs' = logs /\ told' = told
      /\ answered' = answered /\ stale' = stale
      /\ pc[r] = "cast" /\ pc' = [pc EXCEPT ![r] = "done"]
      /\ snap' = [snap EXCEPT ![r] = {}]
      /\ cast' = cast \cup {r}
  BY DEF Broadcast, Goto, request
<1>2. i \in Ids /\ L \in SUBSET Requests /\ r \in L
  BY <1>1 DEF TypeOK, CastIsStored
<1>3. heard' = [t \in Sockets |->
                  IF t \in room[i] THEN [heard[t] EXCEPT ![i] = @ \cup L]
                                   ELSE heard[t]]
  BY DEF Broadcast, Hear
<1>4. /\ heard' \in [Sockets -> [Ids -> SUBSET Requests]]
      /\ \A t \in Sockets, j \in Ids :
           heard'[t][j] = IF t \in room[j] /\ j = i THEN heard[t][j] \cup L
                                                    ELSE heard[t][j]
  <2>1. heard \in [Sockets -> [Ids -> SUBSET Requests]]
    BY DEF TypeOK
  <2> HIDE DEF i, L
  <2>2. ASSUME NEW t \in Sockets
        PROVE  /\ heard'[t] \in [Ids -> SUBSET Requests]
               /\ \A j \in Ids : heard'[t][j] = IF t \in room[j] /\ j = i
                                                THEN heard[t][j] \cup L
                                                ELSE heard[t][j]
    BY <1>2, <1>3, <2>1
  <2> QED BY <1>3, <2>2
<1> HIDE DEF L
<1>5. TypeOK'
  BY <1>1, <1>4 DEF TypeOK, Steps
<1>6. PresenceIsMembership' /\ PresenceIsTold' /\ AnsweredIsIn'
  BY <1>1 DEF PresenceIsMembership, PresenceIsTold, AnsweredIsIn
<1>7. JoiningIsIn'
  BY <1>1 DEF TypeOK, JoiningIsIn
<1>8. CastIsStored'
  BY <1>1 DEF TypeOK, CastIsStored
<1>9. JoiningMissesNothing'
  <2> SUFFICES ASSUME NEW p \in Requests, NEW q \in cast', pc'[p] = "answer",
                      p \notin stale, about[q] = about[p]
               PROVE  q \in snap'[p] \/ q \in heard'[who[p]][about[p]]
    BY <1>1 DEF JoiningMissesNothing
  <2>1. p # r /\ pc[p] = "answer" /\ snap'[p] = snap[p]
    BY <1>1 DEF TypeOK
  <2>2. who[p] \in Sockets /\ about[p] \in Ids
    BY DEF TypeOK
  <2>3. CASE q \in cast
    <3>1. q \in snap[p] \/ q \in heard[who[p]][about[p]]
      BY <2>1, <2>3 DEF JoiningMissesNothing
    <3> QED BY <1>4, <2>1, <2>2, <3>1
  <2>4. CASE q = r
    <3>1. who[p] \in room[about[p]]
      BY <2>1 DEF JoiningIsIn, TypeOK
    <3> QED BY <1>2, <1>4, <2>2, <2>4, <3>1
  <2> QED BY <1>1, <2>3, <2>4
<1>10. NothingIsMissed'
  <2> SUFFICES ASSUME NEW j \in Ids, NEW t \in answered[j], NEW q \in cast',
                      about[q] = j
               PROVE  q \in heard'[t][j]
    BY <1>1 DEF NothingIsMissed
  <2>1. t \in Sockets /\ t \in room[j]
    BY DEF TypeOK, AnsweredIsIn
  <2>2. CASE q \in cast
    BY <1>4, <2>1, <2>2 DEF NothingIsMissed
  <2>3. CASE q = r
    BY <1>2, <1>4, <2>1, <2>3
  <2> QED BY <1>1, <2>2, <2>3
<1> QED BY <1>5, <1>6, <1>7, <1>8, <1>9, <1>10

\* A request that failed is as good as one that never ran; its socket stays.
LEMMA FailInv ==
  ASSUME IInv, NEW r \in Requests, Fail(r)
  PROVE  IInv'
<1> USE DEF IInv
<1>1. /\ op' = op /\ who' = who /\ about' = about /\ online' = online
      /\ room' = room /\ presence' = presence /\ logs' = logs
      /\ snap' = snap /\ told' = told /\ heard' = heard
      /\ answered' = answered /\ stale' = stale /\ cast' = cast
      /\ pc' = [pc EXCEPT ![r] = "failed"]
  BY DEF Fail, Goto, request, client
<1>2. TypeOK'
  BY <1>1 DEF TypeOK, Steps
<1>3. /\ PresenceIsMembership' /\ PresenceIsTold' /\ AnsweredIsIn'
      /\ NothingIsMissed'
  BY <1>1 DEF PresenceIsMembership, PresenceIsTold, AnsweredIsIn,
              NothingIsMissed
<1>4. JoiningIsIn' /\ CastIsStored' /\ JoiningMissesNothing'
  BY <1>1 DEF TypeOK, JoiningIsIn, CastIsStored, JoiningMissesNothing
<1> QED BY <1>2, <1>3, <1>4

LEMMA StutterInv ==
  ASSUME IInv, UNCHANGED vars
  PROVE  IInv'
  BY DEF IInv, vars, request, client, TypeOK, PresenceIsMembership,
         PresenceIsTold, AnsweredIsIn, JoiningIsIn, CastIsStored,
         JoiningMissesNothing, NothingIsMissed

-----------------------------------------------------------------------------
LEMMA NextInv ==
  ASSUME IInv, [Next]_vars
  PROVE  IInv'
<1>1. ASSUME NEW r \in Requests, Join(r) PROVE IInv'
  BY <1>1, JoinInv
<1>2. ASSUME NEW r \in Requests, ReadSnapshot(r) PROVE IInv'
  BY <1>2, ReadSnapshotInv
<1>3. ASSUME NEW r \in Requests, AnswerJoin(r) PROVE IInv'
  BY <1>3, AnswerJoinInv
<1>4. ASSUME NEW r \in Requests,
             SendMessage(r) \/ Update(r) \/ StoreElsewhere(r)
      PROVE  IInv'
  BY <1>4, StoreInv
<1>5. ASSUME NEW r \in Requests, Broadcast(r) PROVE IInv'
  BY <1>5, BroadcastInv
<1>6. ASSUME NEW r \in Requests, Fail(r) PROVE IInv'
  BY <1>6, FailInv
<1>7. ASSUME NEW s \in Sockets, NEW i \in Ids, Leave(s, i) PROVE IInv'
  BY <1>7, LeaveInv
<1>8. ASSUME NEW s \in Sockets, Disconnect(s) PROVE IInv'
  BY <1>8, DisconnectInv
<1>9. CASE UNCHANGED vars
  BY <1>9, StutterInv
<1> QED BY <1>1, <1>2, <1>3, <1>4, <1>5, <1>6, <1>7, <1>8, <1>9 DEF Next

LEMMA Invariance == Spec => []IInv
<1>1. Init => IInv
  BY InitInv
<1>2. IInv /\ [Next]_vars => IInv'
  BY NextInv
<1> QED BY <1>1, <1>2, PTL DEF Spec

\* The variables keep their types, and handlers end as their operation does.
THEOREM TypeCorrect == Spec => []TypeOK
<1>1. IInv => TypeOK
  BY DEF IInv
<1> QED BY <1>1, Invariance, PTL

\* presenceByIncident and the Socket.IO rooms agree, with no ghost sockets:
\* joinIncident, leaveIncident and handleDisconnect overlap in any way.
THEOREM PresenceMatchesRooms == Spec => []PresenceIsMembership
<1>1. IInv => PresenceIsMembership
  BY DEF IInv
<1> QED BY <1>1, Invariance, PTL

\* emitPresence keeps everybody in a room up to date: no one who left is
\* shown, and sockets that were told they joined are shown each other.
THEOREM PresenceReachesRooms == Spec => []PresenceIsTold
<1>1. IInv => PresenceIsTold
  BY DEF IInv
<1> QED BY <1>1, Invariance, PTL

\* joinIncident enters the room before it reads the snapshot, so a row that is
\* broadcast at any time reaches every socket that was told it joined.
THEOREM JoinsMissNothing == Spec => []NothingIsMissed
<1>1. IInv => NothingIsMissed
  BY DEF IInv
<1> QED BY <1>1, Invariance, PTL

=============================================================================
