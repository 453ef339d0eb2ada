--------------------------- MODULE IncidentsProofs ---------------------------
(***************************************************************************)
(* Theorems about Incidents.tla, for every set of ids, requests and dates, *)
(* with overlapping requests, failing calls and crashes.                   *)
(***************************************************************************)
EXTENDS Incidents, TLAPS

-----------------------------------------------------------------------------
(* The inductive invariant: what each stage of a request guarantees.       *)

\* A request has no entry before it reaches its log step.
NoEntryYet ==
  \A r \in Requests : pc[r] \in {"idle", "load", "write", "log"} =>
    \A i \in Ids : \A n \in 1..Len(logs[i]) : logs[i][n].req # r

\* Which operations can be at which stage, and what they hold there.
StageOK ==
  \A r \in Requests :
    /\ pc[r] = "idle" => r \notin saved
    /\ pc[r] \in {"load", "write"} =>
         /\ op[r] \in {"ack", "resolve"}
         /\ entity[r].status = Action(op[r])
         /\ op[r] = "resolve" => entity[r].resolvedAt # NoDate
    /\ pc[r] \in {"load", "write", "log"} => Exists(target[r])
    /\ pc[r] = "write" => loaded[r].status # "NONE"
    /\ pc[r] = "log" /\ op[r] \in Writers => r \in saved
    /\ pc[r] = "emit" => op[r] = "create"
    /\ r \in saved => op[r] \in Writers /\ Exists(target[r])

\* An entry once written stays readable, by the request itself above all.
OwnEntry ==
  \A r \in Requests : op[r] \in Writers =>
    /\ pc[r] \in {"emit", "readIncident", "readLogs"} =>
         Exists(target[r]) /\ InLog(r, target[r])
    /\ pc[r] \in {"readLogs", "done"} => snap[r].incident.status # "NONE"
    /\ pc[r] = "done" =>
         \E n \in 1..Len(snap[r].logs) : snap[r].logs[n] = EntryOf(r)

AckSaved(i) == \E a \in saved : op[a] = "ack" /\ target[a] = i

StaleAckSaved(i) == \E a \in saved : /\ op[a] = "ack"
                                     /\ target[a] = i
                                     /\ entity[a].resolvedAt = NoDate

\* Someone knows incident i as resolved: a resolution committed, or a save
\* has compared itself with a resolved row and will not write that column.
KnownResolved(i) ==
  \E r \in Requests : /\ target[r] = i
                      /\ \/ r \in saved /\ op[r] = "resolve"
                         \/ pc[r] = "write" /\ loaded[r].status = "RESOLVED"

KnownDated(i) ==
  \E r \in Requests : /\ target[r] = i
                      /\ \/ r \in saved /\ op[r] = "resolve"
                         \/ pc[r] = "write" /\ loaded[r].resolvedAt # NoDate

ResolvedStays ==
  \A i \in Ids : KnownResolved(i) /\ ~AckSaved(i) => rows[i].status = "RESOLVED"

DateStays ==
  \A i \in Ids : KnownDated(i) /\ ~StaleAckSaved(i) => rows[i].resolvedAt # NoDate

IInv == /\ TypeOK
        /\ NoEntryYet
        /\ StageOK
        /\ LogIsEarned
        /\ OwnEntry
        /\ CreatedEventIsReadable
        /\ ResolvedStays
        /\ DateStays

-----------------------------------------------------------------------------
(* Type correctness. *)

USE DatesAssumption, MayFailAssumption

LEMMA InitTypeOK == Init => TypeOK
BY DEF Init, TypeOK, NoRow, Row, Statuses, Ops, Steps, EmptySnap, Entry

\* The entry a request writes is a log row.
LEMMA EntryType ==
  ASSUME NEW r \in Requests, op[r] \in Ops
  PROVE  EntryOf(r) \in Entry
BY DEF EntryOf, Entry, Action, LogActions, Ops

\* What save() writes is a row.
LEMMA MergeType ==
  ASSUME NEW a \in Row, NEW b \in Row, NEW c \in Row
  PROVE  Merge(a, b, c) \in Row
BY DEF Merge, Row

LEMMA FindOrThrowType ==
  ASSUME TypeOK, NEW r \in Requests, NEW o \in Ops, NEW found \in Row,
         NEW next \in Steps, FindOrThrow(r, o, next, found)
  PROVE  TypeOK'
BY DEF FindOrThrow, Begin, TypeOK, Steps

\* Every variable keeps a value of its kind in every step.
LEMMA NextTypeOK == TypeOK /\ [Next]_vars => TypeOK'
<1> SUFFICES ASSUME TypeOK, [Next]_vars
             PROVE  TypeOK'
  OBVIOUS
<1>1. ASSUME NEW r \in Requests, CreateIncident(r) PROVE TypeOK'
  BY <1>1 DEF CreateIncident, Begin, TypeOK, Row, Statuses, Ops, Steps
<1>2. ASSUME NEW r \in Requests, Acknowledge(r) PROVE TypeOK'
  <2>1. [rows[target[r]] EXCEPT !.status = "ACKNOWLEDGED"] \in Row
    <3>1. rows[target[r]] \in Row
      BY DEF TypeOK
    <3>2. QED
      BY <3>1 DEF Row, Statuses
  <2>2. QED
    BY <1>2, <2>1, FindOrThrowType DEF Acknowledge, Ops, Steps
<1>3. ASSUME NEW r \in Requests, Resolve(r) PROVE TypeOK'
  <2>1. PICK t \in Dates :
          FindOrThrow(r, "resolve", "load", [status |-> "RESOLVED", resolvedAt |-> t])
    BY <1>3 DEF Resolve
  <2>2. [status |-> "RESOLVED", resolvedAt |-> t] \in Row
    BY DEF Row, Statuses
  <2>3. QED
    BY <2>1, <2>2, FindOrThrowType DEF Ops, Steps
<1>4. ASSUME NEW r \in Requests, SendMessage(r) PROVE TypeOK'
  <2>1. rows[target[r]] \in Row
    BY DEF TypeOK
  <2>2. QED
    BY <1>4, <2>1, FindOrThrowType DEF SendMessage, Ops, Steps
<1>5. ASSUME NEW r \in Requests, View(r) PROVE TypeOK'
  BY <1>5 DEF View, Begin, TypeOK, Ops, Steps, data
<1>6. ASSUME NEW r \in Requests, LoadForSave(r) PROVE TypeOK'
  BY <1>6 DEF LoadForSave, Goto, TypeOK, Steps, data
<1>7. ASSUME NEW r \in Requests, WriteRow(r) PROVE TypeOK'
  <2>1. Merge(entity[r], loaded[r], rows[target[r]]) \in Row
    BY MergeType DEF TypeOK
  <2>2. QED
    BY <1>7, <2>1 DEF WriteRow, Goto, TypeOK, Steps, local
<1>8. ASSUME NEW r \in Requests, AppendLog(r) PROVE TypeOK'
  <2>1. EntryOf(r) \in Entry
    BY EntryType DEF TypeOK
  <2>2. logs' \in [Ids -> Seq(Entry)]
    BY <1>8, <2>1 DEF AppendLog, TypeOK
  <2>3. pc' \in [Requests -> Steps]
    BY <1>8 DEF AppendLog, Goto, TypeOK, Steps
  <2>4. QED
    BY <1>8, <2>2, <2>3 DEF AppendLog, TypeOK, local
<1>9. ASSUME NEW r \in Requests, EmitCreated(r) PROVE TypeOK'
  BY <1>9 DEF EmitCreated, Goto, TypeOK, Steps, local
<1>10. ASSUME NEW r \in Requests, ReadIncident(r) PROVE TypeOK'
  BY <1>10 DEF ReadIncident, Goto, TypeOK, Steps, data
<1>11. ASSUME NEW r \in Requests, ReadLogs(r) PROVE TypeOK'
  BY <1>11 DEF ReadLogs, Goto, TypeOK, Steps, data
<1>12. ASSUME NEW r \in Requests, Fail(r) PROVE TypeOK'
  BY <1>12 DEF Fail, TypeOK, Steps, data, local
<1>13. CASE Crash
  BY <1>13 DEF Crash, TypeOK, Steps, data, local
<1>14. CASE UNCHANGED vars
  BY <1>14 DEF vars, TypeOK
<1>15. QED
  BY <1>1, <1>2, <1>3, <1>4, <1>5, <1>6, <1>7, <1>8, <1>9, <1>10, <1>11,
     <1>12, <1>13, <1>14 DEF Next, Start, Continue

\* However many requests overlap, fail or crash, rows, timelines and the
\* objects the requests hold stay well formed.
THEOREM TypeCorrect == Spec => []TypeOK
<1>1. QED
  BY InitTypeOK, NextTypeOK, PTL DEF Spec

-----------------------------------------------------------------------------
(* The inductive invariant. *)

LEMMA InitIInv == Init => IInv
<1> SUFFICES ASSUME Init PROVE IInv
  OBVIOUS
<1>1. TypeOK
  BY InitTypeOK
<1>2. NoEntryYet /\ LogIsEarned /\ CreatedEventIsReadable
  BY DEF Init, NoEntryYet, LogIsEarned, CreatedEventIsReadable
<1>3. StageOK /\ OwnEntry
  BY DEF Init, StageOK, OwnEntry, Writers
<1>4. ResolvedStays /\ DateStays
  BY DEF Init, ResolvedStays, DateStays, KnownResolved, KnownDated
<1>5. QED
  BY <1>1, <1>2, <1>3, <1>4 DEF IInv

\* Reading the incident at the head of an operation disturbs nothing: the
\* request leaves "idle" with no entry, no saved row and the entity it read.
LEMMA FindOrThrowInv ==
  ASSUME IInv, TypeOK', NEW r \in Requests, NEW o \in {"ack", "resolve", "message"},
         NEW found, NEW next,
         next = IF o = "message" THEN "log" ELSE "load",
         o # "message" => found.status = Action(o),
         o = "resolve" => found.resolvedAt # NoDate,
         FindOrThrow(r, o, next, found)
  PROVE  IInv'
<1> USE DEF IInv, FindOrThrow, Begin
<1>1. NoEntryYet'
  BY DEF NoEntryYet, TypeOK
<1>2. StageOK'
  BY DEF StageOK, TypeOK, Exists, Writers
<1>3. LogIsEarned'
  BY DEF LogIsEarned, NoEntryYet, TypeOK, EntryOf
<1>4. OwnEntry'
  BY DEF OwnEntry, TypeOK, InLog, EntryOf, Exists
<1>5. CreatedEventIsReadable'
  BY DEF CreatedEventIsReadable, Exists
<1>6. ResolvedStays'
  BY DEF ResolvedStays, KnownResolved, AckSaved, StageOK, TypeOK
<1>7. DateStays'
  BY DEF DateStays, KnownDated, StaleAckSaved, StageOK, TypeOK
<1>8. QED
  BY <1>1, <1>2, <1>3, <1>4, <1>5, <1>6, <1>7

\* A new row is OPEN and nobody can have saved or loaded it before.
LEMMA CreateIncidentInv ==
  ASSUME IInv, TypeOK', NEW r \in Requests, CreateIncident(r)
  PROVE  IInv'
<1> USE DEF IInv, CreateIncident, Begin
<1>1. NoEntryYet'
  BY DEF NoEntryYet, TypeOK
<1>2. StageOK'
  BY DEF StageOK, TypeOK, Exists, Writers
<1>3. LogIsEarned'
  BY DEF LogIsEarned, NoEntryYet, TypeOK, EntryOf
<1>4. OwnEntry'
  BY DEF OwnEntry, TypeOK, InLog, EntryOf, Exists, StageOK
<1>5. CreatedEventIsReadable'
  BY DEF CreatedEventIsReadable, Exists
<1>6. ResolvedStays'
  <2> SUFFICES ASSUME NEW i \in Ids, KnownResolved(i)', ~AckSaved(i)'
               PROVE  rows'[i].status = "RESOLVED"
    BY DEF ResolvedStays
  <2>1. ~AckSaved(i)
    BY DEF AckSaved, StageOK
  <2>2. KnownResolved(i) /\ i # target[r]
    BY DEF KnownResolved, StageOK, TypeOK, Exists
  <2>3. QED
    BY <2>1, <2>2 DEF ResolvedStays, TypeOK
<1>7. DateStays'
  <2> SUFFICES ASSUME NEW i \in Ids, KnownDated(i)', ~StaleAckSaved(i)'
               PROVE  rows'[i].resolvedAt # NoDate
    BY DEF DateStays
  <2>1. ~StaleAckSaved(i)
    BY DEF StaleAckSaved, StageOK
  <2>2. KnownDated(i) /\ i # target[r]
    BY DEF KnownDated, StageOK, TypeOK, Exists
  <2>3. QED
    BY <2>1, <2>2 DEF DateStays, TypeOK
<1>8. QED
  BY <1>1, <1>2, <1>3, <1>4, <1>5, <1>6, <1>7

\* A view only reads.
LEMMA ViewInv ==
  ASSUME IInv, TypeOK', NEW r \in Requests, View(r)
  PROVE  IInv'
<1> USE DEF IInv, View, Begin, data
<1>0. /\ op[r] \in Ops /\ pc[r] = "idle" /\ pc'[r] = "readIncident"
      /\ op'[r] = "view"
      /\ \A q \in Requests : q # r => /\ pc'[q] = pc[q]
                                      /\ op'[q] = op[q]
                                      /\ EntryOf(q)' = EntryOf(q)
  BY DEF TypeOK, EntryOf
<1>1. NoEntryYet'
  BY DEF NoEntryYet, TypeOK
<1>2. StageOK'
  BY DEF StageOK, TypeOK, Exists, Writers
<1>3. LogIsEarned'
  <2>1. \A i \in Ids : \A n \in 1..Len(logs[i]) : logs[i][n].req \in Requests \ {r}
    <3> SUFFICES ASSUME NEW i \in Ids, NEW n \in 1..Len(logs[i])
                 PROVE  logs[i][n].req \in Requests \ {r}
      OBVIOUS
    <3>1. logs[i][n] \in Entry
      BY DEF TypeOK
    <3>2. QED
      BY <1>0, <3>1 DEF NoEntryYet, Entry
  <2>2. QED
    BY <1>0, <2>1 DEF LogIsEarned
<1>4. OwnEntry'
  BY <1>0 DEF OwnEntry, InLog, Exists, Writers
<1>5. CreatedEventIsReadable'
  BY DEF CreatedEventIsReadable, Exists
<1>6. ResolvedStays'
  BY DEF ResolvedStays, KnownResolved, AckSaved, StageOK, TypeOK
<1>7. DateStays'
  BY DEF DateStays, KnownDated, StaleAckSaved, StageOK, TypeOK
<1>8. QED
  BY <1>1, <1>2, <1>3, <1>4, <1>5, <1>6, <1>7

\* The loaded row is the stored one, so what it knows is true.
LEMMA LoadForSaveInv ==
  ASSUME IInv, TypeOK', NEW r \in Requests, LoadForSave(r)
  PROVE  IInv'
<1> USE DEF IInv, LoadForSave, Goto, data
<1>1. NoEntryYet'
  BY DEF NoEntryYet, TypeOK
<1>2. StageOK'
  BY DEF StageOK, TypeOK, Exists, Writers
<1>3. LogIsEarned'
  BY DEF LogIsEarned, EntryOf
<1>4. OwnEntry'
  <2>1. \A q \in Requests : q # r => pc'[q] = pc[q]
    BY DEF TypeOK
  <2>2. pc'[r] = "write"
    BY DEF TypeOK
  <2>3. QED
    BY <2>1, <2>2 DEF OwnEntry, InLog, EntryOf, Exists
<1>5. CreatedEventIsReadable'
  BY DEF CreatedEventIsReadable, Exists
<1>6. ResolvedStays'
  BY DEF ResolvedStays, KnownResolved, AckSaved, StageOK, TypeOK
<1>7. DateStays'
  BY DEF DateStays, KnownDated, StaleAckSaved, StageOK, TypeOK
<1>8. QED
  BY <1>1, <1>2, <1>3, <1>4, <1>5, <1>6, <1>7

\* The heart of the matter: a column is written only with the request's own
\* status or date, so a resolution is undone by acknowledgements alone.
LEMMA WriteRowInv ==
  ASSUME IInv, TypeOK', NEW r \in Requests, WriteRow(r)
  PROVE  IInv'
<1> USE DEF IInv, WriteRow, Goto, local
<1>0. /\ entity[r].status \in {"ACKNOWLEDGED", "RESOLVED"}
      /\ rows' = [rows EXCEPT ![target[r]] =
                    Merge(entity[r], loaded[r], rows[target[r]])]
      /\ rows'[target[r]].status \in {rows[target[r]].status, entity[r].status}
  <2>1. rows[target[r]] \in Row /\ target[r] \in Ids
    BY DEF TypeOK
  <2>2. QED
    BY <2>1 DEF StageOK, Action, Merge, TypeOK
<1>1. NoEntryYet'
  BY DEF NoEntryYet, TypeOK
<1>2. StageOK'
  <2>1. /\ pc' = [pc EXCEPT ![r] = "log"] /\ pc \in [Requests -> Steps]
        /\ saved' = saved \cup {r}
        /\ UNCHANGED <<op, target, entity, loaded>>
        /\ op[r] \in Writers /\ Exists(target[r])
    BY DEF TypeOK, StageOK, Writers
  <2>2. \A i \in Ids : Exists(i) => Exists(i)'
    BY <1>0 DEF Exists, TypeOK
  <2>3. target \in [Requests -> Ids]
    BY DEF TypeOK
  <2>4. \A q \in Requests : Action(op[q])' = Action(op[q])
    BY <2>1 DEF Action
  <2>5. StageOK
    OBVIOUS
  <2> HIDE DEF IInv, WriteRow, Goto, Exists, Action
  <2>6. QED
    BY <2>1, <2>2, <2>3, <2>4, <2>5 DEF StageOK
<1>3. LogIsEarned'
  BY DEF LogIsEarned, NoEntryYet, TypeOK, EntryOf
<1>4. OwnEntry'
  <2>1. pc' = [pc EXCEPT ![r] = "log"] /\ pc \in [Requests -> Steps]
    BY DEF TypeOK
  <2>2. \A i \in Ids : Exists(i) => Exists(i)'
    BY <1>0 DEF Exists, TypeOK
  <2>3. target \in [Requests -> Ids]
    BY DEF TypeOK
  <2>4. QED
    BY <2>1, <2>2, <2>3 DEF OwnEntry, InLog, EntryOf
<1>5. CreatedEventIsReadable'
  BY DEF CreatedEventIsReadable, Exists, StageOK, Merge, Action, TypeOK
<1>6. ResolvedStays'
  <2> SUFFICES ASSUME NEW i \in Ids, KnownResolved(i)', ~AckSaved(i)'
               PROVE  rows'[i].status = "RESOLVED"
    BY DEF ResolvedStays
  <2>1. ~AckSaved(i)
    BY DEF AckSaved
  <2>2. CASE i # target[r]
    <3>1. KnownResolved(i) /\ rows'[i] = rows[i]
      BY <2>2 DEF KnownResolved, TypeOK
    <3>2. QED
      BY <2>1, <3>1 DEF ResolvedStays
  <2>3. CASE i = target[r]
    <3>1. op[r] = "resolve" /\ entity[r].status = "RESOLVED"
      BY <2>3 DEF AckSaved, StageOK, Action
    <3>2. rows'[i].status = IF loaded[r].status = "RESOLVED"
                              THEN rows[i].status ELSE "RESOLVED"
      BY <1>0, <2>3, <3>1 DEF Merge, TypeOK
    <3>3. CASE loaded[r].status = "RESOLVED"
      <4>1. KnownResolved(i)
        BY <2>3, <3>3 DEF KnownResolved
      <4>2. QED
        BY <2>1, <3>2, <3>3, <4>1 DEF ResolvedStays
    <3>4. QED
      BY <3>2, <3>3
  <2>4. QED
    BY <2>2, <2>3
<1>7. DateStays'
  BY DEF DateStays, KnownDated, StaleAckSaved, StageOK, TypeOK, Merge
<1>8. QED
  BY <1>1, <1>2, <1>3, <1>4, <1>5, <1>6, <1>7

\* The request's first and only entry.
LEMMA AppendLogInv ==
  ASSUME IInv, TypeOK', NEW r \in Requests, AppendLog(r)
  PROVE  IInv'
<1> USE DEF IInv, AppendLog, Goto, local
<1>0. /\ target[r] \in Ids
      /\ \A i \in Ids : i # target[r] => logs'[i] = logs[i]
      /\ logs'[target[r]] = Append(logs[target[r]], EntryOf(r))
      /\ \A i \in Ids : logs[i] \in Seq(Entry)
      /\ EntryOf(r).req = r
      /\ pc'[r] \in {"emit", "done", "readIncident"}
      /\ \A q \in Requests : q # r => pc'[q] = pc[q]
      /\ \A q \in Requests : EntryOf(q)' = EntryOf(q)
  BY DEF TypeOK, EntryOf
<1>a. \A i \in Ids : \A n \in 1..Len(logs'[i]) :
        \/ n \in 1..Len(logs[i]) /\ logs'[i][n] = logs[i][n]
        \/ i = target[r] /\ n = Len(logs[i]) + 1 /\ logs'[i][n] = EntryOf(r)
  BY <1>0
<1>b. \A i \in Ids : \A n \in 1..Len(logs[i]) :
        n \in 1..Len(logs'[i]) /\ logs'[i][n] = logs[i][n]
  BY <1>0
<1>1. NoEntryYet'
  BY <1>0, <1>a DEF NoEntryYet
<1>2. StageOK'
  BY DEF StageOK, TypeOK, Exists, Writers
<1>3. LogIsEarned'
  <2>0. UNCHANGED <<target, op, saved>>
    OBVIOUS
  <2> SUFFICES ASSUME NEW i \in Ids, NEW n \in 1..Len(logs'[i])
               PROVE  LET q == logs'[i][n].req IN
                      /\ target[q] = i
                      /\ logs'[i][n] = EntryOf(q)
                      /\ op[q] \in Writers => q \in saved
                      /\ \A m \in 1..Len(logs'[i]) : logs'[i][m].req = q => m = n
    <3> HIDE DEF IInv, AppendLog, Goto, local
    <3>1. QED
      BY <2>0 DEF LogIsEarned, EntryOf
  <2>1. \A m \in 1..Len(logs[i]) : logs[i][m].req # r
    BY DEF NoEntryYet
  <2>2. CASE n \in 1..Len(logs[i]) /\ logs'[i][n] = logs[i][n]
    <3>1. logs[i][n].req = logs'[i][n].req
      BY <2>2
    <3>2. logs[i][n].req # r
      BY <2>2 DEF NoEntryYet
    <3>3. \A m \in 1..Len(logs'[i]) : logs'[i][m].req = logs[i][n].req =>
            m \in 1..Len(logs[i]) /\ logs[i][m].req = logs[i][n].req
      BY <1>0, <1>a, <3>2
    <3>4. QED
      BY <2>2, <3>1, <3>3 DEF LogIsEarned
  <2>3. CASE i = target[r] /\ n = Len(logs[i]) + 1 /\ logs'[i][n] = EntryOf(r)
    <3>1. op[r] \in Writers => r \in saved
      BY DEF StageOK
    <3>2. QED
      BY <1>0, <1>a, <2>1, <2>3, <3>1
  <2>4. QED
    BY <1>a, <2>2, <2>3
<1>4. OwnEntry'
  <2> SUFFICES ASSUME NEW q \in Requests, op[q] \in Writers
               PROVE  /\ pc'[q] \in {"emit", "readIncident", "readLogs"} =>
                           Exists(target[q]) /\ InLog(q, target[q])'
                      /\ pc'[q] \in {"readLogs", "done"} =>
                           snap[q].incident.status # "NONE"
                      /\ pc'[q] = "done" =>
                           \E n \in 1..Len(snap[q].logs) : snap[q].logs[n] = EntryOf(q)
    BY <1>0 DEF OwnEntry, Exists
  <2>1. target[q] \in Ids
    BY DEF TypeOK
  <2>2. CASE q = r
    <3>1. pc'[r] # "done" /\ Exists(target[r])
      BY <2>2 DEF StageOK, Writers, TypeOK
    <3>2. InLog(r, target[r])'
      BY <1>0 DEF InLog
    <3>3. QED
      BY <1>0, <2>2, <3>1, <3>2
  <2>3. CASE q # r
    <3>1. InLog(q, target[q]) => InLog(q, target[q])'
      BY <1>0, <1>b, <2>1 DEF InLog
    <3>2. QED
      BY <1>0, <2>3, <3>1 DEF OwnEntry
  <2>4. QED
    BY <2>2, <2>3
<1>5. CreatedEventIsReadable'
  <2>1. \A i \in events : i \in Ids
    BY DEF TypeOK
  <2>2. QED
    BY <1>b, <2>1 DEF CreatedEventIsReadable, Exists
<1>6. ResolvedStays'
  BY DEF ResolvedStays, KnownResolved, AckSaved, StageOK, TypeOK
<1>7. DateStays'
  BY DEF DateStays, KnownDated, StaleAckSaved, StageOK, TypeOK
<1>8. QED
  BY <1>1, <1>2, <1>3, <1>4, <1>5, <1>6, <1>7

\* The event follows the CREATED entry.
LEMMA EmitCreatedInv ==
  ASSUME IInv, TypeOK', NEW r \in Requests, EmitCreated(r)
  PROVE  IInv'
<1> USE DEF IInv, EmitCreated, Goto, local
<1>1. NoEntryYet'
  BY DEF NoEntryYet, TypeOK
<1>2. StageOK'
  BY DEF StageOK, TypeOK, Exists, Writers
<1>3. LogIsEarned'
  BY DEF LogIsEarned, NoEntryYet, TypeOK, EntryOf
<1>4. OwnEntry'
  BY DEF OwnEntry, TypeOK, InLog, EntryOf, Exists, StageOK
<1>5. CreatedEventIsReadable'
  <2>1. op[r] = "create" /\ target[r] \in Ids
    BY DEF StageOK, TypeOK
  <2>2. Exists(target[r]) /\ InLog(r, target[r])
    BY <2>1 DEF OwnEntry, Writers
  <2>3. EntryOf(r).action = "CREATED"
    BY <2>1 DEF EntryOf, Action
  <2>4. QED
    BY <2>1, <2>2, <2>3 DEF CreatedEventIsReadable, InLog, Exists
<1>6. ResolvedStays'
  BY DEF ResolvedStays, KnownResolved, AckSaved, StageOK, TypeOK
<1>7. DateStays'
  BY DEF DateStays, KnownDated, StaleAckSaved, StageOK, TypeOK
<1>8. QED
  BY <1>1, <1>2, <1>3, <1>4, <1>5, <1>6, <1>7

\* The snapshot's incident exists.
LEMMA ReadIncidentInv ==
  ASSUME IInv, TypeOK', NEW r \in Requests, ReadIncident(r)
  PROVE  IInv'
<1> USE DEF IInv, ReadIncident, Goto, data
<1>1. NoEntryYet'
  BY DEF NoEntryYet, TypeOK
<1>2. StageOK'
  BY DEF StageOK, TypeOK, Exists, Writers
<1>3. LogIsEarned'
  BY DEF LogIsEarned, NoEntryYet, TypeOK, EntryOf
<1>4. OwnEntry'
  BY DEF OwnEntry, TypeOK, InLog, EntryOf, Exists, StageOK
<1>5. CreatedEventIsReadable'
  BY DEF CreatedEventIsReadable, Exists
<1>6. ResolvedStays'
  BY DEF ResolvedStays, KnownResolved, AckSaved, StageOK, TypeOK
<1>7. DateStays'
  BY DEF DateStays, KnownDated, StaleAckSaved, StageOK, TypeOK
<1>8. QED
  BY <1>1, <1>2, <1>3, <1>4, <1>5, <1>6, <1>7

\* The snapshot's log rows contain the caller's own entry.
LEMMA ReadLogsInv ==
  ASSUME IInv, TypeOK', NEW r \in Requests, ReadLogs(r)
  PROVE  IInv'
<1> USE DEF IInv, ReadLogs, Goto, data
<1>1. NoEntryYet'
  BY DEF NoEntryYet, TypeOK
<1>2. StageOK'
  BY DEF StageOK, TypeOK, Exists, Writers
<1>3. LogIsEarned'
  BY DEF LogIsEarned, NoEntryYet, TypeOK, EntryOf
<1>4. OwnEntry'
  <2> SUFFICES ASSUME NEW q \in Requests, op[q] \in Writers
               PROVE  /\ pc'[q] \in {"emit", "readIncident", "readLogs"} =>
                           Exists(target[q]) /\ InLog(q, target[q])
                      /\ pc'[q] \in {"readLogs", "done"} =>
                           snap'[q].incident.status # "NONE"
                      /\ pc'[q] = "done" =>
                           \E n \in 1..Len(snap'[q].logs) : snap'[q].logs[n] = EntryOf(q)
    BY DEF OwnEntry, Exists, InLog, EntryOf
  <2>1. CASE q # r
    <3>1. pc'[q] = pc[q] /\ snap'[q] = snap[q]
      BY <2>1 DEF TypeOK
    <3>2. QED
      BY <3>1 DEF OwnEntry
  <2>2. CASE q = r
    <3>1. /\ pc[r] = "readLogs" /\ pc'[r] = "done"
          /\ snap'[r].logs = logs[target[r]]
          /\ snap'[r].incident = snap[r].incident
      BY DEF TypeOK
    <3>2. InLog(r, target[r]) /\ snap[r].incident.status # "NONE"
      BY <2>2, <3>1 DEF OwnEntry
    <3>3. QED
      BY <2>2, <3>1, <3>2 DEF InLog
  <2>3. QED
    BY <2>1, <2>2
<1>5. CreatedEventIsReadable'
  BY DEF CreatedEventIsReadable, Exists
<1>6. ResolvedStays'
  BY DEF ResolvedStays, KnownResolved, AckSaved, StageOK, TypeOK
<1>7. DateStays'
  BY DEF DateStays, KnownDated, StaleAckSaved, StageOK, TypeOK
<1>8. QED
  BY <1>1, <1>2, <1>3, <1>4, <1>5, <1>6, <1>7

\* A failed request leaves everything as it was.
LEMMA FailInv ==
  ASSUME IInv, TypeOK', NEW r \in Requests, Fail(r)
  PROVE  IInv'
<1> USE DEF IInv, Fail, data, local
<1>1. NoEntryYet'
  BY DEF NoEntryYet, TypeOK
<1>2. StageOK'
  BY DEF StageOK, TypeOK, Exists, Writers, Pending, Steps
<1>3. LogIsEarned'
  BY DEF LogIsEarned, NoEntryYet, TypeOK, EntryOf
<1>4. OwnEntry'
  BY DEF OwnEntry, TypeOK, InLog, EntryOf, Exists, StageOK
<1>5. CreatedEventIsReadable'
  BY DEF CreatedEventIsReadable, Exists
<1>6. ResolvedStays'
  BY DEF ResolvedStays, KnownResolved, AckSaved, StageOK, TypeOK
<1>7. DateStays'
  BY DEF DateStays, KnownDated, StaleAckSaved, StageOK, TypeOK
<1>8. QED
  BY <1>1, <1>2, <1>3, <1>4, <1>5, <1>6, <1>7

\* So does a crash.
LEMMA CrashInv ==
  ASSUME IInv, TypeOK', Crash
  PROVE  IInv'
<1> USE DEF IInv, Crash, data, local
<1>1. NoEntryYet'
  BY DEF NoEntryYet, TypeOK
<1>2. StageOK'
  BY DEF StageOK, TypeOK, Exists, Writers
<1>3. LogIsEarned'
  BY DEF LogIsEarned, NoEntryYet, TypeOK, EntryOf
<1>4. OwnEntry'
  BY DEF OwnEntry, TypeOK, InLog, EntryOf, Exists, StageOK
<1>5. CreatedEventIsReadable'
  BY DEF CreatedEventIsReadable, Exists
<1>6. ResolvedStays'
  BY DEF ResolvedStays, KnownResolved, AckSaved, StageOK, TypeOK
<1>7. DateStays'
  BY DEF DateStays, KnownDated, StaleAckSaved, StageOK, TypeOK
<1>8. QED
  BY <1>1, <1>2, <1>3, <1>4, <1>5, <1>6, <1>7

\* Every step of every request, and a crash, preserves the invariant.
LEMMA NextIInv == IInv /\ [Next]_vars => IInv'
<1> SUFFICES ASSUME IInv, [Next]_vars
             PROVE  IInv'
  OBVIOUS
<1>0. TypeOK'
  BY NextTypeOK DEF IInv
<1>1. ASSUME NEW r \in Requests, Acknowledge(r) PROVE IInv'
  <2>1. [rows[target[r]] EXCEPT !.status = "ACKNOWLEDGED"].status = "ACKNOWLEDGED"
    <3>1. rows[target[r]] \in Row
      BY DEF IInv, TypeOK
    <3>2. QED
      BY <3>1 DEF Row
  <2>2. QED
    BY <1>0, <1>1, <2>1, FindOrThrowInv DEF Acknowledge, Action
<1>2. ASSUME NEW r \in Requests, Resolve(r) PROVE IInv'
  <2>1. PICK t \in Dates :
          FindOrThrow(r, "resolve", "load", [status |-> "RESOLVED", resolvedAt |-> t])
    BY <1>2 DEF Resolve
  <2>2. QED
    BY <1>0, <2>1, FindOrThrowInv DEF Action
<1>3. ASSUME NEW r \in Requests, SendMessage(r) PROVE IInv'
  BY <1>0, <1>3, FindOrThrowInv DEF SendMessage
<1>4. ASSUME NEW r \in Requests, CreateIncident(r) \/ View(r) PROVE IInv'
  BY <1>0, <1>4, CreateIncidentInv, ViewInv
<1>5. ASSUME NEW r \in Requests, Continue(r) PROVE IInv'
  BY <1>0, <1>5, LoadForSaveInv, WriteRowInv, AppendLogInv, EmitCreatedInv,
     ReadIncidentInv, ReadLogsInv DEF Continue
<1>6. ASSUME NEW r \in Requests, Fail(r) PROVE IInv'
  BY <1>0, <1>6, FailInv
<1>7. CASE Crash
  BY <1>0, <1>7, CrashInv
<1>8. CASE UNCHANGED vars
  <2>1. /\ NoEntryYet' /\ StageOK' /\ LogIsEarned' /\ OwnEntry'
        /\ CreatedEventIsReadable'
    BY <1>8 DEF vars, IInv, NoEntryYet, StageOK, LogIsEarned, OwnEntry, InLog,
                EntryOf, Exists, CreatedEventIsReadable
  <2>2. ResolvedStays' /\ DateStays'
    BY <1>8 DEF vars, IInv, ResolvedStays, DateStays, KnownResolved, KnownDated,
                AckSaved, StaleAckSaved
  <2>3. QED
    BY <1>0, <2>1, <2>2 DEF IInv
<1>9. QED
  BY <1>1, <1>2, <1>3, <1>4, <1>5, <1>6, <1>7, <1>8 DEF Next, Start

LEMMA IInvCorrect == Spec => []IInv
<1>1. QED
  BY InitIInv, NextIInv, PTL DEF Spec

-----------------------------------------------------------------------------
(* The properties. *)

\* A timeline entry is never ahead of the row change it reports, never in
\* another incident's timeline and never there twice.
THEOREM TimelineNeverLies == Spec => []LogIsEarned
<1>1. IInv => LogIsEarned
  BY DEF IInv
<1>2. QED
  BY <1>1, IInvCorrect, PTL

\* Whoever gets an answer finds the own action in the snapshot.
THEOREM AnswersShowOwnAction == Spec => []AnswerShowsOwnAction
<1>1. IInv => AnswerShowsOwnAction
  BY DEF IInv, OwnEntry, AnswerShowsOwnAction, NoRow
<1>2. QED
  BY <1>1, IInvCorrect, PTL

\* A listener of 'incident.created' finds the incident and its first entry.
THEOREM CreatedEventsAreReadable == Spec => []CreatedEventIsReadable
<1>1. IInv => CreatedEventIsReadable
  BY DEF IInv
<1>2. QED
  BY <1>1, IInvCorrect, PTL

\* Only an acknowledgement can take back the status of a resolution.
THEOREM OnlyAckUndoesResolution == Spec => []ResolutionLostOnlyToAck
<1>1. IInv => ResolutionLostOnlyToAck
  BY DEF IInv, ResolvedStays, KnownResolved, AckSaved, ResolutionLostOnlyToAck,
         TypeOK
<1>2. QED
  BY <1>1, IInvCorrect, PTL

\* Only an acknowledgement that read the incident unresolved erases its date.
THEOREM OnlyStaleAckErasesDate == Spec => []DateLostOnlyToStaleAck
<1>1. IInv => DateLostOnlyToStaleAck
  BY DEF IInv, DateStays, KnownDated, StaleAckSaved, DateLostOnlyToStaleAck,
         TypeOK
<1>2. QED
  BY <1>1, IInvCorrect, PTL

\* Whatever overlaps or crashes, a committed resolution stands unless an
\* acknowledgement wrote the row too, and its date unless a stale one did.
THEOREM ResolutionsStand == Spec => []ResolutionStands
<1>1. ResolutionLostOnlyToAck /\ DateLostOnlyToStaleAck => ResolutionStands
  BY DEF ResolutionStands
<1>2. QED
  BY <1>1, OnlyAckUndoesResolution, OnlyStaleAckErasesDate, PTL

-----------------------------------------------------------------------------
(* Whose work a row shows.                                                 *)

\* A committed write of incident i left it with status s; a committed
\* resolution, with date d.
Did(i, s) == \E r \in saved : /\ target[r] = i
                              /\ s = Lifecycle!StatusOf[Action(op[r])]

Dated(i, d) == \E r \in saved : /\ target[r] = i /\ op[r] = "resolve"
                                /\ d = entity[r].resolvedAt

\* What an acknowledgement carries from its read to its save is a date of a
\* resolution as well: it may write it back.
HeldDatesAreOwned ==
  \A r \in Requests :
    pc[r] \in {"load", "write"} /\ op[r] = "ack" /\ entity[r].resolvedAt # NoDate =>
      Dated(target[r], entity[r].resolvedAt)

Accounted == RowIsAccountedFor /\ HeldDatesAreOwned

\* What a committed write is, it stays, and what is logged stays logged.
LEMMA WritesStay ==
  ASSUME IInv, [Next]_vars
  PROVE  \A q \in saved :
           /\ q \in saved' /\ q \in Requests
           /\ target'[q] = target[q] /\ op'[q] = op[q] /\ entity'[q] = entity[q]
           /\ InLog(q, target[q]) => InLog(q, target[q])'
<1> SUFFICES ASSUME NEW q \in saved
             PROVE  /\ q \in saved' /\ q \in Requests
                    /\ target'[q] = target[q] /\ op'[q] = op[q] /\ entity'[q] = entity[q]
                    /\ InLog(q, target[q]) => InLog(q, target[q])'
  OBVIOUS
<1>1. q \in Requests /\ pc[q] # "idle" /\ target[q] \in Ids
  BY DEF IInv, TypeOK, StageOK
<1>2. /\ op \in [Requests -> Ops] /\ target \in [Requests -> Ids]
      /\ entity \in [Requests -> Row] /\ logs \in [Ids -> Seq(Entry)]
  BY DEF IInv, TypeOK
<1>3. q \in saved' /\ target' = target /\ op'[q] = op[q] /\ entity'[q] = entity[q]
  <2>1. ASSUME NEW r \in Requests, Start(r)
        PROVE  q \in saved' /\ target' = target /\ op'[q] = op[q] /\ entity'[q] = entity[q]
    <3>1. pc[r] = "idle" /\ q # r
      BY <1>1, <2>1 DEF Start, CreateIncident, Acknowledge, Resolve, SendMessage, View,
                        FindOrThrow, Begin
    <3> QED
      BY <1>1, <1>2, <2>1, <3>1
      DEF Start, CreateIncident, Acknowledge, Resolve, SendMessage, View, FindOrThrow, Begin
  <2>2. ASSUME NEW r \in Requests, Continue(r) \/ Fail(r)
        PROVE  q \in saved' /\ target' = target /\ op'[q] = op[q] /\ entity'[q] = entity[q]
    BY <2>2 DEF Continue, LoadForSave, WriteRow, AppendLog, EmitCreated, ReadIncident,
                ReadLogs, Fail, local
  <2>3. CASE Crash \/ UNCHANGED vars
    BY <2>3 DEF Crash, local, vars
  <2> QED
    BY <2>1, <2>2, <2>3 DEF Next
<1>4. EntryOf(q)' = EntryOf(q)
  BY <1>3 DEF EntryOf
<1>5. \A n \in 1..Len(logs[target[q]]) :
        n \in 1..Len(logs'[target[q]]) /\ logs'[target[q]][n] = logs[target[q]][n]
  <2>1. CASE \E r \in Requests : AppendLog(r)
    <3>1. PICK r \in Requests : AppendLog(r)
      BY <2>1
    <3>2. logs' = [logs EXCEPT ![target[r]] = Append(@, EntryOf(r))] /\ target[r] \in Ids
      BY <1>2, <3>1 DEF AppendLog
    <3>3. logs[target[q]] \in Seq(Entry)
      BY <1>1, <1>2
    <3> QED
      BY <1>1, <1>2, <3>2, <3>3
  <2>2. CASE ~ \E r \in Requests : AppendLog(r)
    <3>1. UNCHANGED logs
      BY <2>2 DEF Next, Start, CreateIncident, Acknowledge, Resolve, SendMessage, View,
                  FindOrThrow, Continue, LoadForSave, WriteRow, EmitCreated, ReadIncident,
                  ReadLogs, Fail, Crash, data, vars
    <3> QED
      BY <3>1
  <2> QED
    BY <2>1, <2>2
<1>6. InLog(q, target[q]) => InLog(q, target[q])'
  BY <1>3, <1>4, <1>5 DEF InLog
<1> QED
  BY <1>1, <1>3, <1>6

LEMMA WorkStays ==
  ASSUME IInv, [Next]_vars, NEW i, NEW x
  PROVE  (Did(i, x) => Did(i, x)') /\ (Dated(i, x) => Dated(i, x)')
BY WritesStay DEF Did, Dated, Action

\* The writes of a step: a new row is OPEN, and of an old one a column keeps
\* its value or takes one of the request's own.
LEMMA StepWrites ==
  ASSUME IInv, HeldDatesAreOwned, [Next]_vars, NEW i \in Ids
  PROVE  /\ rows'[i].status = rows[i].status \/ Did(i, rows[i].status)'
         /\ \/ rows'[i].resolvedAt \in {rows[i].resolvedAt, NoDate}
            \/ Dated(i, rows[i].resolvedAt)'
<1>1. ASSUME NEW r \in Requests, CreateIncident(r), target[r] = i
      PROVE  Did(i, rows[i].status)' /\ rows'[i].resolvedAt = NoDate
  <2>1. rows'[i] = [status |-> "OPEN", resolvedAt |-> NoDate]
    BY <1>1 DEF CreateIncident, IInv, TypeOK
  <2>2. r \in saved' /\ target'[r] = i /\ op'[r] = "create"
    BY <1>1 DEF CreateIncident, Begin, IInv, TypeOK
  <2>3. Lifecycle!StatusOf["CREATED"] = "OPEN"
    BY DEF Lifecycle!StatusOf
  <2> QED
    BY <2>1, <2>2, <2>3 DEF Did, Action
<1>2. ASSUME NEW r \in Requests, WriteRow(r), target[r] = i
      PROVE  /\ rows'[i].status = rows[i].status \/ Did(i, rows[i].status)'
             /\ rows'[i].resolvedAt \in {rows[i].resolvedAt, NoDate} \/ Dated(i, rows[i].resolvedAt)'
  <2>1. rows'[i] = Merge(entity[r], loaded[r], rows[i])
    BY <1>2 DEF WriteRow, IInv, TypeOK
  <2>2. /\ r \in saved' /\ UNCHANGED <<target, op, entity>>
        /\ op[r] \in {"ack", "resolve"} /\ entity[r].status = Action(op[r])
        /\ pc[r] = "write"
    BY <1>2 DEF WriteRow, Goto, local, IInv, StageOK
  <2>3. Did(i, entity[r].status)'
    <3>1. entity[r].status = Lifecycle!StatusOf[Action(op[r])]
      BY <2>2 DEF Action, Lifecycle!StatusOf
    <3> QED
      BY <1>2, <2>2, <3>1 DEF Did, Action
  <2>4. entity[r].resolvedAt # NoDate => Dated(i, entity[r].resolvedAt)'
    <3>1. CASE op[r] = "resolve"
      BY <1>2, <2>2, <3>1 DEF Dated
    <3>2. CASE op[r] = "ack"
      <4> DEFINE d == entity[r].resolvedAt
      <4>1. d # NoDate => Dated(i, d)
        BY <1>2, <2>2, <3>2 DEF HeldDatesAreOwned
      <4>2. PICK c : c = d
        OBVIOUS
      <4>3. c # NoDate => Dated(i, c)'
        BY <4>1, <4>2, WorkStays
      <4>4. entity'[r].resolvedAt = c
        BY <2>2, <4>2
      <4> QED
        BY <2>2, <4>2, <4>3, <4>4 DEF Dated
    <3> QED
      BY <2>2, <3>1, <3>2
  <2>5. rows'[i].status \in {rows[i].status, entity[r].status}
    BY <2>1 DEF Merge
  <2>6. rows'[i].resolvedAt \in {rows[i].resolvedAt, entity[r].resolvedAt}
    BY <2>1 DEF Merge
  <2>7. rows'[i].status = rows[i].status \/ Did(i, rows[i].status)'
    <3>1. CASE rows'[i].status = entity[r].status
      BY <2>2, <2>3, <3>1 DEF Did
    <3> QED
      BY <2>5, <3>1
  <2>8. rows'[i].resolvedAt \in {rows[i].resolvedAt, NoDate} \/ Dated(i, rows[i].resolvedAt)'
    <3>1. CASE rows'[i].resolvedAt = entity[r].resolvedAt
      BY <2>2, <2>4, <3>1 DEF Dated
    <3> QED
      BY <2>6, <3>1
  <2> QED
    BY <2>7, <2>8
<1>3. CASE \E r \in Requests : target[r] = i /\ (CreateIncident(r) \/ WriteRow(r))
  BY <1>1, <1>2, <1>3
<1>4. CASE ~ \E r \in Requests : target[r] = i /\ (CreateIncident(r) \/ WriteRow(r))
  <2>1. rows'[i] = rows[i]
    <3>1. ASSUME NEW r \in Requests, CreateIncident(r) \/ WriteRow(r)
          PROVE  rows'[i] = rows[i]
      BY <1>4, <3>1 DEF CreateIncident, WriteRow, IInv, TypeOK
    <3>2. ASSUME ~ \E r \in Requests : CreateIncident(r) \/ WriteRow(r)
          PROVE  UNCHANGED rows
      BY <3>2 DEF Next, Start, Acknowledge, Resolve, SendMessage, View,
                  FindOrThrow, Continue, LoadForSave, AppendLog, EmitCreated, ReadIncident,
                  ReadLogs, Fail, Crash, data, vars
    <3> QED
      BY <3>1, <3>2
  <2> QED
    BY <2>1
<1> QED
  BY <1>3, <1>4

\* A request leaves its log step with its entry in the log, or fails there.
LEMMA StepLogs ==
  ASSUME IInv, RowIsAccountedFor, [Next]_vars, NEW q \in saved'
  PROVE  InLog(q, target[q])' \/ pc'[q] \in {"log", "failed"}
<1>1. q \in Requests /\ pc \in [Requests -> Steps] /\ target \in [Requests -> Ids]
  BY NextTypeOK DEF IInv, TypeOK
<1>2. CASE q \notin saved
  <2>1. PICK r \in Requests : CreateIncident(r) \/ WriteRow(r)
    BY <1>2 DEF Next, Start, Acknowledge, Resolve, SendMessage, View,
                FindOrThrow, Continue, LoadForSave, AppendLog, EmitCreated, ReadIncident,
                ReadLogs, Fail, Crash, local, data, vars
  <2> QED
    BY <1>1, <1>2, <2>1 DEF CreateIncident, Begin, WriteRow, Goto
<1>3. CASE q \in saved
  <2>1. CASE InLog(q, target[q])
    BY <1>3, <2>1, WritesStay
  <2>2. CASE pc[q] = "failed"
    <3>1. pc'[q] = "failed"
      BY <1>1, <2>2 DEF Next, Start, CreateIncident, Acknowledge, Resolve, SendMessage, View,
                  FindOrThrow, Begin, Goto, Continue, LoadForSave, WriteRow, AppendLog,
                  EmitCreated, ReadIncident, ReadLogs, Fail, Crash, Pending, vars
    <3> QED
      BY <3>1
  <2>3. CASE pc[q] = "log"
    <3>1. CASE AppendLog(q)
      <4>1. /\ target' = target /\ EntryOf(q)' = EntryOf(q) /\ logs[target[q]] \in Seq(Entry)
            /\ logs'[target[q]] = Append(logs[target[q]], EntryOf(q))
        BY <1>1, <3>1 DEF AppendLog, local, EntryOf, IInv, TypeOK
      <4> QED
        BY <4>1 DEF InLog
    <3>2. CASE ~AppendLog(q)
      <4>1. pc'[q] \in {"log", "failed"}
        BY <1>1, <2>3, <3>2
        DEF Next, Start, CreateIncident, Acknowledge, Resolve, SendMessage, View,
            FindOrThrow, Begin, Goto, Continue, LoadForSave, WriteRow, AppendLog,
            EmitCreated, ReadIncident, ReadLogs, Fail, Crash, vars
      <4> QED
        BY <4>1
    <3> QED
      BY <3>1, <3>2
  <2> QED
    BY <1>3, <2>1, <2>2, <2>3 DEF RowIsAccountedFor
<1> QED
  BY <1>2, <1>3

\* An acknowledgement reads a date that a resolution has left in the row.
LEMMA StepHolds ==
  ASSUME IInv, Accounted, [Next]_vars
  PROVE  HeldDatesAreOwned'
<1> SUFFICES ASSUME NEW r \in Requests, pc'[r] \in {"load", "write"}, op'[r] = "ack",
                    entity'[r].resolvedAt # NoDate
             PROVE  Dated(target[r], entity[r].resolvedAt)'
  BY DEF HeldDatesAreOwned
<1>1. /\ pc \in [Requests -> Steps] /\ op \in [Requests -> Ops]
      /\ target \in [Requests -> Ids] /\ entity \in [Requests -> Row]
      /\ rows \in [Ids -> Row]
  BY DEF IInv, TypeOK
<1>2. target' = target
  BY DEF Next, Start, CreateIncident, Acknowledge, Resolve, SendMessage, View,
         FindOrThrow, Continue, LoadForSave, WriteRow, AppendLog,
         EmitCreated, ReadIncident, ReadLogs, Fail, Crash, local, vars
<1>3. PICK i, d : i \in Ids /\ i = target[r] /\ d = entity'[r].resolvedAt
  BY <1>1
<1>4. Dated(i, d)
  <2>1. CASE pc[r] \in {"load", "write"} /\ op'[r] = op[r] /\ entity'[r] = entity[r]
    BY <1>3, <2>1 DEF Accounted, HeldDatesAreOwned
  <2>2. CASE Acknowledge(r)
    <3>1. /\ pc' = [pc EXCEPT ![r] = IF Exists(target[r]) THEN "load" ELSE "failed"]
          /\ entity' = IF Exists(target[r])
                       THEN [entity EXCEPT ![r] = [rows[target[r]] EXCEPT !.status = "ACKNOWLEDGED"]]
                       ELSE entity
      BY <2>2 DEF Acknowledge, FindOrThrow, Begin
    <3>2. rows[i] \in Row
      BY <1>1, <1>3
    <3>3. entity'[r].resolvedAt = rows[i].resolvedAt
      BY <1>1, <1>3, <3>1, <3>2 DEF Row
    <3> QED
      BY <1>3, <3>3 DEF Accounted, RowIsAccountedFor, Dated
  <2>3. \/ Acknowledge(r)
        \/ pc[r] \in {"load", "write"} /\ op'[r] = op[r] /\ entity'[r] = entity[r]
    BY <1>1 DEF Next, Start, CreateIncident, Acknowledge, Resolve, SendMessage, View,
           FindOrThrow, Begin, Goto, Continue, LoadForSave, WriteRow, AppendLog,
           EmitCreated, ReadIncident, ReadLogs, Fail, Crash, local, vars
  <2> QED
    BY <2>1, <2>2, <2>3
<1>5. Dated(i, d)'
  BY <1>4, WorkStays
<1> QED
  BY <1>2, <1>3, <1>5 DEF Dated

LEMMA NextAccounted ==
  ASSUME IInv, Accounted, [Next]_vars
  PROVE  Accounted'
<1>1. \A q \in saved' : InLog(q, target[q])' \/ pc'[q] \in {"log", "failed"}
  BY StepLogs DEF Accounted
<1>2. ASSUME NEW i \in Ids
      PROVE  /\ Exists(i)' => Did(i, rows[i].status)'
             /\ rows'[i].resolvedAt # NoDate => Dated(i, rows[i].resolvedAt)'
  <2>1. PICK s, d : s = rows[i].status /\ d = rows[i].resolvedAt
    OBVIOUS
  <2>2. (s # "NONE" => Did(i, s)) /\ (d # NoDate => Dated(i, d))
    BY <2>1 DEF Accounted, RowIsAccountedFor, Did, Dated, Exists
  <2>3. (s # "NONE" => Did(i, s)') /\ (d # NoDate => Dated(i, d)')
    BY <2>2, WorkStays
  <2>4. /\ rows'[i].status = s \/ Did(i, rows[i].status)'
        /\ rows'[i].resolvedAt \in {d, NoDate} \/ Dated(i, rows[i].resolvedAt)'
    BY <2>1, StepWrites DEF Accounted
  <2> QED
    BY <2>3, <2>4 DEF Exists, Did, Dated
<1>3. RowIsAccountedFor'
  BY <1>1, <1>2 DEF RowIsAccountedFor, Did, Dated
<1> QED
  BY <1>3, StepHolds DEF Accounted

\* Whatever overlaps, fails or crashes, an incident shows only what a request
\* that wrote it was asked to write, and its timeline has each of these unless
\* the request failed between its two round trips (save and appendLog).
THEOREM RowsAreAccountedFor == Spec => []RowIsAccountedFor
<1>1. Init => Accounted
  BY DEF Init, Accounted, RowIsAccountedFor, HeldDatesAreOwned, Exists, NoRow
<1>2. IInv /\ Accounted /\ [Next]_vars => Accounted'
  BY NextAccounted
<1>3. Accounted => RowIsAccountedFor
  BY DEF Accounted
<1> QED
  BY <1>1, <1>2, <1>3, IInvCorrect, PTL DEF Spec

-----------------------------------------------------------------------------
(* Callers who take turns: what each holds of the incident is up to date.  *)

\* What r is about to save differs from the row in what its operation sets.
HoldsRow(r) ==
  /\ pc[r] \in {"load", "write"} /\ op[r] = "ack" =>
       entity[r].resolvedAt = rows[target[r]].resolvedAt
  /\ pc[r] \in {"load", "write"} /\ op[r] = "resolve" => entity[r].resolvedAt \in Dates
  /\ pc[r] = "write" => loaded[r] = rows[target[r]]

\* One request at a time runs on an incident.
OneAtATime ==
  \A q, r \in Requests :
    pc[q] \in Pending /\ pc[r] \in Pending /\ target[q] = target[r] => q = r

TakeTurns ==
  /\ OneAtATime
  /\ \A i \in Ids : ~Exists(i) => rows[i] = NoRow
  /\ \A r \in Requests : HoldsRow(r)

\* A step of r disturbs no other request: none that runs has its target.
LEMMA OneMoves ==
  ASSUME TypeOK, TakeTurns, NEW r \in Requests, pc[r] \in Pending \/ Turn(r),
         target' = target,
         \A q \in Requests \ {r} : pc'[q] = pc[q] /\ op'[q] = op[q],
         \A q \in Requests \ {r} : entity'[q] = entity[q] /\ loaded'[q] = loaded[q],
         \A k \in Ids \ {target[r]} : rows'[k] = rows[k],
         \/ rows'[target[r]].status # "NONE"
         \/ rows'[target[r]] = rows[target[r]],
         HoldsRow(r)'
  PROVE  TakeTurns'
<1>1. \A q \in Requests \ {r} : pc[q] \in Pending => target[q] # target[r]
  BY DEF TakeTurns, OneAtATime, Turn
<1>2. OneAtATime'
  BY <1>1 DEF TakeTurns, OneAtATime
<1>3. \A i \in Ids : ~Exists(i)' => rows'[i] = NoRow
  BY DEF TakeTurns, Exists
<1>4. ASSUME NEW q \in Requests \ {r}
      PROVE  HoldsRow(q)'
  <2>1. CASE pc[q] \in {"load", "write"}
    <3>1. target[q] \in Ids \ {target[r]}
      BY <1>1, <2>1 DEF TypeOK, Pending, Steps
    <3>2. rows'[target[q]] = rows[target[q]]
      BY <3>1
    <3> QED
      BY <3>2 DEF TakeTurns, HoldsRow
  <2>2. CASE pc[q] \notin {"load", "write"}
    BY <2>2 DEF HoldsRow
  <2> QED
    BY <2>1, <2>2
<1> QED
  BY <1>2, <1>3, <1>4 DEF TakeTurns

\* Nothing of an idle request that starts, or fails to, is out of date.
LEMMA TurnStarts ==
  ASSUME IInv, TakeTurns, NEW r \in Requests, Turn(r), Start(r)
  PROVE  TakeTurns'
<1>1. TypeOK /\ target[r] \in Ids
  BY DEF IInv, TypeOK
<1>2. CASE CreateIncident(r)
  <2>1. /\ pc' = [pc EXCEPT ![r] = "log"] /\ op' = [op EXCEPT ![r] = "create"]
        /\ rows' = [rows EXCEPT ![target[r]] = [status |-> "OPEN", resolvedAt |-> NoDate]]
        /\ UNCHANGED <<target, entity, loaded>>
    BY <1>2 DEF CreateIncident, Begin
  <2>2. HoldsRow(r)'
    BY <1>1, <2>1 DEF HoldsRow, TypeOK
  <2> QED
    BY <1>1, <2>1, <2>2, OneMoves DEF TypeOK
<1>3. CASE View(r)
  <2>1. /\ pc' = [pc EXCEPT ![r] = "readIncident"] /\ op' = [op EXCEPT ![r] = "view"]
        /\ UNCHANGED <<rows, target, entity, loaded>>
    BY <1>3 DEF View, Begin, data
  <2>2. HoldsRow(r)'
    BY <1>1, <2>1 DEF HoldsRow, TypeOK
  <2> QED
    BY <1>1, <2>1, <2>2, OneMoves DEF TypeOK
<1>4. ASSUME NEW o \in {"ack", "resolve", "message"}, NEW next \in {"load", "log"},
             NEW found \in Row, FindOrThrow(r, o, next, found),
             next = "load" /\ o = "ack" => found.resolvedAt = rows[target[r]].resolvedAt,
             next = "load" /\ o = "resolve" => found.resolvedAt \in Dates
      PROVE  TakeTurns'
  <2>1. /\ pc' = [pc EXCEPT ![r] = IF Exists(target[r]) THEN next ELSE "failed"]
        /\ op' = [op EXCEPT ![r] = o]
        /\ entity' = IF Exists(target[r]) THEN [entity EXCEPT ![r] = found] ELSE entity
        /\ UNCHANGED <<rows, target, loaded>>
    BY <1>4 DEF FindOrThrow, Begin
  <2>2. HoldsRow(r)'
    BY <1>1, <1>4, <2>1 DEF HoldsRow, TypeOK
  <2> QED
    BY <1>1, <2>1, <2>2, OneMoves DEF TypeOK
<1>5. rows[target[r]] \in Row
  BY <1>1 DEF TypeOK
<1>6. CASE Acknowledge(r)
  <2>1. PICK found \in Row : /\ found.resolvedAt = rows[target[r]].resolvedAt
                             /\ FindOrThrow(r, "ack", "load", found)
    BY <1>5, <1>6 DEF Acknowledge, Row, Statuses
  <2> QED
    BY <1>4, <2>1
<1>7. CASE Resolve(r)
  <2>1. PICK t \in Dates :
          FindOrThrow(r, "resolve", "load", [status |-> "RESOLVED", resolvedAt |-> t])
    BY <1>7 DEF Resolve
  <2>2. [status |-> "RESOLVED", resolvedAt |-> t] \in Row
    BY DEF Row, Statuses
  <2> QED
    BY <1>4, <2>1, <2>2
<1>8. CASE SendMessage(r)
  BY <1>4, <1>5, <1>8 DEF SendMessage
<1> QED
  BY <1>2, <1>3, <1>6, <1>7, <1>8 DEF Start

LEMMA TurnGoesOn ==
  ASSUME IInv, TakeTurns, NEW r \in Requests, Continue(r)
  PROVE  TakeTurns'
<1>1. TypeOK /\ target[r] \in Ids /\ StageOK
  BY DEF IInv, TypeOK
<1>2. /\ pc[r] \in Pending /\ pc' = [pc EXCEPT ![r] = pc'[r]]
      /\ UNCHANGED <<target, op, entity>>
  BY <1>1 DEF Continue, LoadForSave, WriteRow, AppendLog, EmitCreated, ReadIncident,
     ReadLogs, Goto, local, Pending, Steps, TypeOK
<1>3. CASE LoadForSave(r)
  <2>1. /\ pc[r] = "load" /\ loaded' = [loaded EXCEPT ![r] = rows[target[r]]]
        /\ rows' = rows
    BY <1>3 DEF LoadForSave, Goto, data
  <2>2. HoldsRow(r)'
    BY <1>1, <1>2, <2>1 DEF HoldsRow, TakeTurns, TypeOK
  <2> QED
    BY <1>1, <1>2, <2>1, <2>2, OneMoves DEF TypeOK
<1>4. CASE WriteRow(r)
  <2>1. /\ pc' = [pc EXCEPT ![r] = "log"] /\ pc[r] = "write" /\ UNCHANGED loaded
        /\ rows' = [rows EXCEPT ![target[r]] = Merge(entity[r], loaded[r], rows[target[r]])]
    BY <1>4 DEF WriteRow, Goto, local
  <2>2. HoldsRow(r)'
    BY <1>1, <2>1 DEF HoldsRow, TypeOK
  <2>3. rows'[target[r]].status # "NONE"
    <3>1. /\ entity[r].status = Action(op[r]) /\ op[r] \in {"ack", "resolve"}
          /\ rows[target[r]].status # "NONE"
      BY <1>1, <2>1 DEF StageOK, Exists
    <3>2. Merge(entity[r], loaded[r], rows[target[r]]).status # "NONE"
      BY <3>1 DEF Merge, Action
    <3> QED
      BY <1>1, <2>1, <3>2 DEF TypeOK
  <2> QED
    BY <1>1, <1>2, <2>1, <2>2, <2>3, OneMoves DEF TypeOK
<1>5. CASE AppendLog(r) \/ EmitCreated(r) \/ ReadIncident(r) \/ ReadLogs(r)
  <2>1. UNCHANGED <<rows, loaded>> /\ pc'[r] \notin {"load", "write"}
    BY <1>1, <1>5 DEF AppendLog, EmitCreated, ReadIncident, ReadLogs, Goto, local, data, TypeOK
  <2>2. HoldsRow(r)'
    BY <2>1 DEF HoldsRow
  <2> QED
    BY <1>1, <1>2, <2>1, <2>2, OneMoves DEF TypeOK
<1> QED
  BY <1>3, <1>4, <1>5 DEF Continue

LEMMA TurnsTaken == IInv /\ TakeTurns /\ [SerialNext]_vars => TakeTurns'
<1> SUFFICES ASSUME IInv, TakeTurns, [SerialNext]_vars
             PROVE  TakeTurns'
  OBVIOUS
<1>1. ASSUME NEW r \in Requests, Fail(r)
      PROVE  TakeTurns'
  <2>1. /\ pc[r] \in Pending /\ pc' = [pc EXCEPT ![r] = "failed"]
        /\ UNCHANGED <<rows, target, op, entity, loaded>>
    BY <1>1 DEF Fail, data, local
  <2>2. HoldsRow(r)'
    BY <2>1 DEF HoldsRow, IInv, TypeOK
  <2> QED
    BY <2>1, <2>2, OneMoves DEF IInv, TypeOK
<1>2. CASE Crash
  <2>1. /\ \A r \in Requests : pc'[r] = IF pc[r] \in Pending THEN "failed" ELSE pc[r]
        /\ UNCHANGED <<rows, target, op, entity, loaded>>
    BY <1>2 DEF Crash, data, local
  <2>2. \A r \in Requests : pc'[r] \notin Pending
    BY <2>1 DEF Pending
  <2> QED
    BY <2>1, <2>2 DEF TakeTurns, OneAtATime, HoldsRow, Exists, Pending, Steps
<1>3. CASE UNCHANGED vars
  BY <1>3 DEF vars, TakeTurns, OneAtATime, HoldsRow, Exists
<1> QED
  BY <1>1, <1>2, <1>3, TurnStarts, TurnGoesOn DEF SerialNext

\* Turns are one way for requests to overlap.
LEMMA SerialInv == SerialSpec => [](IInv /\ TakeTurns)
<1>1. Init => TakeTurns
  BY DEF Init, TakeTurns, OneAtATime, HoldsRow, Exists, Pending, NoRow
<1>2. [SerialNext]_vars => [Next]_vars
  BY DEF SerialNext, Next
<1> QED
  BY <1>1, <1>2, InitIInv, NextIInv, TurnsTaken, PTL DEF SerialSpec

-----------------------------------------------------------------------------
(* The timeline as the abstract incident has it. *)

Acts(s) == [n \in 1..Len(s) |-> s[n].action]

LEMMA ActsOf ==
  ASSUME NEW s \in Seq(Entry)
  PROVE  /\ Acts(s) \in Seq(LogActions) /\ Acts(s) \o <<>> = Acts(s)
         /\ \A e \in Entry : Acts(Append(s, e)) = Append(Acts(s), e.action)
         /\ \A a \in LogActions : Acts(s) \o <<a>> = Append(Acts(s), a)
<1>1. Len(s) \in Nat /\ \A n \in 1..Len(s) : s[n].action \in LogActions
  <2>1. \A n \in 1..Len(s) : s[n] \in Entry
    OBVIOUS
  <2>2. \A e \in Entry : e.action \in LogActions
    BY DEF Entry
  <2> QED
    BY <2>1, <2>2
<1>2. /\ Acts(s) \in Seq(LogActions) /\ Len(Acts(s)) = Len(s)
      /\ \A n \in 1..Len(s) : Acts(s)[n] = s[n].action
  BY <1>1 DEF Acts
<1>3. ASSUME NEW e \in Entry
      PROVE  Acts(Append(s, e)) = Append(Acts(s), e.action)
  <2>1. e.action \in LogActions
    BY DEF Entry
  <2>2. /\ Append(s, e) \in Seq(Entry) /\ Len(Append(s, e)) = Len(s) + 1
        /\ \A n \in 1..(Len(s) + 1) : Append(s, e)[n] = IF n = Len(s) + 1 THEN e ELSE s[n]
    OBVIOUS
  <2>3. /\ Append(Acts(s), e.action) \in Seq(LogActions)
        /\ Len(Append(Acts(s), e.action)) = Len(s) + 1
        /\ \A n \in 1..(Len(s) + 1) :
             Append(Acts(s), e.action)[n] = IF n = Len(s) + 1 THEN e.action ELSE Acts(s)[n]
    BY <1>2, <2>1
  <2>4. Acts(Append(s, e)) = [n \in 1..(Len(s) + 1) |-> Append(Acts(s), e.action)[n]]
    BY <1>1, <1>2, <2>2, <2>3 DEF Acts
  <2> QED
    BY <2>3, <2>4
<1>4. \A a \in LogActions : Acts(s) \o <<a>> = Append(Acts(s), a)
  BY <1>2
<1>5. Acts(s) \o <<>> = Acts(s)
  BY <1>2
<1> QED
  BY <1>2, <1>3, <1>4, <1>5

\* A write is in the abstract timeline from the moment the row has changed.
TimelineIs(i) ==
  /\ Recording(i) = {} => TimelineOf(i) = Acts(logs[i])
  /\ \A r \in Recording(i) : TimelineOf(i) = Append(Acts(logs[i]), Action(op[r]))
  /\ TimelineOf(i) \in Seq(LogActions)

LEMMA TimelineCases == IInv /\ TakeTurns => \A i \in Ids : TimelineIs(i)
<1> SUFFICES ASSUME IInv, TakeTurns, NEW i \in Ids
             PROVE  TimelineIs(i)
  OBVIOUS
<1>1. logs[i] \in Seq(Entry)
  BY DEF IInv, TypeOK
<1>2. TimelineOf(i) = Acts(logs[i]) \o
        (IF Recording(i) = {} THEN <<>>
         ELSE <<Action(op[CHOOSE r \in Recording(i) : TRUE])>>)
  BY DEF TimelineOf, Acts
<1>3. Acts(logs[i]) \in Seq(LogActions) /\ Acts(logs[i]) \o <<>> = Acts(logs[i])
  BY <1>1, ActsOf
<1>4. ASSUME NEW r \in Recording(i)
      PROVE  /\ TimelineOf(i) = Append(Acts(logs[i]), Action(op[r]))
             /\ TimelineOf(i) \in Seq(LogActions)
  <2>1. Recording(i) = {r}
    BY <1>4 DEF TakeTurns, OneAtATime, Recording, Pending, Steps
  <2>2. (CHOOSE q \in Recording(i) : TRUE) = r
    BY <2>1
  <2>3. Action(op[r]) \in LogActions
    BY DEF Action, LogActions
  <2>4. TimelineOf(i) = Acts(logs[i]) \o <<Action(op[r])>>
    BY <1>2, <2>1, <2>2
  <2> QED
    BY <1>1, <1>3, <2>3, <2>4, ActsOf
<1> QED
  BY <1>2, <1>3, <1>4 DEF TimelineIs

LEMMA TimelineCasesAfter == IInv' /\ TakeTurns' => \A i \in Ids : TimelineIs(i)'
<1>1. IInv' /\ TakeTurns' => (\A i \in Ids : TimelineIs(i))'
  BY TimelineCases, PTL
<1> QED
  BY <1>1

\* Who records, and what, is the same.
LEMMA TimelineKept ==
  ASSUME NEW i \in Ids, TimelineIs(i), TimelineIs(i)', logs'[i] = logs[i],
         Recording(i)' = Recording(i), \A q \in Recording(i) : op'[q] = op[q]
  PROVE  TimelineOf(i)' = TimelineOf(i)
<1>1. CASE Recording(i) = {}
  BY <1>1 DEF TimelineIs
<1>2. CASE Recording(i) # {}
  <2>1. PICK q \in Recording(i) : op'[q] = op[q]
    BY <1>2
  <2> QED
    BY <2>1 DEF TimelineIs
<1> QED
  BY <1>1, <1>2

\* What the abstract incident may do: action a leaves status s and date d.
Allowed(i, a, s, d) ==
  \/ /\ rows[i].status = "NONE" /\ a = "CREATED"
     /\ s = "OPEN" /\ d = rows[i].resolvedAt
  \/ /\ rows[i].status # "NONE" /\ a = "ACKNOWLEDGED"
     /\ s = "ACKNOWLEDGED" /\ d = rows[i].resolvedAt
  \/ /\ rows[i].status # "NONE" /\ a = "RESOLVED"
     /\ s = "RESOLVED" /\ d \in Dates
  \/ /\ rows[i].status # "NONE" /\ a = "MESSAGE"
     /\ s = rows[i].status /\ d = rows[i].resolvedAt

\* One incident moves and records it.
Moves(i, a, s, d) ==
  /\ Allowed(i, a, s, d)
  /\ rows'[i] = [status |-> s, resolvedAt |-> d]
  /\ TimelineOf(i)' = Append(TimelineOf(i), a)
  /\ \A k \in Ids \ {i} : rows'[k] = rows[k] /\ TimelineOf(k)' = TimelineOf(k)

Rests == \A i \in Ids : rows'[i] = rows[i] /\ TimelineOf(i)' = TimelineOf(i)

\* A request that starts or goes on without writing changes nothing that shows.
LEMMA QuietSteps ==
  ASSUME IInv, TakeTurns, IInv', TakeTurns', NEW r \in Requests, UNCHANGED <<rows, logs, target>>,
         \A q \in Requests \ {r} : pc'[q] = pc[q] /\ op'[q] = op[q],
         pc[r] # "log", pc'[r] = "log" => op'[r] \notin Writers
  PROVE  Rests
<1>1. \A i \in Ids : TimelineIs(i) /\ TimelineIs(i)'
  BY TimelineCases, TimelineCasesAfter
<1>2. \A i \in Ids : Recording(i)' = Recording(i) /\ \A q \in Recording(i) : op'[q] = op[q]
  BY DEF Recording
<1> QED
  BY <1>1, <1>2, TimelineKept DEF Rests

LEMMA CreateMoves ==
  ASSUME IInv, TakeTurns, IInv', TakeTurns', NEW r \in Requests, Turn(r), CreateIncident(r)
  PROVE  \E i \in Ids : \E a, s, d : Moves(i, a, s, d)
<1>1. PICK i \in Ids : i = target[r]
  BY DEF IInv, TypeOK
<1>2. /\ ~Exists(i) /\ pc[r] = "idle"
      /\ pc' = [pc EXCEPT ![r] = "log"] /\ op' = [op EXCEPT ![r] = "create"]
      /\ rows' = [rows EXCEPT ![i] = [status |-> "OPEN", resolvedAt |-> NoDate]]
      /\ UNCHANGED <<logs, target>>
  BY <1>1 DEF CreateIncident, Begin
<1>3. TypeOK /\ \A k \in Ids : TimelineIs(k) /\ TimelineIs(k)'
  BY TimelineCases, TimelineCasesAfter DEF IInv
<1>4. Recording(i) = {}
  BY <1>1 DEF Recording, Turn, Pending, Steps
<1>5. r \in Recording(i)' /\ Action(op'[r]) = "CREATED"
  BY <1>1, <1>2, <1>3 DEF Recording, TypeOK, Writers, Action
<1>6. \A k \in Ids \ {i} : /\ Recording(k)' = Recording(k)
                           /\ \A q \in Recording(k) : op'[q] = op[q]
  BY <1>1, <1>2, <1>3 DEF Recording, TypeOK
<1>7. \A k \in Ids \ {i} : rows'[k] = rows[k] /\ TimelineOf(k)' = TimelineOf(k)
  BY <1>2, <1>3, <1>6, TimelineKept DEF TypeOK
<1>8. rows[i] = NoRow
  BY <1>2 DEF TakeTurns
<1>9. rows'[i] = [status |-> "OPEN", resolvedAt |-> NoDate]
  BY <1>2, <1>3 DEF TypeOK
<1>10. TimelineOf(i)' = Append(TimelineOf(i), "CREATED")
  BY <1>2, <1>3, <1>4, <1>5 DEF TimelineIs
<1>11. Allowed(i, "CREATED", "OPEN", NoDate)
  BY <1>8 DEF Allowed, NoRow
<1> QED
  BY <1>7, <1>9, <1>10, <1>11 DEF Moves

LEMMA WriteMoves ==
  ASSUME IInv, TakeTurns, IInv', TakeTurns', NEW r \in Requests, WriteRow(r)
  PROVE  \E i \in Ids : \E a, s, d : Moves(i, a, s, d)
<1>1. PICK i \in Ids : i = target[r]
  BY DEF IInv, TypeOK
<1>2. /\ pc[r] = "write" /\ pc' = [pc EXCEPT ![r] = "log"]
      /\ rows' = [rows EXCEPT ![i] = Merge(entity[r], loaded[r], rows[i])]
      /\ UNCHANGED <<logs, target, op>>
  BY <1>1 DEF WriteRow, Goto, local
<1>3. TypeOK /\ \A k \in Ids : TimelineIs(k) /\ TimelineIs(k)'
  BY TimelineCases, TimelineCasesAfter DEF IInv
<1>4. Recording(i) = {}
  BY <1>1, <1>2 DEF Recording, TakeTurns, OneAtATime, Pending, Steps
<1>5. /\ op[r] \in {"ack", "resolve"} /\ entity[r].status = Action(op[r])
      /\ rows[i].status # "NONE"
  BY <1>1, <1>2 DEF IInv, StageOK, Exists
<1>6. /\ loaded[r] = rows[i]
      /\ op[r] = "ack" => entity[r].resolvedAt = rows[i].resolvedAt
      /\ op[r] = "resolve" => entity[r].resolvedAt \in Dates
  BY <1>1, <1>2 DEF TakeTurns, HoldsRow
<1>7. rows'[i] = [status |-> Action(op[r]), resolvedAt |-> entity[r].resolvedAt]
  BY <1>2, <1>3, <1>5, <1>6 DEF Merge, TypeOK
<1>8. r \in Recording(i)' /\ op'[r] = op[r]
  BY <1>1, <1>2, <1>3, <1>5 DEF Recording, TypeOK, Writers
<1>9. TimelineOf(i)' = Append(TimelineOf(i), Action(op[r]))
  BY <1>2, <1>3, <1>4, <1>8 DEF TimelineIs
<1>10. \A k \in Ids \ {i} : /\ Recording(k)' = Recording(k)
                            /\ \A q \in Recording(k) : op'[q] = op[q]
  BY <1>1, <1>2, <1>3 DEF Recording, TypeOK
<1>11. \A k \in Ids \ {i} : rows'[k] = rows[k] /\ TimelineOf(k)' = TimelineOf(k)
  BY <1>2, <1>3, <1>10, TimelineKept DEF TypeOK
<1>12. Allowed(i, Action(op[r]), Action(op[r]), entity[r].resolvedAt)
  BY <1>5, <1>6 DEF Allowed, Action
<1> QED
  BY <1>7, <1>9, <1>11, <1>12 DEF Moves

\* The log row of a write has been counted already; that of a message is news.
LEMMA LogSteps ==
  ASSUME IInv, TakeTurns, IInv', TakeTurns', NEW r \in Requests, AppendLog(r)
  PROVE  Rests \/ \E i \in Ids : \E a, s, d : Moves(i, a, s, d)
<1>1. PICK i \in Ids : i = target[r]
  BY DEF IInv, TypeOK
<1>2. /\ pc[r] = "log" /\ UNCHANGED <<rows, target, op>>
      /\ logs' = [logs EXCEPT ![i] = Append(logs[i], EntryOf(r))]
      /\ pc' = [pc EXCEPT ![r] = pc'[r]] /\ pc'[r] # "log"
  <2>1. PICK to \in {"emit", "done", "readIncident"} : pc' = [pc EXCEPT ![r] = to]
    BY DEF AppendLog, Goto
  <2> QED
    BY <1>1, <2>1 DEF AppendLog, Goto, local, IInv, TypeOK
<1>3. TypeOK /\ \A k \in Ids : TimelineIs(k) /\ TimelineIs(k)'
  BY TimelineCases, TimelineCasesAfter DEF IInv
<1>4. Recording(i) \subseteq {r} /\ Recording(i)' = {}
  <2>1. \A q \in Requests : pc[q] = "log" /\ target[q] = i => q = r
    BY <1>1, <1>2 DEF TakeTurns, OneAtATime, Pending, Steps
  <2> QED
    BY <1>2, <1>3, <2>1 DEF Recording, TypeOK
<1>5. \A k \in Ids \ {i} : /\ Recording(k)' = Recording(k)
                           /\ \A q \in Recording(k) : op'[q] = op[q]
  BY <1>1, <1>2, <1>3 DEF Recording, TypeOK
<1>6. \A k \in Ids \ {i} : rows'[k] = rows[k] /\ TimelineOf(k)' = TimelineOf(k)
  BY <1>2, <1>3, <1>5, TimelineKept DEF TypeOK
<1>7. TimelineOf(i)' = Append(Acts(logs[i]), Action(op[r]))
  <2>1. TimelineOf(i)' = Acts(logs'[i])
    BY <1>3, <1>4 DEF TimelineIs
  <2>2. EntryOf(r) \in Entry /\ EntryOf(r).action = Action(op[r])
    BY EntryType, <1>3 DEF EntryOf, TypeOK
  <2>3. logs[i] \in Seq(Entry) /\ logs'[i] = Append(logs[i], EntryOf(r))
    BY <1>2, <1>3 DEF TypeOK
  <2> QED
    BY <2>1, <2>2, <2>3, ActsOf
<1>8. CASE op[r] \in Writers
  <2>1. r \in Recording(i)
    BY <1>1, <1>2, <1>8 DEF Recording
  <2>2. TimelineOf(i)' = TimelineOf(i)
    BY <1>3, <1>7, <2>1 DEF TimelineIs
  <2> QED
    BY <1>2, <1>6, <2>2 DEF Rests
<1>9. CASE op[r] \notin Writers
  <2>1. Recording(i) = {}
    BY <1>4, <1>9 DEF Recording
  <2>2. Action(op[r]) = "MESSAGE"
    BY <1>9 DEF Action, Writers
  <2>3. TimelineOf(i)' = Append(TimelineOf(i), "MESSAGE")
    BY <1>3, <1>7, <2>1, <2>2 DEF TimelineIs
  <2>4. rows[i] \in Row /\ rows[i].status # "NONE"
    BY <1>1, <1>2, <1>3 DEF TypeOK, IInv, StageOK, Exists
  <2>5. rows'[i] = [status |-> rows[i].status, resolvedAt |-> rows[i].resolvedAt]
    BY <1>2, <2>4 DEF Row
  <2>6. Allowed(i, "MESSAGE", rows[i].status, rows[i].resolvedAt)
    BY <2>4 DEF Allowed
  <2> QED
    BY <1>6, <2>3, <2>5, <2>6 DEF Moves
<1> QED
  BY <1>8, <1>9

\* Every step of the service rests or moves one incident, log row included.
LEMMA SerialSteps ==
  ASSUME ~MayFail, IInv, TakeTurns, IInv', TakeTurns', [SerialNext]_vars
  PROVE  Rests \/ \E i \in Ids : \E a, s, d : Moves(i, a, s, d)
<1>1. TypeOK
  BY DEF IInv
<1>2. ASSUME NEW r \in Requests, NEW o \in {"ack", "resolve", "message"}, NEW found,
             FindOrThrow(r, o, IF o = "message" THEN "log" ELSE "load", found)
      PROVE  Rests
  <2>1. /\ pc[r] = "idle" /\ UNCHANGED <<rows, logs, target>>
        /\ op' = [op EXCEPT ![r] = o] /\ pc' = [pc EXCEPT ![r] = pc'[r]]
        /\ pc'[r] = "log" => o = "message"
    BY <1>1, <1>2 DEF FindOrThrow, Begin, TypeOK
  <2> QED
    BY <1>1, <2>1, QuietSteps DEF TypeOK, Writers
<1>3. ASSUME NEW r \in Requests,
             Acknowledge(r) \/ Resolve(r) \/ SendMessage(r)
      PROVE  Rests
  BY <1>2, <1>3 DEF Acknowledge, Resolve, SendMessage
<1>4. ASSUME NEW r \in Requests, View(r)
      PROVE  Rests
  <2>1. /\ pc[r] = "idle" /\ UNCHANGED <<rows, logs, target>>
        /\ op' = [op EXCEPT ![r] = "view"] /\ pc' = [pc EXCEPT ![r] = "readIncident"]
    BY <1>4 DEF View, Begin, data
  <2> QED
    BY <1>1, <2>1, QuietSteps DEF TypeOK
<1>5. ASSUME NEW r \in Requests,
             LoadForSave(r) \/ EmitCreated(r) \/ ReadIncident(r) \/ ReadLogs(r)
      PROVE  Rests
  <2>1. /\ pc[r] # "log" /\ UNCHANGED <<rows, logs, target, op>>
        /\ pc' = [pc EXCEPT ![r] = pc'[r]] /\ pc'[r] # "log"
    BY <1>1, <1>5 DEF LoadForSave, EmitCreated, ReadIncident, ReadLogs, Goto, data, local, TypeOK
  <2> QED
    BY <1>1, <2>1, QuietSteps DEF TypeOK
<1>6. CASE UNCHANGED vars
  <2>1. \A i \in Ids : TimelineIs(i) /\ TimelineIs(i)'
    BY TimelineCases, TimelineCasesAfter
  <2>2. \A i \in Ids : Recording(i)' = Recording(i) /\ \A q \in Recording(i) : op'[q] = op[q]
    BY <1>6 DEF Recording, vars
  <2> QED
    BY <1>6, <2>1, <2>2, TimelineKept DEF Rests, vars
<1>7. ASSUME NEW r \in Requests, Turn(r), CreateIncident(r)
      PROVE  \E i \in Ids : \E a, s, d : Moves(i, a, s, d)
  BY <1>7, CreateMoves
<1>8. ASSUME NEW r \in Requests, WriteRow(r)
      PROVE  \E i \in Ids : \E a, s, d : Moves(i, a, s, d)
  BY <1>8, WriteMoves
<1>9. ASSUME NEW r \in Requests, AppendLog(r)
      PROVE  Rests \/ \E i \in Ids : \E a, s, d : Moves(i, a, s, d)
  BY <1>9, LogSteps
<1>10. /\ \A r \in Requests : ~Fail(r)
       /\ ~Crash
  BY DEF Fail, Crash
<1>11. CASE SerialNext
  <2>1. \E r \in Requests : (Turn(r) /\ Start(r)) \/ Continue(r)
    BY <1>10, <1>11 DEF SerialNext
  <2> QED
    BY <2>1, <1>3, <1>4, <1>5, <1>7, <1>8, <1>9 DEF Start, Continue
<1> QED
  BY <1>6, <1>11

-----------------------------------------------------------------------------
(* The service implements the abstract incident. *)

LEMMA TimelineOfInit ==
  ASSUME Init, NEW i \in Ids
  PROVE  TimelineOf(i) = <<>>
<1>1. logs[i] = <<>> /\ Recording(i) = {}
  BY DEF Init, Recording
<1>2. [n \in 1..Len(logs[i]) |-> logs[i][n].action] = <<>>
  BY <1>1
<1> QED
  BY <1>1, <1>2 DEF TimelineOf

LEMMA InitMaps == Init => Lifecycle!Init
BY TimelineOfInit DEF Init, Lifecycle!Init, NoRow

LEMMA RestsMaps == Rests => UNCHANGED Lifecycle!vars
BY DEF Rests, Lifecycle!vars

LEMMA MovesMap ==
  ASSUME NEW i \in Ids, NEW a, NEW s, NEW d, Moves(i, a, s, d)
  PROVE  Lifecycle!Next
<1> DEFINE st == [k \in Ids |-> rows[k].status]
           at == [k \in Ids |-> rows[k].resolvedAt]
           tl == [k \in Ids |-> TimelineOf(k)]
<1>1. /\ st' = [st EXCEPT ![i] = s]
      /\ at' = [at EXCEPT ![i] = d]
      /\ tl' = [tl EXCEPT ![i] = Append(tl[i], a)]
  <2>1. \A k \in Ids : /\ st'[k] = IF k = i THEN s ELSE st[k]
                       /\ at'[k] = IF k = i THEN d ELSE at[k]
                       /\ tl'[k] = IF k = i THEN Append(tl[i], a) ELSE tl[k]
    BY DEF Moves
  <2> QED
    BY <2>1
<1>2. st[i] = rows[i].status /\ at[i] = rows[i].resolvedAt
  OBVIOUS
<1>3. CASE rows[i].status = "NONE" /\ a = "CREATED" /\ s = "OPEN" /\ d = rows[i].resolvedAt
  <2>1. Lifecycle!Open(i)
    BY <1>1, <1>2, <1>3 DEF Lifecycle!Open, Lifecycle!Record
  <2> QED
    BY <2>1 DEF Lifecycle!Next
<1>4. CASE rows[i].status # "NONE" /\ a = "ACKNOWLEDGED" /\ s = "ACKNOWLEDGED"
           /\ d = rows[i].resolvedAt
  <2>1. Lifecycle!BecomesAcknowledged(i)
    BY <1>1, <1>2, <1>4 DEF Lifecycle!BecomesAcknowledged, Lifecycle!Record
  <2>2. Lifecycle!Acknowledge(i) \/ Lifecycle!AcknowledgeAgain(i)
    BY <1>2, <1>4, <2>1 DEF Lifecycle!Acknowledge, Lifecycle!AcknowledgeAgain
  <2> QED
    BY <2>2 DEF Lifecycle!Next
<1>5. CASE rows[i].status # "NONE" /\ a = "RESOLVED" /\ s = "RESOLVED" /\ d \in Dates
  <2>1. Lifecycle!BecomesResolved(i, d)
    BY <1>1, <1>2, <1>5 DEF Lifecycle!BecomesResolved, Lifecycle!Record
  <2>2. Lifecycle!Resolve(i, d) \/ Lifecycle!ResolveAgain(i, d)
    BY <1>2, <1>5, <2>1 DEF Lifecycle!Resolve, Lifecycle!ResolveAgain
  <2> QED
    BY <1>5, <2>2 DEF Lifecycle!Next
<1>6. CASE rows[i].status # "NONE" /\ a = "MESSAGE" /\ s = rows[i].status
           /\ d = rows[i].resolvedAt
  <2>1. Lifecycle!Comment(i)
    BY <1>1, <1>2, <1>6 DEF Lifecycle!Comment, Lifecycle!Record
  <2> QED
    BY <2>1 DEF Lifecycle!Next
<1> QED
  BY <1>3, <1>4, <1>5, <1>6 DEF Moves, Allowed

(* As long as callers take turns and no database call fails, every         *)
(* behaviour of the service, seen through rows and timelines, is one of    *)
(* the abstract incident: no step shows a change without its record.       *)
THEOREM ServiceImplementsLifecycle == ~MayFail => (SerialSpec => ImplementsLifecycle)
<1> SUFFICES ASSUME ~MayFail
             PROVE  SerialSpec => ImplementsLifecycle
  OBVIOUS
<1>1. IInv /\ TakeTurns /\ IInv' /\ TakeTurns' /\ [SerialNext]_vars
        => [Lifecycle!Next]_(Lifecycle!vars)
  BY SerialSteps, RestsMaps, MovesMap
<1> QED
  BY <1>1, InitMaps, SerialInv, PTL DEF SerialSpec, ImplementsLifecycle, Lifecycle!Spec

-----------------------------------------------------------------------------
(* The timeline explains the row. *)

Explains(tl, st, at) ==
  /\ st # "NONE" => \E n \in 1..Len(tl) : /\ tl[n] # "MESSAGE"
                                          /\ Lifecycle!StatusOf[tl[n]] = st
                                          /\ \A m \in 1..Len(tl) : m > n => tl[m] = "MESSAGE"
  /\ at # NoDate <=> \E n \in 1..Len(tl) : tl[n] = "RESOLVED"

Explained ==
  \A i \in Ids : \A tl, st, at :
    /\ tl = TimelineOf(i)
    /\ st = rows[i].status
    /\ at = rows[i].resolvedAt
    => Explains(tl, st, at)

\* An action that names the new status is the last word on it ...
LEMMA ActionExplains ==
  ASSUME NEW tl \in Seq(LogActions), NEW st, NEW at, Explains(tl, st, at),
         NEW a \in LogActions \ {"MESSAGE"}, NEW d,
         IF a = "RESOLVED" THEN d \in Dates ELSE d = at
  PROVE  Explains(Append(tl, a), Lifecycle!StatusOf[a], d)
<1> DEFINE new == Append(tl, a)
<1>1. /\ Len(tl) \in Nat /\ Len(new) = Len(tl) + 1 /\ new[Len(tl) + 1] = a
      /\ \A n \in 1..Len(tl) : new[n] = tl[n]
  OBVIOUS
<1> HIDE DEF new
<1>2. \E n \in 1..Len(new) : /\ new[n] # "MESSAGE"
                             /\ Lifecycle!StatusOf[new[n]] = Lifecycle!StatusOf[a]
                             /\ \A m \in 1..Len(new) : m > n => new[m] = "MESSAGE"
  <2>1. Len(tl) + 1 \in 1..Len(new)
    BY <1>1
  <2>2. \A m \in 1..Len(new) : ~(m > Len(tl) + 1)
    BY <1>1
  <2> QED
    BY <1>1, <2>1, <2>2
<1>3. d # NoDate <=> \E n \in 1..Len(new) : new[n] = "RESOLVED"
  <2>1. CASE a = "RESOLVED"
    BY <1>1, <2>1, DatesAssumption
  <2>2. CASE a # "RESOLVED"
    <3>1. (\E n \in 1..Len(new) : new[n] = "RESOLVED")
            <=> \E n \in 1..Len(tl) : tl[n] = "RESOLVED"
      BY <1>1, <2>2
    <3> QED
      BY <2>2, <3>1 DEF Explains
  <2> QED
    BY <2>1, <2>2
<1>4. Explains(new, Lifecycle!StatusOf[a], d)
  BY <1>2, <1>3 DEF Explains
<1> QED
  BY <1>4 DEF new

\* ... and a message says nothing about it.
LEMMA MessageExplains ==
  ASSUME NEW tl \in Seq(LogActions), NEW st, NEW at, Explains(tl, st, at)
  PROVE  Explains(Append(tl, "MESSAGE"), st, at)
<1> DEFINE new == Append(tl, "MESSAGE")
<1>1. /\ Len(tl) \in Nat /\ Len(new) = Len(tl) + 1 /\ new[Len(tl) + 1] = "MESSAGE"
      /\ \A n \in 1..Len(tl) : new[n] = tl[n]
  OBVIOUS
<1> HIDE DEF new
<1>2. ASSUME st # "NONE"
      PROVE  \E n \in 1..Len(new) : /\ new[n] # "MESSAGE"
                                    /\ Lifecycle!StatusOf[new[n]] = st
                                    /\ \A m \in 1..Len(new) : m > n => new[m] = "MESSAGE"
  <2>1. PICK n \in 1..Len(tl) : /\ tl[n] # "MESSAGE"
                                /\ Lifecycle!StatusOf[tl[n]] = st
                                /\ \A m \in 1..Len(tl) : m > n => tl[m] = "MESSAGE"
    BY <1>2 DEF Explains
  <2>2. \A m \in 1..Len(new) : m > n => new[m] = "MESSAGE"
    BY <1>1, <2>1
  <2>3. n \in 1..Len(new) /\ new[n] = tl[n]
    BY <1>1
  <2> QED
    BY <2>1, <2>2, <2>3
<1>3. (\E n \in 1..Len(new) : new[n] = "RESOLVED")
        <=> \E n \in 1..Len(tl) : tl[n] = "RESOLVED"
  BY <1>1
<1>4. Explains(new, st, at)
  BY <1>2, <1>3 DEF Explains
<1> QED
  BY <1>4 DEF new

LEMMA StepExplains ==
  ASSUME IInv, TakeTurns, Explained, NEW i \in Ids, NEW a, NEW s, NEW d, Moves(i, a, s, d)
  PROVE  Explained'
<1>1. /\ Allowed(i, a, s, d)
      /\ rows'[i] = [status |-> s, resolvedAt |-> d]
      /\ TimelineOf(i)' = Append(TimelineOf(i), a)
      /\ \A k \in Ids \ {i} : rows'[k] = rows[k] /\ TimelineOf(k)' = TimelineOf(k)
  BY DEF Moves
<1>2. PICK tl \in Seq(LogActions) : tl = TimelineOf(i)
  BY TimelineCases DEF TimelineIs
<1>3. Explains(tl, rows[i].status, rows[i].resolvedAt)
  BY <1>2 DEF Explained
<1>4. Explains(Append(tl, a), s, d)
  <2>1. CASE a = "MESSAGE"
    BY <1>1, <1>3, <2>1, MessageExplains DEF Allowed
  <2>2. CASE a # "MESSAGE"
    <3>1. /\ a \in LogActions \ {"MESSAGE"} /\ s = Lifecycle!StatusOf[a]
          /\ IF a = "RESOLVED" THEN d \in Dates ELSE d = rows[i].resolvedAt
      BY <1>1, <2>2 DEF Allowed, LogActions, Lifecycle!StatusOf
    <3> QED
      BY <1>3, <3>1, ActionExplains
  <2> QED
    BY <2>1, <2>2
<1>5. TimelineOf(i)' = Append(tl, a) /\ rows'[i].status = s /\ rows'[i].resolvedAt = d
  BY <1>1, <1>2
<1> QED
  BY <1>1, <1>4, <1>5 DEF Explained

(* As long as callers take turns and no database call fails, the last      *)
(* action that is not a message names the status of the row, and the row   *)
(* has a resolution date exactly when a resolution is on the timeline.     *)
THEOREM TimelineExplains == ~MayFail => (SerialSpec => []TimelineExplainsRow)
<1> SUFFICES ASSUME ~MayFail
             PROVE  SerialSpec => []TimelineExplainsRow
  OBVIOUS
<1>1. Init => Explained
  <2> SUFFICES ASSUME Init
               PROVE  Explained
    OBVIOUS
  <2>1. \A i \in Ids : rows[i] = NoRow /\ TimelineOf(i) = <<>>
    BY TimelineOfInit DEF Init
  <2> QED
    BY <2>1 DEF Explained, Explains, NoRow
<1>2. IInv /\ TakeTurns /\ Explained /\ IInv' /\ TakeTurns' /\ [SerialNext]_vars
        => Explained'
  <2> SUFFICES ASSUME IInv, TakeTurns, Explained, IInv', TakeTurns', [SerialNext]_vars
               PROVE  Explained'
    OBVIOUS
  <2>1. CASE Rests
    BY <2>1 DEF Rests, Explained
  <2> QED
    BY <2>1, SerialSteps, StepExplains
<1>3. Explained => TimelineExplainsRow
  <2> SUFFICES ASSUME Explained
               PROVE  TimelineExplainsRow
    OBVIOUS
  <2>1. \A i \in Ids : Explains(TimelineOf(i), rows[i].status, rows[i].resolvedAt)
    BY DEF Explained
  <2> QED
    BY <2>1 DEF TimelineExplainsRow, Lifecycle!TimelineExplainsRow, Explains,
       Lifecycle!StatusIsLastAction, Lifecycle!DateIffResolvedOnce
<1> QED
  BY <1>1, <1>2, <1>3, SerialInv, PTL DEF SerialSpec

===============================================================================
