-------------------------- MODULE IncidentLifecycle --------------------------
(***************************************************************************)
(* What an incident promises to the people who work on it: each operation  *)
(* changes the incident and records itself in the timeline in one step, so *)
(* the timeline can be read as the history of the status.  Incidents.tla   *)
(* is shown to keep this promise when callers take turns.                  *)
(*                                                                         *)
(* Open, Acknowledge and Resolve are the transitions that ARCHITECTUR.md   *)
(* draws ("Incident State Machine"), which ends at RESOLVED.  The service  *)
(* has no transition guard and goes beyond the drawing: AcknowledgeAgain   *)
(* and ResolveAgain leave or repeat a status that the drawing does not.    *)
(* They are part of the promise, for the code makes it: that the service   *)
(* implements it does not say that RESOLVED is final, which is not true.   *)
(***************************************************************************)
EXTENDS Naturals, Sequences

CONSTANTS Ids, Dates, NoDate

VARIABLES
  status,      \* status[i], "NONE" before the incident exists
  resolvedAt,  \* resolvedAt[i], a date or NoDate
  timeline     \* timeline[i], the recorded actions, oldest first

vars == <<status, resolvedAt, timeline>>

StatusOf == [CREATED |-> "OPEN", ACKNOWLEDGED |-> "ACKNOWLEDGED",
             RESOLVED |-> "RESOLVED"]

Init ==
  /\ status     = [i \in Ids |-> "NONE"]
  /\ resolvedAt = [i \in Ids |-> NoDate]
  /\ timeline   = [i \in Ids |-> <<>>]

Record(i, a) == timeline' = [timeline EXCEPT ![i] = Append(@, a)]

Open(i) ==
  /\ status[i] = "NONE"
  /\ status' = [status EXCEPT ![i] = "OPEN"]
  /\ Record(i, "CREATED")
  /\ UNCHANGED resolvedAt

BecomesAcknowledged(i) ==
  /\ status' = [status EXCEPT ![i] = "ACKNOWLEDGED"]
  /\ Record(i, "ACKNOWLEDGED")
  /\ UNCHANGED resolvedAt

BecomesResolved(i, t) ==
  /\ status' = [status EXCEPT ![i] = "RESOLVED"]
  /\ resolvedAt' = [resolvedAt EXCEPT ![i] = t]
  /\ Record(i, "RESOLVED")

Acknowledge(i) ==
  /\ status[i] = "OPEN"
  /\ BecomesAcknowledged(i)

\* Not drawn: acknowledged twice, or after the resolution, whose date stays.
AcknowledgeAgain(i) ==
  /\ status[i] \notin {"NONE", "OPEN"}
  /\ BecomesAcknowledged(i)

Resolve(i, t) ==
  /\ status[i] \in {"OPEN", "ACKNOWLEDGED"}
  /\ BecomesResolved(i, t)

\* Not drawn: resolved twice, with a new date.
ResolveAgain(i, t) ==
  /\ status[i] \notin {"NONE", "OPEN", "ACKNOWLEDGED"}
  /\ BecomesResolved(i, t)

Comment(i) ==
  /\ status[i] # "NONE"
  /\ Record(i, "MESSAGE")
  /\ UNCHANGED <<status, resolvedAt>>

Next == \E i \in Ids : \/ Open(i)
                       \/ Acknowledge(i) \/ AcknowledgeAgain(i)
                       \/ \E t \in Dates : Resolve(i, t) \/ ResolveAgain(i, t)
                       \/ Comment(i)

Spec == Init /\ [][Next]_vars

-----------------------------------------------------------------------------
(* The last entry of the timeline that is not a message names the status   *)
(* (ARCHITECTUR.md, "Incident State Machine": one transition per action).  *)
StatusIsLastAction ==
  \A i \in Ids : status[i] # "NONE" =>
    \E n \in 1..Len(timeline[i]) :
       /\ timeline[i][n] # "MESSAGE"
       /\ StatusOf[timeline[i][n]] = status[i]
       /\ \A m \in 1..Len(timeline[i]) : m > n => timeline[i][m] = "MESSAGE"

(* An incident carries a resolution date exactly when its timeline records *)
(* a resolution (ARCHITECTUR.md: "Incident is closed and resolvedAt is     *)
(* set"; an acknowledgement never clears the date).                        *)
DateIffResolvedOnce ==
  \A i \in Ids : resolvedAt[i] # NoDate <=>
    \E n \in 1..Len(timeline[i]) : timeline[i][n] = "RESOLVED"

TimelineExplainsRow == StatusIsLastAction /\ DateIffResolvedOnce

=============================================================================
