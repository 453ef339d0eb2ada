--------------------------- MODULE WebhookContract ---------------------------
(***************************************************************************)
(* What the webhooks module promises to whoever emits an event: every      *)
(* webhook the event was meant for is sent it at least once or reported as *)
(* FAILED, and none is left pending for ever.  A receiver may get copies,  *)
(* and may have got one although the delivery is reported as FAILED.  A    *)
(* crash loses the pending deliveries and every report.                    *)
(* WebhookDelivery.tla is shown to keep this promise.                      *)
(***************************************************************************)
EXTENDS Naturals

CONSTANTS Calls, Hooks

VARIABLES
  outcome,  \* outcome[c][h]: where the event of call c is on its way to h
  copies    \* copies[c][h]: how many copies of it h has got

vars == <<outcome, copies>>

Outcomes == {"none", "pending", "SUCCESS", "FAILED", "lost"}

Init ==
  /\ outcome = [c \in Calls |-> [h \in Hooks |-> "none"]]
  /\ copies  = [c \in Calls |-> [h \in Hooks |-> 0]]

\* The event is meant for the webhooks in S.
Start(c, S) ==
  /\ \A h \in Hooks : outcome[c][h] = "none"
  /\ outcome' = [outcome EXCEPT ![c] =
                   [h \in Hooks |-> IF h \in S THEN "pending" ELSE "none"]]
  /\ UNCHANGED copies

Copy(c, h) ==
  /\ outcome[c][h] = "pending"
  /\ copies' = [copies EXCEPT ![c][h] = @ + 1]
  /\ UNCHANGED outcome

Succeed(c, h) ==
  /\ outcome[c][h] = "pending"
  /\ outcome' = [outcome EXCEPT ![c][h] = "SUCCESS"]
  /\ copies'  = [copies EXCEPT ![c][h] = @ + 1]

GiveUp(c, h) ==
  /\ outcome[c][h] = "pending"
  /\ outcome' = [outcome EXCEPT ![c][h] = "FAILED"]
  /\ \/ UNCHANGED copies
     \/ copies' = [copies EXCEPT ![c][h] = @ + 1]

Crash ==
  /\ outcome' = [c \in Calls |-> [h \in Hooks |->
                   IF outcome[c][h] = "none" THEN "none" ELSE "lost"]]
  /\ UNCHANGED copies

Next ==
  \/ \E c \in Calls, S \in SUBSET Hooks : Start(c, S)
  \/ \E c \in Calls, h \in Hooks : Copy(c, h) \/ Succeed(c, h) \/ GiveUp(c, h)
  \/ Crash

Ended(c, h) == outcome[c][h] # "pending"

\* The promise without its liveness.
Safety == Init /\ [][Next]_vars

Spec == Safety /\ \A c \in Calls, h \in Hooks : []<>Ended(c, h)

=============================================================================
