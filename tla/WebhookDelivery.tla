--------------------------- MODULE WebhookDelivery ---------------------------
(***************************************************************************)
(* WebhooksService and WebhooksRepository (gong-core/src/webhooks): the    *)
(* webhook configurations, the deliveries of emitted events with their     *)
(* retries, and the delivery records.  All of it is kept in memory.        *)
(*                                                                         *)
(* A call of emit() or testWebhook() works on clones of the webhooks it    *)
(* matched and delivers to all of them at once; each delivery POSTs, waits *)
(* and POSTs again on its own.  The receivers and the network are outside: *)
(* an answer may be lost after the receiver has taken the event.           *)
(***************************************************************************)
EXTENDS Naturals, Sequences

CONSTANTS
  Calls,          \* calls of emit() or testWebhook(); each is used once
  Hooks,          \* webhook ids
  Urls,           \* addresses of receivers
  Kinds,          \* event types that are emitted
  Subscriptions,  \* the values of eventTypes
  Retries         \* the values of maxRetries

ASSUME RetriesAssumption == Retries \subseteq Nat
ASSUME SubscriptionsAssumption == Subscriptions \subseteq SUBSET Kinds

VARIABLES
  hooks,       \* Map webhooks: hooks[h] is a webhook or NoHook
  deliveries,  \* Map deliveries, in the order of their ids
  call,        \* call[c]: the state of call c
  stage,       \* stage[c][h]: what the delivery of c to h does next
  copy,        \* copy[c][h]: the clone of the webhook it works on
  attempt,     \* attempt[c][h]: attemptCount
  received,    \* history: how often the receiver took c's event from h
  unheard,     \* history: how often it took it and its answer was lost
  matched      \* history: the webhooks call c delivers to

sends == <<stage, copy, attempt>>
hist  == <<received, unheard, matched>>
vars  == <<hooks, deliveries, call, stage, copy, attempt, received, unheard,
           matched>>

-----------------------------------------------------------------------------
(* The values. *)

NoHook == [exists |-> FALSE]

Hook == [exists : {TRUE}, url : Urls, kinds : Subscriptions, active : BOOLEAN,
         retries : Retries]

\* "wait" is the backoff between two attempts.
Stages == {"none", "post", "wait", "recorded"}

Statuses == {"SUCCESS", "FAILED"}

Record == [call : Calls, hook : Hooks, status : Statuses, attempts : Nat]

Exists(h) == hooks[h].exists

\* Variant: maxRetries is taken for the number of attempts.
RetriesAsAttempts(hook) == IF hook.retries > 1 THEN hook.retries ELSE 1

MaxAttempts(hook) == IF hook.retries + 1 > 1 THEN hook.retries + 1 ELSE 1

-----------------------------------------------------------------------------
Init ==
  /\ hooks      = [h \in Hooks |-> NoHook]
  /\ deliveries = <<>>
  /\ call       = [c \in Calls |-> "idle"]
  /\ stage      = [c \in Calls |-> [h \in Hooks |-> "none"]]
  /\ copy       = [c \in Calls |-> [h \in Hooks |-> NoHook]]
  /\ attempt    = [c \in Calls |-> [h \in Hooks |-> 0]]
  /\ received   = [c \in Calls |-> [h \in Hooks |-> 0]]
  /\ unheard    = [c \in Calls |-> [h \in Hooks |-> 0]]
  /\ matched    = [c \in Calls |-> {}]

-----------------------------------------------------------------------------
(* Configuration requests; each is one synchronous call. *)

CreateWebhook(h) ==
  /\ ~Exists(h)
  /\ \E hook \in Hook : hooks' = [hooks EXCEPT ![h] = hook]
  /\ UNCHANGED <<deliveries, call, sends, hist>>

\* Variant: the fields the dto leaves out are overwritten too.
UpdateWebhookOverwrites(h) ==
  /\ Exists(h)
  /\ hooks' = [hooks EXCEPT ![h] = [exists |-> TRUE, active |-> TRUE]]
  /\ UNCHANGED <<deliveries, call, sends, hist>>

\* Every field of the dto is optional; a field left out keeps its value.
UpdateWebhook(h) ==
  /\ Exists(h)
  /\ \E hook \in Hook \ {hooks[h]} : hooks' = [hooks EXCEPT ![h] = hook]
  /\ UNCHANGED <<deliveries, call, sends, hist>>

DeactivateWebhook(h) ==
  /\ Exists(h)
  /\ hooks' = [hooks EXCEPT ![h].active = FALSE]
  /\ UNCHANGED <<deliveries, call, sends, hist>>

\* What an admin may ask for (WebhooksController).
Configure(h) == CreateWebhook(h) \/ UpdateWebhook(h) \/ DeactivateWebhook(h)

-----------------------------------------------------------------------------
(* Deliveries. *)

\* deliverToWebhook for each webhook in S: the first POSTs leave at once.
Deliver(c, S) ==
  /\ call[c] = "idle"
  /\ call'    = [call EXCEPT ![c] = "running"]
  /\ stage'   = [stage EXCEPT ![c] = [h \in Hooks |->
                   IF h \in S THEN "post" ELSE "none"]]
  /\ copy'    = [copy EXCEPT ![c] = [h \in Hooks |->
                   IF h \in S THEN hooks[h] ELSE NoHook]]
  /\ attempt' = [attempt EXCEPT ![c] = [h \in Hooks |->
                   IF h \in S THEN 1 ELSE 0]]
  /\ matched' = [matched EXCEPT ![c] = S]
  /\ UNCHANGED <<hooks, deliveries, received, unheard>>

Matching(k) == {h \in Hooks : Exists(h) /\ hooks[h].active /\ k \in hooks[h].kinds}

Emit(c) == \E k \in Kinds : Deliver(c, Matching(k))

\* testWebhook: the webhook need not be active or subscribed.
TestWebhook(c, h) == Exists(h) /\ Deliver(c, {h})

\* createDelivery: one record when the loop is left.
CreateDelivery(c, h, status) ==
  /\ stage' = [stage EXCEPT ![c][h] = "recorded"]
  /\ deliveries' = Append(deliveries,
       [call |-> c, hook |-> h, status |-> status, attempts |-> attempt[c][h]])
  /\ UNCHANGED <<hooks, call, copy, attempt, matched>>

\* Variant: status starts as SUCCESS.
AttemptFailedUnnoticed(c, h) ==
  IF attempt[c][h] < MaxAttempts(copy[c][h])
    THEN /\ stage' = [stage EXCEPT ![c][h] = "wait"]
         /\ UNCHANGED <<hooks, deliveries, call, copy, attempt, matched>>
    ELSE CreateDelivery(c, h, "SUCCESS")

\* After an attempt without a 2xx answer: wait for the next one, or give up.
AttemptFailed(c, h) ==
  IF attempt[c][h] < MaxAttempts(copy[c][h])
    THEN /\ stage' = [stage EXCEPT ![c][h] = "wait"]
         /\ UNCHANGED <<hooks, deliveries, call, copy, attempt, matched>>
    ELSE CreateDelivery(c, h, "FAILED")

\* Variant: the loop is not left after a 2xx answer.
AcceptedGoesOn(c, h) ==
  /\ stage[c][h] = "post"
  /\ received' = [received EXCEPT ![c][h] = @ + 1]
  /\ AttemptFailed(c, h)
  /\ UNCHANGED unheard

\* The receiver takes the event and its 2xx answer arrives in time.
Accepted(c, h) ==
  /\ stage[c][h] = "post"
  /\ received' = [received EXCEPT ![c][h] = @ + 1]
  /\ CreateDelivery(c, h, "SUCCESS")
  /\ UNCHANGED unheard

\* Any other answer, or the POST never arrives.
Refused(c, h) ==
  /\ stage[c][h] = "post"
  /\ AttemptFailed(c, h)
  /\ UNCHANGED <<received, unheard>>

\* The receiver takes the event, but its answer is lost or comes too late
\* (timeout: 3000).
Unheard(c, h) ==
  /\ stage[c][h] = "post"
  /\ received' = [received EXCEPT ![c][h] = @ + 1]
  /\ unheard'  = [unheard EXCEPT ![c][h] = @ + 1]
  /\ AttemptFailed(c, h)

\* Variant: the retry reads the configuration anew.
RetryReloads(c, h) ==
  /\ stage[c][h] = "wait"
  /\ stage'   = [stage EXCEPT ![c][h] = "post"]
  /\ attempt' = [attempt EXCEPT ![c][h] = @ + 1]
  /\ copy'    = [copy EXCEPT ![c][h] = hooks[h]]
  /\ UNCHANGED <<hooks, deliveries, call, hist>>

\* Variant: the attempt is not counted.
RetryUncounted(c, h) ==
  /\ stage[c][h] = "wait"
  /\ stage' = [stage EXCEPT ![c][h] = "post"]
  /\ UNCHANGED <<hooks, deliveries, call, copy, attempt, hist>>

\* The backoff of 25 ms times the attempt is over.
Retry(c, h) ==
  /\ stage[c][h] = "wait"
  /\ stage'   = [stage EXCEPT ![c][h] = "post"]
  /\ attempt' = [attempt EXCEPT ![c][h] = @ + 1]
  /\ UNCHANGED <<hooks, deliveries, call, copy, hist>>

\* Variant: the caller is answered when the first delivery has ended.
AnswerFirst(c) ==
  /\ call[c] = "running"
  /\ \E h \in matched[c] : stage[c][h] = "recorded"
  /\ call' = [call EXCEPT ![c] = "answered"]
  /\ UNCHANGED <<hooks, deliveries, sends, hist>>

\* Promise.all: the caller gets its EmitResult when every delivery has ended.
Answer(c) ==
  /\ call[c] = "running"
  /\ \A h \in matched[c] : stage[c][h] = "recorded"
  /\ call' = [call EXCEPT ![c] = "answered"]
  /\ UNCHANGED <<hooks, deliveries, sends, hist>>

\* The process stops: configurations, deliveries and records are gone.
Crash ==
  /\ hooks'      = [h \in Hooks |-> NoHook]
  /\ deliveries' = <<>>
  /\ call'  = [c \in Calls |-> IF call[c] = "idle" THEN "idle" ELSE "lost"]
  /\ stage' = [c \in Calls |-> [h \in Hooks |-> "none"]]
  /\ UNCHANGED <<copy, attempt, hist>>

Post(c, h) == Accepted(c, h) \/ Refused(c, h) \/ Unheard(c, h)

Next ==
  \/ \E h \in Hooks : Configure(h)
  \/ \E c \in Calls : Emit(c) \/ Answer(c)
  \/ \E c \in Calls, h \in Hooks : TestWebhook(c, h) \/ Post(c, h) \/ Retry(c, h)
  \/ Crash

\* A POST ends within its timeout, a timer fires, a settled promise resolves.
Fairness ==
  /\ \A c \in Calls : WF_vars(Answer(c))
  /\ \A c \in Calls, h \in Hooks : WF_vars(Post(c, h)) /\ WF_vars(Retry(c, h))

\* What may happen, whatever has to.
Safety == Init /\ [][Next]_vars

Spec == Safety /\ Fairness

-----------------------------------------------------------------------------
(* Properties. *)

\* Every variable holds a value of its kind.
TypeOK ==
  /\ hooks \in [Hooks -> Hook \cup {NoHook}]
  /\ deliveries \in Seq(Record)
  /\ call \in [Calls -> {"idle", "running", "answered", "lost"}]
  /\ stage \in [Calls -> [Hooks -> Stages]]
  /\ copy \in [Calls -> [Hooks -> Hook \cup {NoHook}]]
  /\ attempt \in [Calls -> [Hooks -> Nat]]
  /\ received \in [Calls -> [Hooks -> Nat]]
  /\ unheard \in [Calls -> [Hooks -> Nat]]
  /\ matched \in [Calls -> SUBSET Hooks]

RecordsOf(c, h) ==
  {n \in 1..Len(deliveries) : deliveries[n].call = c /\ deliveries[n].hook = h}

(* An answered caller can look up every delivery of its call: one record   *)
(* for each webhook that matched when it called, and no other.             *)
AnswerAccountsForAll ==
  \A c \in Calls : call[c] = "answered" =>
    \A h \in Hooks : IF h \in matched[c]
                       THEN \E n \in RecordsOf(c, h) : RecordsOf(c, h) = {n}
                       ELSE RecordsOf(c, h) = {}

(* A record tells the truth about the receiver: SUCCESS means it took the  *)
(* event, and FAILED means every attempt the webhook allowed at the time   *)
(* of the call was made and none was answered.                             *)
RecordsAreTrue ==
  \A n \in 1..Len(deliveries) :
    LET c == deliveries[n].call
        h == deliveries[n].hook IN
    /\ deliveries[n].attempts = attempt[c][h]
    /\ IF deliveries[n].status = "SUCCESS"
         THEN received[c][h] = unheard[c][h] + 1
         ELSE /\ received[c][h] = unheard[c][h]
              /\ attempt[c][h] = copy[c][h].retries + 1

(* A receiver gets an event again only when its last answer went unheard,  *)
(* and never more often than the retries allow, plus the first attempt.    *)
DuplicatesOnlyWhenUnheard ==
  \A c \in Calls, h \in Hooks :
    /\ received[c][h] <= unheard[c][h] + 1
    /\ received[c][h] <= attempt[c][h]
    /\ h \in matched[c] => attempt[c][h] <= copy[c][h].retries + 1

(* A delivery keeps to one address and one number of retries from its      *)
(* first attempt to its last, whatever is configured in the meantime.      *)
DeliveryIsInsulated ==
  [][\A c \in Calls, h \in Hooks : h \in matched[c] => copy'[c][h] = copy[c][h]]_vars

\* Where the event of call c is on its way to webhook h.
Outcome(c, h) ==
  CASE call[c] = "lost" -> IF h \in matched[c] THEN "lost" ELSE "none"
    [] stage[c][h] \in {"post", "wait"} -> "pending"
    [] stage[c][h] = "recorded" ->
         IF \E n \in RecordsOf(c, h) : deliveries[n].status = "SUCCESS"
           THEN "SUCCESS" ELSE "FAILED"
    [] OTHER -> "none"

Contract == INSTANCE WebhookContract WITH
  outcome <- [c \in Calls |-> [h \in Hooks |-> Outcome(c, h)]],
  copies <- received

(* The service keeps the contract: at least one copy or a report of the    *)
(* failure, and no delivery is left pending for ever.                      *)
KeepsContract == Contract!Spec

(* A caller of emit() or testWebhook() is answered, unless the process     *)
(* crashes.                                                                *)
CallIsAnswered ==
  \A c \in Calls : call[c] = "running" ~> call[c] \in {"answered", "lost"}

=============================================================================
