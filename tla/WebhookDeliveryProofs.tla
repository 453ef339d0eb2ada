------------------------ MODULE WebhookDeliveryProofs ------------------------
(***************************************************************************)
(* Theorems about WebhookDelivery, for all sets of calls, webhooks,        *)
(* addresses, event types and numbers of retries, with crashes.            *)
(***************************************************************************)
EXTENDS WebhookDelivery, TLAPS

-----------------------------------------------------------------------------
(* The inductive invariant. *)

\* Nothing is known of a call before it is made.
UnusedIsBlank ==
  \A c \in Calls : call[c] = "idle" => matched[c] = {}

\* A delivery is at a stage exactly when its webhook was matched and the call
\* was not lost; the caller is answered when all have been recorded.
StageFitsCall ==
  \A c \in Calls, h \in Hooks :
    /\ stage[c][h] # "none" <=> h \in matched[c] /\ call[c] # "lost"
    /\ call[c] = "answered" /\ h \in matched[c] => stage[c][h] = "recorded"

\* What the attempts of a delivery come to: until it is recorded, every copy
\* the receiver took went unheard, and attempts are left while it waits.
AttemptsAddUp ==
  \A c \in Calls, h \in Hooks :
    /\ h \notin matched[c] =>
         attempt[c][h] = 0 /\ received[c][h] = 0 /\ unheard[c][h] = 0
    /\ h \in matched[c] =>
         copy[c][h] \in Hook /\ attempt[c][h] \in 1..(copy[c][h].retries + 1)
    /\ received[c][h] \in {unheard[c][h], unheard[c][h] + 1}
    /\ received[c][h] <= attempt[c][h]
    /\ stage[c][h] \in {"post", "wait"} => received[c][h] = unheard[c][h]
    /\ stage[c][h] = "post" => received[c][h] < attempt[c][h]
    /\ stage[c][h] = "wait" => attempt[c][h] < copy[c][h].retries + 1

\* A delivery has its record once it is recorded, and one only.
RecordedOnce ==
  /\ \A n \in 1..Len(deliveries) :
       stage[deliveries[n].call][deliveries[n].hook] = "recorded"
  /\ \A m, n \in 1..Len(deliveries) :
       deliveries[m].call = deliveries[n].call /\ deliveries[m].hook = deliveries[n].hook
         => m = n
  /\ \A c \in Calls, h \in Hooks :
       stage[c][h] = "recorded" => RecordsOf(c, h) # {}

IInv ==
  /\ TypeOK
  /\ UnusedIsBlank
  /\ StageFitsCall
  /\ AttemptsAddUp
  /\ RecordedOnce
  /\ RecordsAreTrue

-----------------------------------------------------------------------------
(* What the operators return. *)

\* A webhook is delivered to at least once, and retried as often as it says.
LEMMA MaxAttemptsCount ==
  ASSUME NEW hook \in Hook
  PROVE  /\ hook.retries \in Nat
         /\ MaxAttempts(hook) = hook.retries + 1
<1>1. hook.retries \in Nat
  BY RetriesAssumption DEF Hook
<1> QED BY <1>1 DEF MaxAttempts

\* A webhook that exists is one.
LEMMA ExistsIsHook ==
  ASSUME TypeOK, NEW h \in Hooks, Exists(h)
  PROVE  hooks[h] \in Hook
BY DEF TypeOK, Exists, NoHook

\* Each record is of a call and a webhook.
LEMMA RecordTyped ==
  ASSUME TypeOK, NEW n \in 1..Len(deliveries)
  PROVE  deliveries[n].call \in Calls /\ deliveries[n].hook \in Hooks
<1>1. deliveries[n] \in Record
  BY DEF TypeOK
<1> QED BY <1>1 DEF Record

LEMMA InitInv == Init => IInv
BY DEF Init, IInv, TypeOK, UnusedIsBlank, StageFitsCall, AttemptsAddUp,
       RecordedOnce, RecordsAreTrue, Stages, RecordsOf

-----------------------------------------------------------------------------
(* One lemma for each action. *)

\* No delivery looks at a configuration again.
LEMMA ConfigureInv ==
  ASSUME IInv, NEW h \in Hooks, Configure(h)
  PROVE  IInv'
<1> USE DEF IInv
<1>1. /\ deliveries' = deliveries /\ call' = call /\ stage' = stage /\ copy' = copy
      /\ attempt' = attempt /\ received' = received /\ unheard' = unheard
      /\ matched' = matched
  BY DEF Configure, CreateWebhook, UpdateWebhook, DeactivateWebhook, sends, hist
<1>2. hooks' \in [Hooks -> Hook \cup {NoHook}]
  <2>1. CASE CreateWebhook(h)
    BY <2>1 DEF CreateWebhook, TypeOK
  <2>2. CASE UpdateWebhook(h)
    BY <2>2 DEF UpdateWebhook, TypeOK
  <2>3. CASE DeactivateWebhook(h)
    <3>1. hooks[h] \in Hook
      BY <2>3, ExistsIsHook DEF DeactivateWebhook
    <3>2. [hooks[h] EXCEPT !.active = FALSE] \in Hook
      BY <3>1 DEF Hook
    <3>3. hooks' = [hooks EXCEPT ![h] = [hooks[h] EXCEPT !.active = FALSE]]
      BY <2>3 DEF DeactivateWebhook
    <3> QED BY <3>2, <3>3 DEF TypeOK
  <2> QED BY <2>1, <2>2, <2>3 DEF Configure
<1>3. TypeOK'
  BY <1>1, <1>2 DEF TypeOK
<1> QED
  BY <1>1, <1>3 DEF UnusedIsBlank, StageFitsCall, AttemptsAddUp, RecordedOnce,
                    RecordsAreTrue, RecordsOf

\* A call starts with one attempt for each webhook, and nothing of it so far.
LEMMA DeliverInv ==
  ASSUME IInv, NEW c \in Calls, NEW S \in SUBSET Hooks, \A h \in S : Exists(h),
         Deliver(c, S)
  PROVE  IInv'
<1> USE DEF IInv
<1>1. /\ hooks' = hooks /\ deliveries' = deliveries
      /\ received' = received /\ unheard' = unheard
  BY DEF Deliver
<1>2. /\ call[c] = "idle" /\ call' = [call EXCEPT ![c] = "running"]
      /\ stage' = [stage EXCEPT ![c] =
                     [h \in Hooks |-> IF h \in S THEN "post" ELSE "none"]]
      /\ copy' = [copy EXCEPT ![c] =
                    [h \in Hooks |-> IF h \in S THEN hooks[h] ELSE NoHook]]
      /\ attempt' = [attempt EXCEPT ![c] = [h \in Hooks |-> IF h \in S THEN 1 ELSE 0]]
      /\ matched' = [matched EXCEPT ![c] = S]
  BY DEF Deliver
<1>3. \A h \in S : hooks[h] \in Hook
  BY ExistsIsHook
<1>4. \A h \in Hooks : stage[c][h] = "none" /\ received[c][h] = 0 /\ unheard[c][h] = 0
  BY <1>2 DEF UnusedIsBlank, StageFitsCall, AttemptsAddUp
<1>5. TypeOK'
  <2>1. copy' \in [Calls -> [Hooks -> Hook \cup {NoHook}]]
    BY <1>2, <1>3 DEF TypeOK
  <2> QED BY <1>1, <1>2, <2>1 DEF TypeOK, Stages
<1>6. UnusedIsBlank'
  BY <1>2 DEF TypeOK, UnusedIsBlank
<1>7. StageFitsCall'
  BY <1>2 DEF TypeOK, StageFitsCall
<1>8. AttemptsAddUp'
  <2> SUFFICES ASSUME NEW b \in Calls, NEW h \in Hooks
               PROVE  AttemptsAddUp!(b, h)'
    BY DEF AttemptsAddUp
  <2>1. CASE b = c
    <3>1. h \in S => copy'[c][h] \in Hook /\ copy'[c][h].retries \in Nat
      BY <1>2, <1>3, MaxAttemptsCount DEF TypeOK
    <3>2. /\ stage'[c][h] = IF h \in S THEN "post" ELSE "none"
          /\ attempt'[c][h] = IF h \in S THEN 1 ELSE 0
          /\ matched'[c] = S
      BY <1>2 DEF TypeOK
    <3> QED BY <1>1, <1>4, <2>1, <3>1, <3>2
  <2>2. CASE b # c
    BY <1>1, <1>2, <2>2 DEF TypeOK, AttemptsAddUp
  <2> QED BY <2>1, <2>2
<1>9. \A n \in 1..Len(deliveries) : deliveries[n].call # c
  BY <1>4, RecordTyped DEF RecordedOnce
<1>10. RecordedOnce'
  <2>1. \A n \in 1..Len(deliveries) :
          stage'[deliveries[n].call][deliveries[n].hook] = "recorded"
    BY <1>2, <1>9, RecordTyped DEF TypeOK, RecordedOnce
  <2>2. \A b \in Calls, h \in Hooks : stage'[b][h] = "recorded" => stage[b][h] = "recorded"
    BY <1>2 DEF TypeOK
  <2> QED BY <1>1, <2>1, <2>2 DEF RecordedOnce, RecordsOf
<1>11. RecordsAreTrue'
  BY <1>1, <1>2, <1>9, RecordTyped DEF TypeOK, RecordsAreTrue
<1> QED BY <1>5, <1>6, <1>7, <1>8, <1>10, <1>11

\* Writing its record ends a delivery: the record is the only one, and the
\* others stay as they are.
LEMMA CreateDeliveryRecords ==
  ASSUME TypeOK, RecordedOnce, NEW c \in Calls, NEW h \in Hooks,
         stage[c][h] = "post", NEW status \in Statuses, CreateDelivery(c, h, status)
  PROVE  /\ deliveries' \in Seq(Record)
         /\ Len(deliveries') = Len(deliveries) + 1
         /\ \A n \in 1..Len(deliveries) :
              /\ deliveries'[n] = deliveries[n]
              /\ deliveries[n].call # c \/ deliveries[n].hook # h
         /\ deliveries'[Len(deliveries) + 1] =
              [call |-> c, hook |-> h, status |-> status, attempts |-> attempt[c][h]]
         /\ stage' = [stage EXCEPT ![c][h] = "recorded"]
         /\ RecordedOnce'
<1> DEFINE r == [call |-> c, hook |-> h, status |-> status, attempts |-> attempt[c][h]]
           N == Len(deliveries)
<1>1. r \in Record /\ N \in Nat /\ deliveries \in Seq(Record)
  BY DEF TypeOK, Record
<1>2. deliveries' = Append(deliveries, r) /\ stage' = [stage EXCEPT ![c][h] = "recorded"]
  BY DEF CreateDelivery
<1>3. /\ deliveries' \in Seq(Record) /\ Len(deliveries') = N + 1
      /\ \A n \in 1..N : deliveries'[n] = deliveries[n]
      /\ deliveries'[N + 1] = r
  BY <1>1, <1>2
<1>4. \A n \in 1..N : deliveries[n].call # c \/ deliveries[n].hook # h
  BY DEF RecordedOnce
<1>5. \A n \in 1..(N + 1) : n \in 1..N \/ n = N + 1
  BY <1>1
<1>6. \A n \in 1..(N + 1) :
        stage'[deliveries'[n].call][deliveries'[n].hook] = "recorded"
  BY <1>2, <1>3, <1>5, RecordTyped DEF TypeOK, RecordedOnce
<1>7. \A m, n \in 1..(N + 1) :
        deliveries'[m].call = deliveries'[n].call /\ deliveries'[m].hook = deliveries'[n].hook
          => m = n
  BY <1>3, <1>4, <1>5 DEF RecordedOnce
<1>8. \A b \in Calls, g \in Hooks : stage'[b][g] = "recorded" => RecordsOf(b, g)' # {}
  <2> SUFFICES ASSUME NEW b \in Calls, NEW g \in Hooks, stage'[b][g] = "recorded"
               PROVE  \E n \in 1..(N + 1) : deliveries'[n].call = b /\ deliveries'[n].hook = g
    BY <1>3 DEF RecordsOf
  <2>1. CASE b = c /\ g = h
    BY <1>1, <1>3, <2>1
  <2>2. CASE ~(b = c /\ g = h)
    <3>1. stage[b][g] = "recorded"
      BY <1>2, <2>2 DEF TypeOK
    <3>2. PICK n \in 1..N : deliveries[n].call = b /\ deliveries[n].hook = g
      BY <3>1 DEF RecordedOnce, RecordsOf
    <3> QED BY <1>1, <1>3, <3>2
  <2> QED BY <2>1, <2>2
<1> QED BY <1>2, <1>3, <1>4, <1>6, <1>7, <1>8 DEF RecordedOnce

\* After an attempt that brought no answer, whatever the receiver did with it.
LEMMA AttemptFailedInv ==
  ASSUME IInv, NEW c \in Calls, NEW h \in Hooks, stage[c][h] = "post",
         AttemptFailed(c, h),
         \/ UNCHANGED <<received, unheard>>
         \/ /\ received' = [received EXCEPT ![c][h] = @ + 1]
            /\ unheard' = [unheard EXCEPT ![c][h] = @ + 1]
  PROVE  IInv'
<1> USE DEF IInv
<1>1. h \in matched[c] /\ copy[c][h] \in Hook
  BY DEF StageFitsCall, AttemptsAddUp
<1>2. copy[c][h].retries \in Nat /\ MaxAttempts(copy[c][h]) = copy[c][h].retries + 1
  BY <1>1, MaxAttemptsCount
<1>3. /\ hooks' = hooks /\ call' = call /\ copy' = copy /\ attempt' = attempt
      /\ matched' = matched
  BY DEF AttemptFailed, CreateDelivery
<1>4. /\ received' \in [Calls -> [Hooks -> Nat]]
      /\ unheard' \in [Calls -> [Hooks -> Nat]]
      /\ received'[c][h] = unheard'[c][h]
      /\ received'[c][h] <= attempt[c][h]
      /\ \A b \in Calls, g \in Hooks : b # c \/ g # h =>
           received'[b][g] = received[b][g] /\ unheard'[b][g] = unheard[b][g]
  <2>1. /\ received[c][h] = unheard[c][h] /\ received[c][h] < attempt[c][h]
        /\ received[c][h] \in Nat /\ unheard[c][h] \in Nat /\ attempt[c][h] \in Nat
    BY DEF TypeOK, AttemptsAddUp
  <2>2. CASE UNCHANGED <<received, unheard>>
    BY <2>1, <2>2 DEF TypeOK
  <2>3. CASE /\ received' = [received EXCEPT ![c][h] = @ + 1]
             /\ unheard' = [unheard EXCEPT ![c][h] = @ + 1]
    BY <2>1, <2>3 DEF TypeOK
  <2> QED BY <2>2, <2>3
<1>5. UnusedIsBlank'
  BY <1>3 DEF UnusedIsBlank
<1>6. CASE attempt[c][h] < MaxAttempts(copy[c][h])
  <2>1. stage' = [stage EXCEPT ![c][h] = "wait"] /\ deliveries' = deliveries
    BY <1>6 DEF AttemptFailed
  <2>2. TypeOK'
    BY <1>3, <1>4, <2>1 DEF TypeOK, Stages
  <2>3. StageFitsCall'
    BY <1>3, <2>1 DEF TypeOK, StageFitsCall
  <2>4. AttemptsAddUp'
    <3> SUFFICES ASSUME NEW b \in Calls, NEW g \in Hooks
                 PROVE  AttemptsAddUp!(b, g)'
      BY DEF AttemptsAddUp
    <3>1. CASE b = c /\ g = h
      BY <1>1, <1>2, <1>3, <1>4, <1>6, <2>1, <3>1 DEF TypeOK, AttemptsAddUp
    <3>2. CASE ~(b = c /\ g = h)
      <4>1. stage'[b][g] = stage[b][g]
        BY <2>1, <3>2 DEF TypeOK
      <4> QED BY <1>3, <1>4, <3>2, <4>1 DEF AttemptsAddUp
    <3> QED BY <3>1, <3>2
  <2>5. \A n \in 1..Len(deliveries) : deliveries[n].call # c \/ deliveries[n].hook # h
    BY DEF RecordedOnce
  <2>6. RecordedOnce'
    <3>1. \A n \in 1..Len(deliveries) :
            stage'[deliveries[n].call][deliveries[n].hook] = "recorded"
      BY <2>1, <2>5, RecordTyped DEF TypeOK, RecordedOnce
    <3>2. \A b \in Calls, g \in Hooks :
            stage'[b][g] = "recorded" => stage[b][g] = "recorded"
      BY <2>1 DEF TypeOK
    <3> QED BY <2>1, <3>1, <3>2 DEF RecordedOnce, RecordsOf
  <2>7. RecordsAreTrue'
    <3> SUFFICES ASSUME NEW n \in 1..Len(deliveries)
                 PROVE  RecordsAreTrue!(n)'
      BY <2>1 DEF RecordsAreTrue
    <3>1. deliveries[n].call \in Calls /\ deliveries[n].hook \in Hooks
      BY RecordTyped
    <3> QED BY <1>3, <1>4, <2>1, <2>5, <3>1 DEF RecordsAreTrue
  <2> QED BY <1>5, <2>2, <2>3, <2>4, <2>6, <2>7
<1>7. CASE ~(attempt[c][h] < MaxAttempts(copy[c][h]))
  <2>1. CreateDelivery(c, h, "FAILED")
    BY <1>7 DEF AttemptFailed
  <2>2. /\ deliveries' \in Seq(Record)
        /\ Len(deliveries') = Len(deliveries) + 1
        /\ \A n \in 1..Len(deliveries) :
             /\ deliveries'[n] = deliveries[n]
             /\ deliveries[n].call # c \/ deliveries[n].hook # h
        /\ deliveries'[Len(deliveries) + 1] =
             [call |-> c, hook |-> h, status |-> "FAILED", attempts |-> attempt[c][h]]
        /\ stage' = [stage EXCEPT ![c][h] = "recorded"]
        /\ RecordedOnce'
    BY <2>1, CreateDeliveryRecords DEF Statuses
  <2>3. TypeOK'
    BY <1>3, <1>4, <2>2 DEF TypeOK, Stages
  <2>4. StageFitsCall'
    BY <1>3, <2>2 DEF TypeOK, StageFitsCall
  <2>5. AttemptsAddUp'
    <3> SUFFICES ASSUME NEW b \in Calls, NEW g \in Hooks
                 PROVE  AttemptsAddUp!(b, g)'
      BY DEF AttemptsAddUp
    <3>1. CASE b = c /\ g = h
      BY <1>1, <1>2, <1>3, <1>4, <2>2, <3>1 DEF TypeOK, AttemptsAddUp
    <3>2. CASE ~(b = c /\ g = h)
      <4>1. stage'[b][g] = stage[b][g]
        BY <2>2, <3>2 DEF TypeOK
      <4> QED BY <1>3, <1>4, <3>2, <4>1 DEF AttemptsAddUp
    <3> QED BY <3>1, <3>2
  <2>6. attempt[c][h] = copy[c][h].retries + 1
    BY <1>1, <1>2, <1>7 DEF TypeOK, AttemptsAddUp
  <2>7. RecordsAreTrue'
    <3> SUFFICES ASSUME NEW n \in 1..(Len(deliveries) + 1)
                 PROVE  RecordsAreTrue!(n)'
      BY <2>2 DEF RecordsAreTrue
    <3>1. CASE n \in 1..Len(deliveries)
      <4>1. deliveries[n].call \in Calls /\ deliveries[n].hook \in Hooks
        BY <3>1, RecordTyped
      <4>2. /\ deliveries'[n] = deliveries[n]
            /\ received'[deliveries[n].call][deliveries[n].hook] =
                 received[deliveries[n].call][deliveries[n].hook]
            /\ unheard'[deliveries[n].call][deliveries[n].hook] =
                 unheard[deliveries[n].call][deliveries[n].hook]
        BY <1>4, <2>2, <3>1, <4>1
      <4> QED BY <1>3, <3>1, <4>2 DEF RecordsAreTrue
    <3>2. CASE n = Len(deliveries) + 1
      BY <1>3, <1>4, <2>2, <2>6, <3>2
    <3> QED BY <3>1, <3>2 DEF TypeOK
  <2> QED BY <1>5, <2>2, <2>3, <2>4, <2>5, <2>7
<1> QED BY <1>6, <1>7

\* The answer that was heard ends the delivery, with one copy more than the
\* answers that were not.
LEMMA AcceptedInv ==
  ASSUME IInv, NEW c \in Calls, NEW h \in Hooks, Accepted(c, h)
  PROVE  IInv'
<1> USE DEF IInv
<1>1. /\ stage[c][h] = "post" /\ CreateDelivery(c, h, "SUCCESS")
      /\ received' = [received EXCEPT ![c][h] = @ + 1] /\ unheard' = unheard
      /\ hooks' = hooks /\ call' = call /\ copy' = copy /\ attempt' = attempt
      /\ matched' = matched
  BY DEF Accepted, CreateDelivery
<1>2. h \in matched[c] /\ copy[c][h] \in Hook
  BY <1>1 DEF StageFitsCall, AttemptsAddUp
<1>3. /\ deliveries' \in Seq(Record)
      /\ Len(deliveries') = Len(deliveries) + 1
      /\ \A n \in 1..Len(deliveries) :
           /\ deliveries'[n] = deliveries[n]
           /\ deliveries[n].call # c \/ deliveries[n].hook # h
      /\ deliveries'[Len(deliveries) + 1] =
           [call |-> c, hook |-> h, status |-> "SUCCESS", attempts |-> attempt[c][h]]
      /\ stage' = [stage EXCEPT ![c][h] = "recorded"]
      /\ RecordedOnce'
  BY <1>1, CreateDeliveryRecords DEF Statuses
<1>4. /\ received' \in [Calls -> [Hooks -> Nat]]
      /\ received'[c][h] = unheard[c][h] + 1
      /\ received'[c][h] <= attempt[c][h]
      /\ \A b \in Calls, g \in Hooks : b # c \/ g # h => received'[b][g] = received[b][g]
  BY <1>1 DEF TypeOK, AttemptsAddUp
<1>5. TypeOK'
  BY <1>1, <1>3, <1>4 DEF TypeOK, Stages
<1>6. UnusedIsBlank'
  BY <1>1 DEF UnusedIsBlank
<1>7. StageFitsCall'
  BY <1>1, <1>2, <1>3 DEF TypeOK, StageFitsCall
<1>8. AttemptsAddUp'
  BY <1>1, <1>2, <1>3, <1>4 DEF TypeOK, AttemptsAddUp
<1>9. RecordsAreTrue'
  <2> SUFFICES ASSUME NEW n \in 1..(Len(deliveries) + 1)
               PROVE  RecordsAreTrue!(n)'
    BY <1>3 DEF RecordsAreTrue
  <2>1. CASE n \in 1..Len(deliveries)
    BY <1>1, <1>3, <1>4, <2>1, RecordTyped DEF RecordsAreTrue
  <2>2. CASE n = Len(deliveries) + 1
    BY <1>1, <1>3, <1>4, <2>2
  <2> QED BY <2>1, <2>2 DEF TypeOK
<1> QED BY <1>3, <1>5, <1>6, <1>7, <1>8, <1>9

LEMMA PostInv ==
  ASSUME IInv, NEW c \in Calls, NEW h \in Hooks, Post(c, h)
  PROVE  IInv'
<1>1. CASE Accepted(c, h)
  BY <1>1, AcceptedInv
<1>2. CASE Refused(c, h)
  BY <1>2, AttemptFailedInv DEF Refused
<1>3. CASE Unheard(c, h)
  BY <1>3, AttemptFailedInv DEF Unheard
<1> QED BY <1>1, <1>2, <1>3 DEF Post

LEMMA RetryInv ==
  ASSUME IInv, NEW c \in Calls, NEW h \in Hooks, Retry(c, h)
  PROVE  IInv'
<1> USE DEF IInv
<1>1. /\ stage[c][h] = "wait" /\ stage' = [stage EXCEPT ![c][h] = "post"]
      /\ attempt' = [attempt EXCEPT ![c][h] = @ + 1]
      /\ hooks' = hooks /\ deliveries' = deliveries /\ call' = call /\ copy' = copy
      /\ received' = received /\ unheard' = unheard /\ matched' = matched
  BY DEF Retry, hist
<1>2. /\ h \in matched[c] /\ copy[c][h] \in Hook /\ copy[c][h].retries \in Nat
  BY <1>1, MaxAttemptsCount DEF StageFitsCall, AttemptsAddUp
<1>3. TypeOK'
  BY <1>1 DEF TypeOK, Stages
<1>4. UnusedIsBlank' /\ StageFitsCall'
  BY <1>1 DEF TypeOK, UnusedIsBlank, StageFitsCall
<1>5. AttemptsAddUp'
  BY <1>1, <1>2 DEF TypeOK, AttemptsAddUp
<1>6. \A n \in 1..Len(deliveries) : deliveries[n].call # c \/ deliveries[n].hook # h
  BY <1>1 DEF RecordedOnce
<1>7. RecordedOnce'
  <2>1. \A n \in 1..Len(deliveries) :
          stage'[deliveries[n].call][deliveries[n].hook] = "recorded"
    BY <1>1, <1>6, RecordTyped DEF TypeOK, RecordedOnce
  <2>2. \A b \in Calls, g \in Hooks : stage'[b][g] = "recorded" => stage[b][g] = "recorded"
    BY <1>1 DEF TypeOK
  <2> QED BY <1>1, <2>1, <2>2 DEF RecordedOnce, RecordsOf
<1>8. RecordsAreTrue'
  BY <1>1, <1>6, RecordTyped DEF TypeOK, RecordsAreTrue
<1> QED BY <1>3, <1>4, <1>5, <1>7, <1>8

LEMMA AnswerInv ==
  ASSUME IInv, NEW c \in Calls, Answer(c)
  PROVE  IInv'
<1> USE DEF IInv
<1>1. /\ call[c] = "running" /\ call' = [call EXCEPT ![c] = "answered"]
      /\ \A h \in matched[c] : stage[c][h] = "recorded"
      /\ hooks' = hooks /\ deliveries' = deliveries /\ stage' = stage /\ copy' = copy
      /\ attempt' = attempt /\ received' = received /\ unheard' = unheard
      /\ matched' = matched
  BY DEF Answer, sends, hist
<1>2. TypeOK'
  BY <1>1 DEF TypeOK
<1>3. UnusedIsBlank' /\ StageFitsCall'
  BY <1>1 DEF TypeOK, UnusedIsBlank, StageFitsCall
<1>4. AttemptsAddUp' /\ RecordedOnce' /\ RecordsAreTrue'
  BY <1>1 DEF AttemptsAddUp, RecordedOnce, RecordsAreTrue, RecordsOf
<1> QED BY <1>2, <1>3, <1>4

\* With the records, what they are compared to is gone.
LEMMA CrashInv ==
  ASSUME IInv, Crash
  PROVE  IInv'
<1> USE DEF IInv
<1>1. /\ hooks' = [h \in Hooks |-> NoHook] /\ deliveries' = <<>>
      /\ call' = [c \in Calls |-> IF call[c] = "idle" THEN "idle" ELSE "lost"]
      /\ stage' = [c \in Calls |-> [h \in Hooks |-> "none"]]
      /\ copy' = copy /\ attempt' = attempt /\ received' = received
      /\ unheard' = unheard /\ matched' = matched
  BY DEF Crash, hist
<1>2. TypeOK'
  BY <1>1 DEF TypeOK, Stages
<1>3. UnusedIsBlank' /\ StageFitsCall'
  BY <1>1 DEF TypeOK, UnusedIsBlank, StageFitsCall
<1>4. AttemptsAddUp'
  BY <1>1 DEF TypeOK, AttemptsAddUp
<1>5. RecordedOnce' /\ RecordsAreTrue'
  BY <1>1 DEF RecordedOnce, RecordsAreTrue, RecordsOf
<1> QED BY <1>2, <1>3, <1>4, <1>5

\* A call delivers only to webhooks that exist.
LEMMA CallsDeliver ==
  ASSUME NEW c \in Calls, Emit(c) \/ \E h \in Hooks : TestWebhook(c, h)
  PROVE  \E S \in SUBSET Hooks : (\A h \in S : Exists(h)) /\ Deliver(c, S)
<1>1. CASE Emit(c)
  BY <1>1 DEF Emit, Matching
<1>2. ASSUME NEW h \in Hooks, TestWebhook(c, h)
      PROVE  \E S \in SUBSET Hooks : (\A g \in S : Exists(g)) /\ Deliver(c, S)
  <2>1. {h} \in SUBSET Hooks /\ (\A g \in {h} : Exists(g)) /\ Deliver(c, {h})
    BY <1>2 DEF TestWebhook
  <2> QED BY <2>1
<1> QED BY <1>1, <1>2

LEMMA NextInv ==
  ASSUME IInv, [Next]_vars
  PROVE  IInv'
<1>1. ASSUME NEW h \in Hooks, Configure(h)
      PROVE  IInv'
  BY <1>1, ConfigureInv
<1>2. ASSUME NEW c \in Calls, Emit(c) \/ \E h \in Hooks : TestWebhook(c, h)
      PROVE  IInv'
  BY <1>2, CallsDeliver, DeliverInv
<1>3. ASSUME NEW c \in Calls, Answer(c)
      PROVE  IInv'
  BY <1>3, AnswerInv
<1>4. ASSUME NEW c \in Calls, NEW h \in Hooks, Post(c, h)
      PROVE  IInv'
  BY <1>4, PostInv
<1>5. ASSUME NEW c \in Calls, NEW h \in Hooks, Retry(c, h)
      PROVE  IInv'
  BY <1>5, RetryInv
<1>6. CASE Crash
  BY <1>6, CrashInv
<1>7. CASE UNCHANGED vars
  BY <1>7 DEF vars, IInv, TypeOK, UnusedIsBlank, StageFitsCall, AttemptsAddUp,
              RecordedOnce, RecordsAreTrue, RecordsOf
<1> QED BY <1>1, <1>2, <1>3, <1>4, <1>5, <1>6, <1>7 DEF Next

\* Every state is one the deliveries can be in; no fairness is needed.
THEOREM Invariance == Safety => []IInv
<1> QED BY InitInv, NextInv, PTL DEF Safety

-----------------------------------------------------------------------------
(* The properties. *)

\* Every variable of the webhooks service holds a value of its kind.
THEOREM TypeCorrect == Safety => []TypeOK
<1>1. IInv => TypeOK
  BY DEF IInv
<1> QED BY <1>1, Invariance, PTL

\* Once emit() or testWebhook() has answered, the delivery records hold one
\* record for each webhook that matched and no other of the call.
THEOREM AnswersAccountForAll == Safety => []AnswerAccountsForAll
<1>1. ASSUME IInv
      PROVE  AnswerAccountsForAll
  <2> SUFFICES ASSUME NEW c \in Calls, call[c] = "answered", NEW h \in Hooks
               PROVE  IF h \in matched[c]
                        THEN \E n \in RecordsOf(c, h) : RecordsOf(c, h) = {n}
                        ELSE RecordsOf(c, h) = {}
    BY DEF AnswerAccountsForAll
  <2>1. CASE h \in matched[c]
    <3>1. PICK n : n \in RecordsOf(c, h)
      BY <1>1, <2>1 DEF IInv, StageFitsCall, RecordedOnce
    <3>2. \A m \in RecordsOf(c, h) : m = n
      BY <1>1, <3>1 DEF IInv, RecordedOnce, RecordsOf
    <3>3. RecordsOf(c, h) = {n}
      BY <3>1, <3>2
    <3> QED BY <2>1, <3>1, <3>3
  <2>2. CASE h \notin matched[c]
    BY <1>1, <2>2 DEF IInv, StageFitsCall, RecordedOnce, RecordsOf
  <2> QED BY <2>1, <2>2
<1> QED BY <1>1, Invariance, PTL

\* SUCCESS is recorded when the receiver has taken the event and was heard,
\* FAILED when every attempt of the webhook as it was has been made in vain.
THEOREM RecordsTellTheTruth == Safety => []RecordsAreTrue
<1>1. IInv => RecordsAreTrue
  BY DEF IInv
<1> QED BY <1>1, Invariance, PTL

\* A receiver gets an event again only when its last answer was lost, and
\* within the retries of the webhook as it was when the call was made.
THEOREM DuplicatesAreExplained == Safety => []DuplicatesOnlyWhenUnheard
<1>1. ASSUME IInv
      PROVE  DuplicatesOnlyWhenUnheard
  <2> SUFFICES ASSUME NEW c \in Calls, NEW h \in Hooks
               PROVE  DuplicatesOnlyWhenUnheard!(c, h)
    BY DEF DuplicatesOnlyWhenUnheard
  <2>1. h \in matched[c] => copy[c][h].retries \in Nat
    BY <1>1, MaxAttemptsCount DEF IInv, AttemptsAddUp
  <2> QED BY <1>1, <2>1 DEF IInv, TypeOK, AttemptsAddUp
<1> QED BY <1>1, Invariance, PTL

\* No step changes the copy a delivery works on, whatever is configured.
LEMMA InsulatedStep ==
  ASSUME IInv, [Next]_vars, NEW c \in Calls, NEW h \in matched[c]
  PROVE  copy'[c][h] = copy[c][h]
<1>1. h \in Hooks /\ call[c] # "idle"
  BY DEF IInv, TypeOK, UnusedIsBlank
<1>2. ASSUME NEW b \in Calls, NEW S \in SUBSET Hooks, Deliver(b, S)
      PROVE  copy'[c] = copy[c]
  BY <1>1, <1>2 DEF IInv, TypeOK, Deliver
<1>3. ASSUME NEW b \in Calls, Emit(b) \/ \E g \in Hooks : TestWebhook(b, g)
      PROVE  copy'[c] = copy[c]
  BY <1>2, <1>3, CallsDeliver
<1>4. ASSUME NEW g \in Hooks, Configure(g)
      PROVE  copy' = copy
  BY <1>4 DEF Configure, CreateWebhook, UpdateWebhook, DeactivateWebhook, sends
<1>5. ASSUME NEW b \in Calls, NEW g \in Hooks, Post(b, g) \/ Retry(b, g)
      PROVE  copy' = copy
  BY <1>5 DEF Post, Accepted, Refused, Unheard, AttemptFailed, CreateDelivery, Retry
<1>6. ASSUME NEW b \in Calls, Answer(b)
      PROVE  copy' = copy
  BY <1>6 DEF Answer, sends
<1>7. Crash \/ UNCHANGED vars => copy' = copy
  BY DEF Crash, vars
<1> QED BY <1>3, <1>4, <1>5, <1>6, <1>7 DEF Next

\* A delivery keeps its address and its number of retries to its end.
THEOREM DeliveriesAreInsulated == Safety => DeliveryIsInsulated
<1>1. IInv /\ [Next]_vars =>
        [\A c \in Calls, h \in Hooks : h \in matched[c] => copy'[c][h] = copy[c][h]]_vars
  BY InsulatedStep
<1> QED BY <1>1, Invariance, PTL DEF Safety, DeliveryIsInsulated

-----------------------------------------------------------------------------
(* The contract, but for its liveness. *)

Succeeded(c, h) == \E n \in RecordsOf(c, h) : deliveries[n].status = "SUCCESS"

OutcomeIs(c, h) ==
  Outcome(c, h) = IF h \notin matched[c] THEN "none"
                  ELSE IF call[c] = "lost" THEN "lost"
                  ELSE IF stage[c][h] # "recorded" THEN "pending"
                  ELSE IF Succeeded(c, h) THEN "SUCCESS" ELSE "FAILED"

\* What Outcome comes to in each of its cases, which exclude each other.
LEMMA OutcomeCases == IInv => \A c \in Calls, h \in Hooks : OutcomeIs(c, h)
<1> SUFFICES ASSUME IInv, NEW c \in Calls, NEW h \in Hooks
             PROVE  OutcomeIs(c, h)
  OBVIOUS
<1> USE DEF OutcomeIs
<1>1. /\ stage[c][h] \in {"none", "post", "wait", "recorded"}
      /\ stage[c][h] # "none" <=> h \in matched[c] /\ call[c] # "lost"
  BY DEF IInv, TypeOK, Stages, StageFitsCall
<1>2. CASE call[c] = "lost"
  BY <1>1, <1>2 DEF Outcome
<1>3. CASE call[c] # "lost" /\ stage[c][h] \in {"post", "wait"}
  BY <1>1, <1>3 DEF Outcome
<1>4. CASE call[c] # "lost" /\ stage[c][h] = "recorded"
  BY <1>1, <1>4 DEF Outcome, Succeeded
<1>5. CASE call[c] # "lost" /\ stage[c][h] = "none"
  BY <1>1, <1>5 DEF Outcome
<1> QED BY <1>1, <1>2, <1>3, <1>4, <1>5

LEMMA OutcomeCasesAfter == IInv' => \A c \in Calls, h \in Hooks : OutcomeIs(c, h)'
<1>1. IInv' => (\A c \in Calls, h \in Hooks : OutcomeIs(c, h))'
  BY OutcomeCases, PTL
<1> QED BY <1>1

\* A record of another delivery has no part in the outcome.
LEMMA OtherOutcomes ==
  ASSUME IInv, NEW c \in Calls, NEW h \in Hooks, stage[c][h] = "post",
         NEW status \in Statuses, CreateDelivery(c, h, status)
  PROVE  /\ Succeeded(c, h)' <=> status = "SUCCESS"
         /\ \A b \in Calls, g \in Hooks :
              b # c \/ g # h => (Succeeded(b, g)' <=> Succeeded(b, g))
<1> DEFINE N == Len(deliveries)
<1>1. /\ N \in Nat /\ Len(deliveries') = N + 1
      /\ \A n \in 1..N :
           /\ deliveries'[n] = deliveries[n]
           /\ deliveries[n].call # c \/ deliveries[n].hook # h
      /\ deliveries'[N + 1] =
           [call |-> c, hook |-> h, status |-> status, attempts |-> attempt[c][h]]
  BY CreateDeliveryRecords DEF IInv, TypeOK
<1>2. \A n \in 1..(N + 1) : n \in 1..N \/ n = N + 1
  BY <1>1
<1>3. Succeeded(c, h)' <=> status = "SUCCESS"
  BY <1>1, <1>2 DEF Succeeded, RecordsOf
<1>4. ASSUME NEW b \in Calls, NEW g \in Hooks, b # c \/ g # h
      PROVE  Succeeded(b, g)' <=> Succeeded(b, g)
  BY <1>1, <1>2, <1>4 DEF Succeeded, RecordsOf
<1> QED BY <1>3, <1>4

LEMMA ContractInit == Init => Contract!Init
BY DEF Init, Contract!Init, Outcome

\* A step that leaves the calls' and deliveries' progress alone.
LEMMA SameOutcomes ==
  ASSUME IInv, IInv', matched' = matched, deliveries' = deliveries,
         \A c \in Calls : call'[c] = "lost" <=> call[c] = "lost",
         \A c \in Calls, h \in Hooks :
           stage'[c][h] = "recorded" <=> stage[c][h] = "recorded"
  PROVE  \A c \in Calls, h \in Hooks : Outcome(c, h)' = Outcome(c, h)
<1> SUFFICES ASSUME NEW c \in Calls, NEW h \in Hooks
             PROVE  Outcome(c, h)' = Outcome(c, h)
  OBVIOUS
<1>1. Succeeded(c, h)' <=> Succeeded(c, h)
  BY DEF Succeeded, RecordsOf
<1> QED BY <1>1, OutcomeCases, OutcomeCasesAfter DEF OutcomeIs

\* Each step is a step of the contract, or none.
LEMMA ContractNext ==
  ASSUME IInv, IInv', [Next]_vars
  PROVE  [Contract!Next]_Contract!vars
<1> DEFINE Same == \A c \in Calls, h \in Hooks : Outcome(c, h)' = Outcome(c, h)
<1>1. Same /\ received' = received => UNCHANGED Contract!vars
  BY DEF Contract!vars
<1>2. ASSUME NEW h \in Hooks, Configure(h)
      PROVE  UNCHANGED Contract!vars
  <2>1. /\ deliveries' = deliveries /\ call' = call /\ stage' = stage
        /\ received' = received /\ matched' = matched
    BY <1>2 DEF Configure, CreateWebhook, UpdateWebhook, DeactivateWebhook, sends, hist
  <2> QED BY <1>1, <2>1, SameOutcomes
<1>3. ASSUME NEW c \in Calls, NEW S \in SUBSET Hooks, Deliver(c, S)
      PROVE  Contract!Start(c, S)
  <2>1. /\ call[c] = "idle" /\ call' = [call EXCEPT ![c] = "running"]
        /\ stage' = [stage EXCEPT ![c] =
                       [h \in Hooks |-> IF h \in S THEN "post" ELSE "none"]]
        /\ matched' = [matched EXCEPT ![c] = S] /\ deliveries' = deliveries
        /\ received' = received
    BY <1>3 DEF Deliver
  <2>2. \A h \in Hooks : Outcome(c, h) = "none"
    BY <2>1, OutcomeCases DEF IInv, UnusedIsBlank, OutcomeIs
  <2>3. \A h \in Hooks : Outcome(c, h)' = IF h \in S THEN "pending" ELSE "none"
    BY <2>1, OutcomeCasesAfter DEF IInv, TypeOK, OutcomeIs
  <2>4. \A b \in Calls, h \in Hooks : b # c => Outcome(b, h)' = Outcome(b, h)
    <3> SUFFICES ASSUME NEW b \in Calls, NEW h \in Hooks, b # c
                 PROVE  Outcome(b, h)' = Outcome(b, h)
      OBVIOUS
    <3>1. Succeeded(b, h)' <=> Succeeded(b, h)
      BY <2>1 DEF Succeeded, RecordsOf
    <3>2. matched'[b] = matched[b] /\ call'[b] = call[b] /\ stage'[b] = stage[b]
      BY <2>1 DEF IInv, TypeOK
    <3> QED BY <3>1, <3>2, OutcomeCases, OutcomeCasesAfter DEF OutcomeIs
  <2> QED BY <2>1, <2>2, <2>3, <2>4 DEF Contract!Start
<1>4. ASSUME NEW c \in Calls, Answer(c)
      PROVE  UNCHANGED Contract!vars
  <2>1. /\ deliveries' = deliveries /\ call[c] = "running"
        /\ call' = [call EXCEPT ![c] = "answered"]
        /\ stage' = stage /\ received' = received /\ matched' = matched
    BY <1>4 DEF Answer, sends, hist
  <2>2. \A b \in Calls : call'[b] = "lost" <=> call[b] = "lost"
    BY <2>1 DEF IInv, TypeOK
  <2> QED BY <1>1, <2>1, <2>2, SameOutcomes
<1>5. ASSUME NEW c \in Calls, NEW h \in Hooks, Retry(c, h)
      PROVE  UNCHANGED Contract!vars
  <2>1. /\ deliveries' = deliveries /\ call' = call /\ received' = received
        /\ matched' = matched
        /\ stage[c][h] = "wait" /\ stage' = [stage EXCEPT ![c][h] = "post"]
    BY <1>5 DEF Retry, hist
  <2>2. \A b \in Calls, g \in Hooks : stage'[b][g] = "recorded" <=> stage[b][g] = "recorded"
    BY <2>1 DEF IInv, TypeOK
  <2> QED BY <1>1, <2>1, <2>2, SameOutcomes
<1>6. ASSUME NEW c \in Calls, NEW h \in Hooks, stage[c][h] = "post",
             NEW status \in Statuses, CreateDelivery(c, h, status)
      PROVE  /\ Outcome(c, h) = "pending"
             /\ [b \in Calls |-> [g \in Hooks |-> Outcome(b, g)]]' =
                  [[b \in Calls |-> [g \in Hooks |-> Outcome(b, g)]] EXCEPT ![c][h] = status]
  <2>1. /\ stage' = [stage EXCEPT ![c][h] = "recorded"] /\ call' = call
        /\ matched' = matched
    BY <1>6 DEF CreateDelivery
  <2>2. h \in matched[c] /\ call[c] # "lost"
    BY <1>6 DEF IInv, StageFitsCall
  <2>3. Outcome(c, h) = "pending"
    BY <1>6, <2>2, OutcomeCases DEF OutcomeIs
  <2>4. Outcome(c, h)' = status
    BY <1>6, <2>1, <2>2, OtherOutcomes, OutcomeCasesAfter DEF IInv, TypeOK, OutcomeIs, Statuses
  <2>5. \A b \in Calls, g \in Hooks : b # c \/ g # h => Outcome(b, g)' = Outcome(b, g)
    <3> SUFFICES ASSUME NEW b \in Calls, NEW g \in Hooks, b # c \/ g # h
                 PROVE  Outcome(b, g)' = Outcome(b, g)
      OBVIOUS
    <3>1. Succeeded(b, g)' <=> Succeeded(b, g)
      BY <1>6, OtherOutcomes
    <3>2. stage'[b][g] = stage[b][g]
      BY <2>1 DEF IInv, TypeOK
    <3> QED BY <2>1, <3>1, <3>2, OutcomeCases, OutcomeCasesAfter DEF OutcomeIs
  <2> QED BY <2>3, <2>4, <2>5
<1>7. ASSUME NEW c \in Calls, NEW h \in Hooks, Accepted(c, h)
      PROVE  Contract!Succeed(c, h)
  BY <1>6, <1>7 DEF Accepted, Statuses, Contract!Succeed
<1>8. ASSUME NEW c \in Calls, NEW h \in Hooks, stage[c][h] = "post", AttemptFailed(c, h),
             \/ received' = received
             \/ received' = [received EXCEPT ![c][h] = @ + 1]
      PROVE  Contract!Copy(c, h) \/ Contract!GiveUp(c, h) \/ UNCHANGED Contract!vars
  <2>1. CASE attempt[c][h] < MaxAttempts(copy[c][h])
    <3>1. /\ stage' = [stage EXCEPT ![c][h] = "wait"] /\ deliveries' = deliveries
          /\ call' = call /\ matched' = matched
      BY <1>8, <2>1 DEF AttemptFailed
    <3>2. \A b \in Calls, g \in Hooks :
            stage'[b][g] = "recorded" <=> stage[b][g] = "recorded"
      BY <1>8, <3>1 DEF IInv, TypeOK
    <3>3. Same
      BY <3>1, <3>2, SameOutcomes
    <3>4. Outcome(c, h) = "pending"
      BY <1>8, OutcomeCases DEF IInv, StageFitsCall, OutcomeIs
    <3> QED BY <1>1, <1>8, <3>3, <3>4 DEF Contract!Copy
  <2>2. CASE ~(attempt[c][h] < MaxAttempts(copy[c][h]))
    <3>1. CreateDelivery(c, h, "FAILED")
      BY <1>8, <2>2 DEF AttemptFailed
    <3> QED BY <1>6, <1>8, <3>1 DEF Statuses, Contract!GiveUp
  <2> QED BY <2>1, <2>2
<1>9. ASSUME NEW c \in Calls, NEW h \in Hooks, Refused(c, h) \/ Unheard(c, h)
      PROVE  Contract!Copy(c, h) \/ Contract!GiveUp(c, h) \/ UNCHANGED Contract!vars
  BY <1>8, <1>9 DEF Refused, Unheard
<1>10. CASE Crash
  <2>1. /\ call' = [c \in Calls |-> IF call[c] = "idle" THEN "idle" ELSE "lost"]
        /\ matched' = matched /\ received' = received
    BY <1>10 DEF Crash, hist
  <2>2. \A c \in Calls, h \in Hooks :
          Outcome(c, h)' = IF Outcome(c, h) = "none" THEN "none" ELSE "lost"
    BY <2>1, OutcomeCases, OutcomeCasesAfter DEF IInv, UnusedIsBlank, OutcomeIs
  <2> QED BY <2>1, <2>2 DEF Contract!Crash, Contract!Next
<1>11. CASE UNCHANGED vars
  <2>1. /\ deliveries' = deliveries /\ call' = call /\ stage' = stage
        /\ received' = received /\ matched' = matched
    BY <1>11 DEF vars
  <2> QED BY <1>1, <2>1, SameOutcomes
<1>12. ASSUME NEW c \in Calls, Emit(c) \/ \E h \in Hooks : TestWebhook(c, h)
       PROVE  \E S \in SUBSET Hooks : Contract!Start(c, S)
  BY <1>3, <1>12, CallsDeliver
<1> QED
  BY <1>2, <1>4, <1>5, <1>7, <1>9, <1>10, <1>11, <1>12 DEF Next, Post, Contract!Next

\* Nothing is recorded as SUCCESS without a copy, a record stays as it is, and
\* only a stop of the process loses a delivery: retries, records and crashes
\* (deliverToWebhook) are a way to keep what the contract says of steps.
THEOREM KeepsContractSafely == Safety => Contract!Safety
<1>1. IInv /\ IInv' /\ [Next]_vars => [Contract!Next]_Contract!vars
  BY ContractNext
<1> QED BY <1>1, ContractInit, Invariance, PTL DEF Safety, Contract!Safety

=============================================================================
