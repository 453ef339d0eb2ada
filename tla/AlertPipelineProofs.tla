------------------------- MODULE AlertPipelineProofs -------------------------
(***************************************************************************)
(* Theorems about AlertPipeline: each step of the pipeline is a step of    *)
(* the deliveries or leaves them alone, so what is proved of these holds   *)
(* in it, for all sets of incidents, webhooks and texts.                   *)
(***************************************************************************)
EXTENDS AlertPipeline, WebhookDeliveryProofs

-----------------------------------------------------------------------------
(* The pipeline implements the deliveries. *)

LEMMA PipelineStep == [PipelineNext]_pipelineVars => [Next]_vars
<1> SUFFICES ASSUME [PipelineNext]_pipelineVars
             PROVE  [Next]_vars
  OBVIOUS
<1>1. ASSUME NEW c \in Calls,
             SaveIncident(c) \/ AppendLog(c) \/ AppendLogFails(c)
      PROVE  UNCHANGED vars
  BY <1>1 DEF SaveIncident, AppendLog, AppendLogFails
<1>2. ASSUME NEW c \in Calls, Announce(c)
      PROVE  Emit(c)
  BY <1>2, KindAssumption DEF Announce, Emit
<1>3. ASSUME NEW h \in Hooks, AdminRequest(h)
      PROVE  Configure(h)
  BY <1>3 DEF AdminRequest
<1>4. Restart => Crash
  BY DEF Restart
<1>5. UNCHANGED pipelineVars => UNCHANGED vars
  BY DEF pipelineVars
<1> QED BY <1>1, <1>2, <1>3, <1>4, <1>5 DEF PipelineNext, Next

\* What the pipeline does to webhooks, deliveries and records, the webhooks
\* service may do.
THEOREM PipelineIsDelivery == PipelineSpec => Safety
<1>1. PipelineInit => Init
  BY DEF PipelineInit
<1> QED BY <1>1, PipelineStep, PTL DEF PipelineSpec, Safety

-----------------------------------------------------------------------------
(* The texts. *)

\* A reason is in every format; without one, all of the payload is.
LEMMA FormatsGiveReason ==
  ASSUME NEW c \in Calls, NEW provider \in Providers
  PROVE  LET text == Format(provider, Payload(c)) IN
         reason[c] \in text \/ (reason[c] = Blank /\ AllOf(Payload(c)) \subseteq text)
<1> DEFINE p == Payload(c)
<1>1. /\ p.reason = reason[c] /\ p.message = Blank /\ p.error = Blank
      /\ p.serviceName = Blank
      /\ DOMAIN p = {"reason", "message", "error", "status", "serviceName"}
  BY DEF Payload, NoFields
<1>2. CASE reason[c] # Blank
  <2>1. Filled(p) = {1}
    BY <1>1, <1>2 DEF Filled, SummaryFields
  <2>2. Summary(p) = {reason[c]}
    BY <1>1, <2>1 DEF Summary, FirstText, SummaryFields
  <2>3. reason[c] \in AllOf(p)
    BY <1>1, <1>2 DEF AllOf
  <2> QED BY <2>2, <2>3 DEF Format, DiscordFormat, SlackFormat, GenericFormat
<1>3. CASE reason[c] = Blank
  <2>1. Filled(p) = {}
    BY <1>1, <1>3 DEF Filled, SummaryFields
  <2>2. Summary(p) = AllOf(p)
    BY <1>1, <2>1 DEF Summary
  <2> QED BY <1>3, <2>2 DEF Format, DiscordFormat, SlackFormat, GenericFormat
<1> QED BY <1>2, <1>3

\* A delivery is under way for an announced incident only.
Announced ==
  /\ progress \in [Calls -> {"none", "saved", "logged", "announced", "stopped"}]
  /\ \A c \in Calls : call[c] # "idle" => progress[c] = "announced"

LEMMA AnnouncedInit == PipelineInit => Announced
BY DEF PipelineInit, Init, Announced

LEMMA AnnouncedNext ==
  ASSUME IInv, Announced, [PipelineNext]_pipelineVars
  PROVE  Announced'
<1> USE DEF Announced
<1>1. ASSUME NEW c \in Calls,
             SaveIncident(c) \/ AppendLog(c) \/ AppendLogFails(c)
      PROVE  Announced'
  BY <1>1 DEF SaveIncident, AppendLog, AppendLogFails, vars
<1>2. ASSUME NEW c \in Calls, Announce(c)
      PROVE  Announced'
  BY <1>2 DEF Announce, Deliver, IInv, TypeOK
<1>3. ASSUME NEW h \in Hooks, AdminRequest(h), progress' = progress
      PROVE  Announced'
  BY <1>3 DEF AdminRequest, Configure, CreateWebhook, UpdateWebhook, DeactivateWebhook
<1>4. ASSUME NEW c \in Calls, Answer(c), progress' = progress
      PROVE  Announced'
  BY <1>4 DEF Answer, IInv, TypeOK
<1>5. ASSUME NEW c \in Calls, NEW h \in Hooks, Post(c, h) \/ Retry(c, h),
             progress' = progress
      PROVE  Announced'
  BY <1>5 DEF Post, Accepted, Refused, Unheard, AttemptFailed, CreateDelivery, Retry
<1>6. CASE Restart
  BY <1>6 DEF Restart, Crash
<1>7. CASE UNCHANGED pipelineVars
  BY <1>7 DEF pipelineVars, vars
<1> QED BY <1>1, <1>2, <1>3, <1>4, <1>5, <1>6, <1>7 DEF PipelineNext

\* What is delivered is of an announced incident, and every receiver can read
\* its reason, or all there is where the reason is blank.
THEOREM TextsGiveReason == PipelineSpec => []TextGivesReason
<1>1. PipelineSpec => []IInv
  BY PipelineIsDelivery, Invariance, PTL
<1>2. Announced => TextGivesReason
  BY FormatsGiveReason DEF Announced, TextGivesReason
<1> QED BY <1>1, <1>2, AnnouncedInit, AnnouncedNext, PTL DEF PipelineSpec

-----------------------------------------------------------------------------
(* What the pipeline inherits from the deliveries. *)

\* An announcement keeps its address and its number of retries.
THEOREM AnnouncementsAreInsulated == PipelineSpec => DeliveryIsInsulated
<1> QED BY PipelineIsDelivery, DeliveriesAreInsulated, PTL

\* An announcement is recorded as SUCCESS only where a copy has arrived, its
\* records stay, and only a stop of the process loses it.
THEOREM PipelineKeepsContractSafely == PipelineSpec => Contract!Safety
<1> QED BY PipelineIsDelivery, KeepsContractSafely, PTL

=============================================================================
