----------------------------- MODULE AlertPipeline -----------------------------
(***************************************************************************)
(* From an alert to the receivers: IncidentsService stores an incident for *)
(* a THRESHOLD_EXCEEDED event or a request, and emits 'incident.created';  *)
(* IncidentCreatedListener hands it to WebhooksService, whose deliveries   *)
(* (WebhookDelivery) send the text its provider's formatter makes of it.   *)
(*                                                                         *)
(* A call of WebhookDelivery stands for the announcement of one incident.  *)
(* Events live in the process: nothing repeats one that a crash or a       *)
(* failed write has kept from being emitted.  What becomes of the incident *)
(* afterwards is another component's (Incidents).                          *)
(***************************************************************************)
EXTENDS WebhookDelivery

CONSTANTS
  IncidentCreated,  \* the event type INCIDENT_CREATED
  Reasons,          \* texts of reasons
  Blank             \* no text, or spaces only

ASSUME KindAssumption == IncidentCreated \in Kinds
ASSUME BlankAssumption == Blank \notin Reasons

VARIABLES
  progress,  \* progress[c]: how far createIncident got
  reason     \* reason[c]: that of the incident

pipelineVars == <<vars, progress, reason>>

-----------------------------------------------------------------------------
(* Payloads and formatters. *)

Providers == {"GENERIC", "DISCORD", "SLACK"}

\* The fields of a payload that texts are made of.
NoFields == [reason |-> Blank, message |-> Blank, error |-> Blank,
             status |-> Blank, serviceName |-> Blank]

\* Variant: the status comes first.
StatusFirst == <<"status", "reason", "message">>

\* The fields a summary is taken from; the first that is not blank counts.
SummaryFields == <<"reason", "message", "error">>

Filled(p) == {n \in 1..Len(SummaryFields) : p[SummaryFields[n]] # Blank}

FirstText(p) ==
  {p[SummaryFields[n]] : n \in {k \in Filled(p) : \A m \in Filled(p) : k <= m}}

\* The payload as JSON; a text is the set of the fields it shows.
AllOf(p) == {p[f] : f \in DOMAIN p} \ {Blank}

\* buildSummary; the last resort is the payload as JSON.
Summary(p) ==
  IF Filled(p) # {} THEN FirstText(p)
  ELSE IF Blank \notin {p.status, p.serviceName} THEN {p.status, p.serviceName}
  ELSE AllOf(p)

DiscordFormat(p) == Summary(p) \cup ({p.status} \ {Blank})

SlackFormat(p) == Summary(p)

GenericFormat(p) == AllOf(p)

\* getFormatter: what is not Discord or Slack is generic.
Format(provider, p) ==
  CASE provider = "DISCORD" -> DiscordFormat(p)
    [] provider = "SLACK" -> SlackFormat(p)
    [] OTHER -> GenericFormat(p)

\* The listener's payload: the status is OPEN whatever it is by then.
Payload(c) == [NoFields EXCEPT !.reason = reason[c], !.status = "OPEN"]

-----------------------------------------------------------------------------
PipelineInit ==
  /\ Init
  /\ progress = [c \in Calls |-> "none"]
  /\ reason = [c \in Calls |-> Blank]

\* createIncident saves the row; the alert's or the admin's reason is kept.
SaveIncident(c) ==
  /\ progress[c] = "none"
  /\ progress' = [progress EXCEPT ![c] = "saved"]
  /\ \E r \in Reasons \cup {Blank} : reason' = [reason EXCEPT ![c] = r]
  /\ UNCHANGED vars

AppendLog(c) ==
  /\ progress[c] = "saved"
  /\ progress' = [progress EXCEPT ![c] = "logged"]
  /\ UNCHANGED <<vars, reason>>

\* The log is refused: createIncident throws, and the row stays.
AppendLogFails(c) ==
  /\ progress[c] = "saved"
  /\ progress' = [progress EXCEPT ![c] = "stopped"]
  /\ UNCHANGED <<vars, reason>>

\* Variant: nobody is told of an incident without a reason.
AnnounceReasoned(c) ==
  /\ progress[c] = "logged"
  /\ reason[c] # Blank
  /\ Deliver(c, Matching(IncidentCreated))
  /\ progress' = [progress EXCEPT ![c] = "announced"]
  /\ UNCHANGED reason

\* The event, its listener and the first POSTs are one synchronous stretch.
Announce(c) ==
  /\ progress[c] = "logged"
  /\ Deliver(c, Matching(IncidentCreated))
  /\ progress' = [progress EXCEPT ![c] = "announced"]
  /\ UNCHANGED reason

\* A restart: the rows are stored, what was under way is lost.
Restart ==
  /\ Crash
  /\ progress' = [c \in Calls |->
       IF progress[c] \in {"saved", "logged"} THEN "stopped" ELSE progress[c]]
  /\ UNCHANGED reason

\* The webhook operations of the GraphQL resolver; a test call has no part
\* in an incident.
AdminRequest(h) == Configure(h)

PipelineNext ==
  \/ \E c \in Calls : SaveIncident(c) \/ AppendLog(c) \/ AppendLogFails(c) \/ Announce(c)
  \/ /\ \/ \E h \in Hooks : AdminRequest(h)
        \/ \E c \in Calls : Answer(c)
        \/ \E c \in Calls, h \in Hooks : Post(c, h) \/ Retry(c, h)
     /\ UNCHANGED <<progress, reason>>
  \/ Restart

\* The database answers, and an answered write is followed by the event.
PipelineSpec ==
  /\ PipelineInit /\ [][PipelineNext]_pipelineVars
  /\ Fairness
  /\ \A c \in Calls :
       /\ WF_pipelineVars(AppendLog(c) \/ AppendLogFails(c))
       /\ WF_pipelineVars(Announce(c))

-----------------------------------------------------------------------------
(* Properties. *)

\* Every stored incident is announced to the webhooks, unless its first log
\* entry could not be written or the process stopped before.
StoredIsAnnounced ==
  \A c \in Calls : progress[c] # "none" ~> progress[c] \in {"announced", "stopped"}

\* An event the webhooks deliver is of a stored incident, and its text, in
\* every provider's format, gives the incident's reason or, where that is
\* blank, all that is known.
TextGivesReason ==
  \A c \in Calls : call[c] # "idle" =>
    /\ progress[c] = "announced"
    /\ \A provider \in Providers :
         LET text == Format(provider, Payload(c)) IN
         reason[c] \in text \/ (reason[c] = Blank /\ AllOf(Payload(c)) \subseteq text)

=============================================================================
