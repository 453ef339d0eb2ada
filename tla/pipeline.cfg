\* One incident, two webhooks; zero or two retries, configuration changes.
SPECIFICATION PipelineSpec
CONSTANTS
  k1 = k1
  h1 = h1
  h2 = h2
  u1 = u1
  e1 = e1
  Calls <- OneCall
  Hooks <- TwoHooks
  Urls <- OneUrl
  Kinds <- OneKind
  IncidentCreated = e1
  Subscriptions <- Subscribed
  Retries = {0, 2}
  Reasons = {"down"}
  Blank = Blank
INVARIANT
  TextGivesReason
PROPERTIES
  DeliveryIsInsulated
  KeepsContract
  CallIsAnswered
  StoredIsAnnounced
