\* One browser tab, two users, two polls at once.  The bound on the inputs
\* makes the system stop.
SPECIFICATION Spec
CONSTANTS
  u1 = u1
  u2 = u2
  p1 = p1
  p2 = p2
  t1 = t1
  t2 = t2
  None = None
  ScopeLists <- Lists
  Polls <- TwoPolls
  Amounts = {0}
  Threshold = 2
  Senders = {"s"}
  NoSender = "none"
  Messages <- TwoTexts
  MaxLimit = 2
  Users <- TwoUsers
  Views = {"metrics", "incidents"}
  FormViews = {"incidents"}
  MaxFlows = 2
  MaxInputs = 4
INVARIANTS
  TypeOK
  PageIsCurrent
  ShowsLatestMetrics
  HealthIsEarned
  SummaryMatchesEvents
CONSTRAINT MessengerAlone
SYMMETRY Symmetry
CHECK_DEADLOCK FALSE
