\* Callers taking turns on an incident, no failures.  Each request runs once,
\* so the system stops when all have ended.
SPECIFICATION SerialSpec
CONSTANTS
  i1 = i1
  i2 = i2
  r1 = r1
  r2 = r2
  r3 = r3
  r4 = r4
  r5 = r5
  d1 = d1
  d2 = d2
  NoDate = NoDate
  Ids <- TwoIds
  Requests <- FourRequests
  Dates <- TwoDates
  Menu = {"create", "ack", "resolve", "message"}
  MayFail = FALSE
INVARIANTS
  TimelineExplainsRow
PROPERTIES
  ImplementsLifecycle
CHECK_DEADLOCK FALSE
