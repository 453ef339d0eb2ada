\* Overlapping requests, failing calls and crashes.  Each request runs once,
\* so the system stops when all have ended.
SPECIFICATION Spec
CONSTANTS
  i1 = i1
  i2 = i2
  r1 = r1
  r2 = r2
  r3 = r3
  r4 = r4
  r5 = r5
  d1 = d1
  d2 = d2
  NoDate = NoDate
  Ids <- TwoIds
  Requests <- ThreeRequests
  Dates <- TwoDates
  Menu = {"create", "ack", "resolve", "message", "view"}
  MayFail = TRUE
INVARIANTS
  TypeOK
  LogIsEarned
  AnswerShowsOwnAction
  CreatedEventIsReadable
  ResolutionStands
  RowIsAccountedFor
SYMMETRY Symmetry
CHECK_DEADLOCK FALSE
