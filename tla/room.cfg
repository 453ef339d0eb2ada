\* Joins, messages and updates of two sockets in the rooms of two incidents.
\* Each request runs once, so the system stops when all have ended.
SPECIFICATION Spec
CONSTANTS
  i1 = i1
  i2 = i2
  s1 = s1
  s2 = s2
  r1 = r1
  r2 = r2
  r3 = r3
  Ids <- TwoIds
  Sockets <- TwoSockets
  Requests <- ThreeRequests
  MayFail = TRUE
INVARIANTS
  TypeOK
  PresenceIsMembership
  PresenceIsTold
  NothingIsMissed
SYMMETRY Symmetry
CHECK_DEADLOCK FALSE
