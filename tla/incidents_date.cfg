\* Five overlapping writers on one incident, no failures.
SPECIFICATION Spec
CONSTANTS
  i1 = i1
  i2 = i2
  r1 = r1
  r2 = r2
  r3 = r3
  r4 = r4
  r5 = r5
  d1 = d1
  d2 = d2
  NoDate = NoDate
  Ids <- OneId
  Requests <- FiveRequests
  Dates <- TwoDates
  Menu = {"create", "ack", "resolve"}
  MayFail = FALSE
INVARIANTS
  ResolvedHasDate
SYMMETRY SymmetryFive
CHECK_DEADLOCK FALSE
