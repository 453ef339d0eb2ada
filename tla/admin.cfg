\* Two accounts, two requests at once, and names in Kong that may change hands.
\* The bound on the requests makes the system stop.
SPECIFICATION Spec
CONSTANTS
  u1 = u1
  u2 = u2
  c1 = c1
  c2 = c2
  e1 = e1
  e2 = e2
  a1 = a1
  a2 = a2
  r1 = r1
  r2 = r2
  x1 = x1
  x2 = x2
  v1 = v1
  v2 = v2
  None = None
  Users <- TwoUsers
  Emails <- TwoEmails
  Calls <- TwoCalls
  MaxRequests = 3
  ServiceIds = {s}
  ServiceNames <- TwoNames
  RouteIds <- TwoRoutes
  RouteNames = {n}
  ConsumerIds <- TwoConsumers
  Usernames <- TwoUsernames
CONSTRAINT
  AccountsOrKong
INVARIANTS
  TypeOK
  ActsOnlyWhileActive
  KongIsInOrder
PROPERTY
  SomeoneStaysActive
SYMMETRY Symmetry
CHECK_DEADLOCK FALSE
