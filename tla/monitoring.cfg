\* Overlapping checks and edits on one UPSTREAM_HEALTH rule, failing saves,
\* crashes.  No symmetry: one of the properties is about liveness.
SPECIFICATION Spec
CONSTANTS
  m1 = m1
  c1 = c1
  c2 = c2
  a1 = a1
  Rules <- OneRule
  HealthRules <- OneHealthRule
  Checks <- TwoChecks
  Admins <- OneAdmin
  Cooldowns = {1}
  Old = 2
  MayFail = TRUE
  MayCrash = TRUE
INVARIANTS
  TypeOK
  NoPhantomCooldown
  ReportedMeansAlerted
PROPERTIES
  BreachKeepsAlerting
  AlertIsDueUnlessDisturbed
  DeletionStandsUnlessDisturbed
