\* One check and one admin on one rule; nothing fails.
SPECIFICATION Spec
CONSTANTS
  m1 = m1
  c1 = c1
  c2 = c2
  a1 = a1
  Rules <- OneRule
  HealthRules <- OneHealthRule
  Checks <- OneCheck
  Admins <- OneAdmin
  Cooldowns = {1}
  Old = 2
  MayFail = FALSE
  MayCrash = FALSE
PROPERTIES
  DeletedStaysDeleted
