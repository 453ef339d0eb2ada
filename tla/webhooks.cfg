\* Two calls, two webhooks whose configuration changes while they deliver.
SPECIFICATION Spec
CONSTANTS
  k1 = k1
  k2 = k2
  h1 = h1
  h2 = h2
  u1 = u1
  e1 = e1
  Calls <- TwoCalls
  Hooks <- TwoHooks
  Urls <- OneUrl
  Kinds <- OneKind
  Subscriptions <- Subscribed
  Retries = {1}
INVARIANTS
  TypeOK
  AnswerAccountsForAll
  RecordsAreTrue
  DuplicatesOnlyWhenUnheard
SYMMETRY Symmetry
