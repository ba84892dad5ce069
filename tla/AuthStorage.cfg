\* Two processes that share credentials for two providers: a token can be refreshed
\* twice, or once beside a login for the other provider; one process dies.
CONSTANTS
  Processes = {p1, p2}
  Providers = {a, b}
  NoProvider = NoProvider
  MaxTokens = 3
  MaxCrashes = 1
SPECIFICATION Spec
SYMMETRY Symmetry
CHECK_DEADLOCK FALSE
INVARIANTS
  NotStranded
  OneRefreshAtATime
PROPERTIES
  KeepsOthers
