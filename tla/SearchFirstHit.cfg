\* A first-hit search on every path.
CONSTANTS
  Corpora <- SmallCorpora
  Scopes <- SomeScopes
  MaxMatches = {0}
CHECK_DEADLOCK FALSE
SPECIFICATION Spec
INVARIANTS
  FirstHitFinds
