\* Up to three files, every path, call and objective.
CONSTANTS
  Corpora <- SmallCorpora
  Scopes <- SomeScopes
  MaxMatches = {0, 1, 2}
CHECK_DEADLOCK FALSE
SPECIFICATION Spec
INVARIANTS
  TypeOK
  DriverInv
  FindAnswer
  FilesAnswer
  RoomLeft
