\* Every text up to MaxLen, over up to three chunks of two blocks.
CONSTANTS
  Bytes = {"a", "-"}
  MaxLen = 8
  Texts <- ShortTexts
  Queries <- Literals
  WordBytes = {"a"}
  Sep = "-"
  Gram = 2
  Core = 3
  Over = 3
  Block = 2
  Look = 2
  Row <- FirstByte
  PosRow <- LastByte
CHECK_DEADLOCK FALSE
SPECIFICATION Spec
INVARIANTS
  TypeOK
  ScanInv
  MatchesReference
