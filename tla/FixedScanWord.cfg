\* Whole words, of a literal with a non-word byte inside.
CONSTANTS
  Bytes = {"a", "-"}
  MaxLen = 8
  Texts <- ShortTexts
  Queries <- WordLiterals
  WordBytes = {"a"}
  Sep = "-"
  Gram = 2
  Core = 3
  Over = 3
  Block = 2
  Look = 2
  Row <- FirstByte
  PosRow <- LastByte
CHECK_DEADLOCK FALSE
SPECIFICATION Spec
INVARIANTS
  WordFound
