CONSTANTS
  Chars = {"a", "b", "c", "-"}
  WordChars = {"a", "b", "c"}
  MaxLen = 5
  Texts <- AllTexts
  Program <- Compiled
  Plans <- TreePlans
  Passes <- Holds
  EvalEnd <- TreeEval
  None = none
SPECIFICATION Spec
INVARIANTS
  TypeOK
  SearchInv
  Priority
  Preferred
  Leftmost
  NoneMissed
  Ordered
