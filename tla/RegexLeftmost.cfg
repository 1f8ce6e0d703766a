CONSTANTS
  Chars = {"a", "b", "c", "-"}
  WordChars = {"a", "b", "c"}
  MaxLen = 4
  Texts <- AllTexts
  Program <- Compiled
  Plans <- TreePlans
  Passes <- Holds
  EvalEnd <- TreeEval
  None = none
SPECIFICATION Spec
INVARIANTS
  LeftmostFirst
