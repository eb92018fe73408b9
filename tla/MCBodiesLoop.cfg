CONSTANTS
  BodyCap = 5
  MaxLines = 5
SPECIFICATION Spec
INVARIANT LoopRetestsCondition
CHECK_DEADLOCK FALSE
