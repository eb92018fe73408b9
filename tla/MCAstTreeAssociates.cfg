SPECIFICATION Spec
CONSTANTS
  MaxTokens = 8
  MaxHeader = 16
INVARIANT AssociatesLikeC
CHECK_DEADLOCK FALSE
