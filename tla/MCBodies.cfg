CONSTANTS
  BodyCap = 8
  MaxLines = 8
SPECIFICATION Spec
INVARIANTS
  TypeOK
  JumpsReachTheirBody
  NoDanglingJump
  ContextMatchesSource
  NeverFails
CHECK_DEADLOCK FALSE
