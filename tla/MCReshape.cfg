SPECIFICATION ShapeSpec
CONSTANTS
  MaxTokens = 8
  MaxHeader = 16
  ArgumentsMax = 3
  CdeclMax = 2
INVARIANTS TypeOK TokensInOrder HandsOnWholeLines DeclaresAsWritten ShapedAsWritten
CHECK_DEADLOCK FALSE
