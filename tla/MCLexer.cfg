SPECIFICATION Spec
CONSTANTS
  Code <- MCCode
  Operations <- MCOperations
  Attributes <- MCAttributes
  Types <- MCTypes
  Comment <- MCComment
  MaxTokens = 3
  MaxText = 8
  Lexemes <- MCLexemes
  MaxLexemes = 3
  NoToken = none
INVARIANTS
  TypeOK
  NeverMisread
  RefusedOnlyRunTogether
CHECK_DEADLOCK FALSE
