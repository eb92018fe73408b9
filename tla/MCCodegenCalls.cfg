SPECIFICATION Spec
CONSTANTS
  Statements <- MCStatements
  Operations = 2
  Depths = {1}
  Literals = {}
  Bits = 4
INVARIANTS CallsKeepOperands
CHECK_DEADLOCK FALSE
