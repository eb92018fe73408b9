SPECIFICATION Spec
CONSTANTS
  Statements <- MCStatements
  Operations = 3
  Depths = {1, 2, 3, 4, 5, 6, 7, 8, 9, 10, 11, 12, 13, 14, 15}
  Literals = {1, 2, 7}
  Bits = 4
INVARIANTS Encodable ComputesValue RefusedOnlyTooWide FoldsAsComputed
CHECK_DEADLOCK FALSE
