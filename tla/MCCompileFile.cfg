SPECIFICATION Spec
CONSTANTS
  Names = {x, y}
  NoName = none
  MaxLines = 4
  QueueCap = 2
  BodyCap = 2
INVARIANTS
  TypeOK
  AcceptsWellFormed
  CompiledOnce
PROPERTIES
  BodyInOrder
  Terminates
CHECK_DEADLOCK FALSE
