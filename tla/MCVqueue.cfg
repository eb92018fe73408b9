SPECIFICATION Spec
CONSTANTS
  Elem = {z, a}
  Zero = z
  Cap = 3
  MaxBatch = 4
  MaxIndex = 8
INVARIANTS
  TypeOK
  IndicesAgree
PROPERTIES
  IsFifo
