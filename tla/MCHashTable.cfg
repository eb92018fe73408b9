SPECIFICATION Spec
CONSTANTS
  Keys = {x, y, z}
  Vals = {u, v}
  NoVal = none
  NoKey = null
  KeyBytes = {4}
  ArenaCap = 2
  FrameSize = 1
  InitialCap = 2
  Hashes <- MCHashes
INVARIANTS
  TypeOK
  RefusedOnlyWhenFull
  StaysSparse
  IterationExact
  TextsStay
  NothingLeaks
PROPERTIES
  IsMap
SYMMETRY NameSymmetry
CHECK_DEADLOCK FALSE
