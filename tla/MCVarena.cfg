SPECIFICATION ArenaSpec
CONSTANTS
  Capacity = 8
  FrameSize = 2
  MaxRequest = 3
INVARIANTS
  ArenaTypeOK
  BlocksDisjoint
  HeadersIntact
PROPERTIES
  DisclaimUndoesClaim
  BlocksKeepTheirData
