SPECIFICATION Spec
CONSTANTS
  Names = {x, y}
  Nothing = none
  MaxParams = 2
  FrameSlots = 3
  MaxLines = 6
INVARIANTS
  TypeOK
  ReadsItsDeclaration
  AcceptsWellScoped
SYMMETRY NameSymmetry
CHECK_DEADLOCK FALSE
