SPECIFICATION Spec
CONSTANTS
  f = f
  g = g
  Names = {f, g}
  MaxObjects = 3
  MaxDepth = 4
SYMMETRY Symmetry
INVARIANTS TypeOK ReleasedExactlyOnce
PROPERTY InnermostFirst
CHECK_DEADLOCK FALSE
