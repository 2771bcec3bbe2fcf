SPECIFICATION Spec
CONSTANTS
  f = f
  g = g
  Names = {f, g}
  MaxObjects = 3
  MaxDepth = 4
SYMMETRY Symmetry
INVARIANTS NothingSkipped ShadowingHarmless
CHECK_DEADLOCK FALSE
