SPECIFICATION Spec
CONSTANTS
  s1 = s1
  s2 = s2
  g1 = g1
  Null = Null
  Units = 8
  MaxClusters = 1
  Types = {2, 3}
  Traced = {3}
  Stack = {s1, s2}
  Globals = {g1}
SYMMETRY Symmetry
INVARIANTS HarmlessSliver HarmlessUnlisted
