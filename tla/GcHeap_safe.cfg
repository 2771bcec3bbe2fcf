SPECIFICATION Spec
CONSTANTS
  s1 = s1
  s2 = s2
  g1 = g1
  Null = Null
  Units = 6
  MaxClusters = 1
  Types = {2, 3}
  Traced = {2}
  Stack = {s1, s2}
  Globals = {g1}
SYMMETRY Symmetry
INVARIANTS TypeOK HeapWalks BooksExact ResolveExact NoDangling
PROPERTY ImplementsObjects
