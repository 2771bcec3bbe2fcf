SPECIFICATION Spec
CONSTANTS
  Newline = "nl"
  Alphabet = {"a", "nl"}
  LeafMax = 2
  Files <- MCFiles
  MaxLength = 6
  MaxInsert = 3
  MaxPasted = 2
INVARIANTS EditsExact TreeSound LookupsAgree
