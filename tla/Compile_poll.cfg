SPECIFICATION Spec
CONSTANTS
    WordBits = 16
    Programs <- MCPrograms
INVARIANT EveryBackEdgePolls
