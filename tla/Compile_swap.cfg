SPECIFICATION Spec
CONSTANTS
    WordBits = 16
    Programs <- SwapProgram
INVARIANT RunsAsMeant
