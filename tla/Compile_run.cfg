SPECIFICATION Spec
CONSTANTS
    WordBits = 16
    Programs <- MCPrograms
INVARIANTS RunsAsMeant OperandsDefined PollsEveryRound OverridesKeepSlots
PROPERTY ProgramsEnd
