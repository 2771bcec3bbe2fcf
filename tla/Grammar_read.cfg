SPECIFICATION Spec
CONSTANTS
    Identifiers = {"a", "b", "f"}
    Names = {"a", "b", "f"}
    Literals = {"1"}
    Programs <- MCPrograms
    Reading <- MCReading
    Chained = {TRUE, FALSE}
INVARIANT ReadAsMeant
CHECK_DEADLOCK FALSE
