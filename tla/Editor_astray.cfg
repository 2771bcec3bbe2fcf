SPECIFICATION Spec
CONSTANTS
  Newline = "nl"
  Characters = {"a", "{", "nl", "cr", " "}
  Files <- MCFiles
  Typed = {"a"}
  Clips <- MCClips
  Patterns <- MCPatterns
  Replacements <- MCReplacements
  UndoCap = 2
  MaxLength = 4
  MaxEdits = 2
CONSTRAINT UntilAstray
INVARIANTS RedoExact HarmlessReplace HarmlessReturn UnmarkedIsSaved
