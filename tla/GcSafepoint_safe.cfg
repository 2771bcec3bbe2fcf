SPECIFICATION Spec
CONSTANTS
  Mutators = {t1, t2}
  Blocks = {b1, b2}
  NoBlock = NoBlock
  Nobody = Nobody
  ScannedStacks = {t1}
  Timeouts = TRUE
  Departures = {"exit", "unregister"}
SYMMETRY Symmetry
CONSTRAINT UntilDisturbed
INVARIANTS TypeOK IInv HeldBlocksSurvive WorldStopped ScanIsCurrent FlagOutlivesCycle
PROPERTY ContractSpec
CHECK_DEADLOCK FALSE
