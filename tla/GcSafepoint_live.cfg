SPECIFICATION FairSpec
CONSTANTS
  Mutators = {t1, t2}
  Blocks = {b1}
  NoBlock = NoBlock
  Nobody = Nobody
  ScannedStacks = {t1, t2}
  Timeouts = FALSE
  Departures = {"exit"}
PROPERTIES ParkedResumes CollectionEnds
CONSTRAINT UntilDisturbed
CHECK_DEADLOCK FALSE
