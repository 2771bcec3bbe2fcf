SPECIFICATION Spec
CONSTANTS
  Mutators = {t1, t2}
  Blocks = {b1}
  NoBlock = NoBlock
  Nobody = Nobody
  ScannedStacks = {t1}
  Timeouts = FALSE
  Departures = {}
INVARIANTS HarmlessOverlap HarmlessUnsettled HarmlessLate HarmlessUnscanned
CHECK_DEADLOCK FALSE
