SPECIFICATION FairSpec
CONSTANTS
  w1 = w1
  w2 = w2
  NoWindow = NoWindow
  Windows = {w1, w2}
  Capacity = 2
  MaxEvents = 5
  Timeouts = {"forever", "wait"}
INVARIANTS TypeOK EventsAccountedFor WindowOrder RunIsolated
PROPERTY FrameCloseSeen
CHECK_DEADLOCK FALSE
