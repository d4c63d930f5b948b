SPECIFICATION FairSpec
CONSTANTS
  Clients = {b1, b2}
  MaxSeq = 2
  MaxRuns = 2
CHECK_DEADLOCK FALSE
INVARIANTS TypeOK
PROPERTIES DisplayGoesForward BrowsersCatchUp
