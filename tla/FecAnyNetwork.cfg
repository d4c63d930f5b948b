SPECIFICATION Spec
CONSTANTS
  NLanes = 2
  GroupSize = 2
  GroupWrap = 8
  GroupTimeout = 3
  PollTimeout = 1
  Period = 1
  MaxDelay = 1
  Worlds <- TwoWorlds
INVARIANTS TypeOK NothingInvented
PROPERTIES AtMostOnce GivenUpOnlyTwoShort ImplementsFeed
